----------------------------- MODULE MC_PolicyLoad -----------------------------
(* Texts that fit together, texts that do not, and the loads made of them. *)
EXTENDS PolicyLoad, TLC

CONSTANTS t1, t2

MC_Text(parses, rs, ts, block, queries) ==
    [parses |-> parses, rules |-> rs, types |-> ts, block |-> block,
     queries |-> queries]

MC_Rule(name, shape, calls) == [name |-> name, shape |-> shape, calls |-> calls]
MC_Type(name, shape, required) ==
    [name |-> name, shape |-> shape, required |-> required]

\* f(1);   f(1) if g();   g();   type f(2);   a block that requires g;
\* ?= g(); and f(1);   and a text with a syntax error.
MC_F == MC_Text(TRUE, {MC_Rule("f", "1", {})}, {}, {}, <<>>)
MC_Calls == MC_Text(TRUE, {MC_Rule("f", "1", {"g"})}, {}, {}, <<>>)
MC_G == MC_Text(TRUE, {MC_Rule("g", "0", {})}, {}, {}, <<>>)
MC_TypeF == MC_Text(TRUE, {}, {MC_Type("f", "2", FALSE)}, {}, <<>>)
MC_Block == MC_Text(TRUE, {}, {}, {MC_Type("g", "0", TRUE)}, <<>>)
MC_Asks == MC_Text(TRUE, {MC_Rule("f", "1", {})}, {}, {}, <<"g", "f">>)
MC_Broken == MC_Text(FALSE, {}, {}, {}, <<>>)

MC_Contents == {MC_F, MC_Calls, MC_G, MC_TypeF, MC_Block, MC_Asks, MC_Broken}

MC_Str(c) == [filename |-> NoFile, src |-> c]
MC_File(name, c) == [filename |-> name, src |-> c]

\* A file may be loaded twice, under one name or two.
MC_Loads ==
    {<<MC_File("f", MC_F)>>, <<MC_Str(MC_Calls)>>, <<MC_Str(MC_TypeF)>>,
     <<MC_File("b", MC_Block), MC_File("g", MC_G)>>, <<MC_Str(MC_Asks)>>,
     <<MC_File("f", MC_Calls), MC_Str(MC_G)>>,
     <<MC_Str(MC_G), MC_File("g", MC_Broken)>>,
     <<MC_File("f", MC_F), MC_File("g", MC_F)>>}

MC_RuleLoads == {<<MC_Str(MC_F)>>}
MC_TypeLoads == {<<MC_Str(MC_TypeF)>>}
MC_InlineLoads == {<<MC_Str(MC_Asks)>>, <<MC_Str(MC_F)>>}

MC_Symmetry == Permutations(Threads)
================================================================================
