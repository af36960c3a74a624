--------------------------- MODULE MC_LanguageServer ---------------------------
(* A file in a directory, one in a directory there, and texts that need each *)
(* other.                                                                     *)
EXTENDS LanguageServer

MC_Files == <<"d/a", "d/s/b">>
MC_Path == ("d/a" :> <<"d", "a.polar">>) @@ ("d/s/b" :> <<"d", "s", "b.polar">>)

MC_Directories == {<<"d">>, <<"d", "s">>}

\* A block with roles, which asks for a has_role rule;   such a rule, and a
\* query;   a syntax error.
MC_Text ==
    [block |-> [parses |-> TRUE, lines |->
        <<BlockLine([keyword |-> "resource", resource |-> "Org", at |-> NoSource,
            productions |-> <<Declares("roles", "List", <<"admin", "member">>, {}),
                              Shorthand("member", "admin", "", NoRelation)>>])>>],
     roles |-> [parses |-> TRUE, lines |->
        <<RuleLine(Rule("has_role", <<Bound("a", Instance("Actor", {})),
                                      Bound("n", Instance("String", {})),
                                      Bound("r", Instance("Resource", {}))>>,
                        <<>>, {"SingletonVariable"}, NoSource)), QueryLine("has_role")>>],
     broken |-> [parses |-> FALSE, lines |-> <<>>]]
================================================================================
