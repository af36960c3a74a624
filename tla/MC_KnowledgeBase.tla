---------------------------- MODULE MC_KnowledgeBase ----------------------------
(* Policies about users, organizations and repositories, right and wrong. *)
EXTENDS KnowledgeBase

MC_Class ==
    [User |-> [id |-> 1, mro |-> {1}], Staff |-> [id |-> 2, mro |-> {2, 1}],
     Org |-> [id |-> 3, mro |-> {3}], Repo |-> [id |-> 4, mro |-> {4}],
     String |-> [id |-> 5, mro |-> {5}], List |-> [id |-> 6, mro |-> {6}],
     Dictionary |-> [id |-> 7, mro |-> {7}]]

MC_Object(class, fields) == Term("Object", class, <<>>, fields)

MC_World ==
    {MC_Object("User", {}), MC_Object("Staff", {<<"level", "1">>}),
     MC_Object("Org", {}), MC_Object("Repo", {}),
     Str("admin"), Str("parent"), Str("owner"), Str("partner"),
     List(<<"a", "b">>), Dictionary({<<"level", "1">>})}

MC_Is(tag) == Bound("x", Instance(tag, {}))
MC_Name(name) == Given(Str(name))

\* A fact, and a rule with calls.
MC_Fact(name, params) == RuleLine(Rule(name, params, <<>>, {}, NoSource))
MC_Type(name, params) == TypeLine(Type(name, params, FALSE, NoSource), FALSE)
MC_Block(keyword, resource, productions) ==
    BlockLine([keyword |-> keyword, resource |-> resource, productions |-> productions,
               at |-> NoSource])

MC_Roles(list) == Declares("roles", "List", list, {})
MC_Permissions(list) == Declares("permissions", "List", list, {})
MC_Relations(dict) == Declares("relations", "Dictionary", <<>>, dict)
MC_If(head, implier) == Shorthand(head, implier, "", NoRelation)
MC_On(head, implier, relation) == Shorthand(head, implier, "on", relation)

MC_User == MC_Block("actor", "User", <<>>)
MC_RoleFact == MC_Fact("has_role", <<MC_Is("User"), MC_Name("admin"), MC_Is("Org")>>)
MC_ParentFact == MC_Fact("has_relation", <<MC_Is("Org"), MC_Name("parent"), MC_Is("Repo")>>)
MC_OwnerFact == MC_Fact("has_relation", <<MC_Is("User"), MC_Name("owner"), MC_Is("Org")>>)

MC_Source(lines) == [parses |-> TRUE, lines |-> lines]

MC_Text ==
    [org |-> MC_Source(<<MC_User,
                MC_Block("resource", "Org", <<MC_Roles(<<"admin">>), MC_Permissions(<<"read">>),
                                              MC_If("read", "admin")>>), MC_RoleFact>>),
     \* The name admin is a permission here, and a role there.
     repo |-> MC_Source(<<MC_Block("resource", "Repo",
                <<MC_Permissions(<<"read", "admin">>), MC_Relations({<<"parent", "Org">>}),
                  MC_On("admin", "admin", "parent"), MC_If("read", "admin")>>)>>),
     \* Org again, with a relation that repositories are owned by.
     owner |-> MC_Source(<<MC_Block("resource", "Org", <<MC_Relations({<<"owner", "User">>})>>),
                MC_Block("resource", "Repo", <<MC_Roles(<<"writer">>),
                    MC_On("writer", "owner", "parent"), MC_If("read", "writer")>>)>>),
     unused |-> MC_Source(<<MC_Block("resource", "Org", <<MC_Relations({<<"partner", "Org">>})>>)>>),
     \* What goes along the relation of unused, which may be loaded before.
     partners |-> MC_Source(<<MC_Block("resource", "Org",
                    <<MC_Permissions(<<"see">>), MC_On("see", "see", "partner")>>),
                  MC_Fact("has_relation", <<MC_Is("Org"), MC_Name("partner"), MC_Is("Org")>>)>>),
     parents |-> MC_Source(<<MC_ParentFact>>),
     owners |-> MC_Source(<<MC_OwnerFact>>),
     \* admin, a role of Org, declared as a permission.
     clash |-> MC_Source(<<MC_Block("resource", "Org", <<MC_Permissions(<<"admin">>)>>)>>),
     twice |-> MC_Source(<<MC_Block("resource", "Org", <<MC_Roles(<<"admin">>),
                                                         MC_Permissions(<<"admin">>)>>)>>),
     wrong |-> MC_Source(<<MC_Block("", "Org", <<Declares("roles", "Dictionary", <<>>, {}),
                                                 MC_Permissions(<<>>), MC_Permissions(<<>>)>>)>>),
     with |-> MC_Source(<<MC_User, MC_Block("resource", "Repo",
                <<MC_Permissions(<<"read">>), MC_Relations({<<"parent", "Org">>}),
                  Shorthand("read", "admin", "with", "parent")>>)>>),
     broken |-> [parses |-> FALSE, lines |-> <<>>],
     \* Rule types for f, and rules that fit them or do not.
     types |-> MC_Source(<<MC_Type("f", <<Bound("x", Instance("User", {<<"level", "1">>}))>>),
                           MC_Type("f", <<Bound("x", Instance("String", {}))>>)>>),
     dots |-> MC_Source(<<TypeLine(Type("f", <<MC_Is("User")>>, FALSE, NoSource), TRUE)>>),
     members |-> MC_Source(<<MC_User, MC_Type("f", <<MC_Is("Actor")>>),
                             MC_Type("f", <<Bound("x", DictPattern({<<"level", "1">>}))>>),
                             QueryLine("f")>>),
     user |-> MC_Source(<<MC_Fact("f", <<MC_Is("User")>>)>>),
     staff |-> MC_Source(<<MC_Fact("f", <<Bound("x", Instance("Staff", {<<"level", "1">>}))>>)>>),
     anyone |-> MC_Source(<<MC_Fact("f", <<MC_Is("Actor")>>), MC_Fact("f", <<MC_Name("admin")>>)>>),
     all |-> MC_Source(<<RuleLine(Rule("f", <<Bound("x", NoTerm)>>, <<Call("g", <<"x">>)>>,
                                       {"SingletonVariable"}, NoSource))>>),
     dict |-> MC_Source(<<MC_Fact("f", <<Given(Dictionary({<<"level", "1">>}))>>)>>),
     \* Lists and dictionaries, which may have more than those of a type.
     shapes |-> MC_Source(<<MC_Type("f", <<Given(List(<<"a">>))>>),
                            MC_Type("f", <<Bound("x", Instance("Dictionary", {}))>>),
                            MC_Fact("f", <<Given(List(<<"b", "a">>))>>),
                            MC_Fact("f", <<Given(List(<<"a", "b">>))>>),
                            MC_Fact("f", <<Bound("x", DictPattern({<<"level", "1">>}))>>)>>)]

MC_File(content) == [filename |-> content, src |-> content]

MC_Policies == {"org", "repo", "owner", "parents", "owners", "unused", "clash", "twice", "wrong", "with"}
MC_Typed == {"types", "dots", "members", "user", "staff", "anyone", "all", "dict", "broken"}

MC_Pairs(S) == {<<MC_File(c), MC_File(d)>> : <<c, d>> \in S \X S}

MC_Loads ==
    {<<MC_File(c)>> : c \in DOMAIN MC_Text}
    \cup MC_Pairs(MC_Policies) \cup MC_Pairs(MC_Typed)
    \cup {<<MC_File("org"), MC_File("repo"), MC_File("parents")>>,
          <<MC_File("owner"), MC_File("org"), MC_File("repo"), MC_File("parents"),
            MC_File("owners")>>,
          <<MC_File("org"), MC_File("repo"), MC_File("owner"), MC_File("parents")>>,
          <<MC_File("unused"), MC_File("partners")>>,
          <<[filename |-> NoFile, src |-> "user"], [filename |-> NoFile, src |-> "user"]>>}
================================================================================
