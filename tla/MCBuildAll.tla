----------------------------- MODULE MCBuildAll -----------------------------
(***************************************************************************)
(* BuildAll for gcc, which needs glibc and perl to build, glibc in two     *)
(* versions, and m4, whose file is written over and over: with another     *)
(* need, which may close a cycle, with every kind of mistake a rule of the *)
(* validator is for, and with some it only warns of.  perl has no recipe.  *)
(***************************************************************************)
EXTENDS BuildAll, TLC

MCKebab == {"gcc", "glibc", "perl", "m4", "main", "ssl"}

Dep(section, n) == [section |-> section, name |-> n, constraint |-> "none"]
MCSource == [url |-> "https", hash |-> "lower", signature |-> "none"]
MCOption == [name |-> "ssl", description |-> "text", depends |-> {}]
MCOutput == [name |-> "main", description |-> "text", files |-> {"glob"}]
MCPatch == [name |-> "fix", conditional |-> FALSE, condition |-> "none"]
Doc(n, v, depends) ==
    [api_version |-> 1, name |-> n, version |-> v, release |-> 1, description |-> "text",
     license |-> "spdx", sources |-> <<MCSource>>, build |-> "script", depends |-> depends,
     features |-> [default |-> {}, options |-> {}],
     outputs |-> [present |-> FALSE, entries |-> {}], patches |-> {}]

M4 == Doc("m4", "1", {})
BadDep(dep) == [M4 EXCEPT !.depends = {dep}]
BadSource(source) == [M4 EXCEPT !.sources = <<source>>]
BadOption(o) == [M4 EXCEPT !.features = [default |-> {}, options |-> {o}]]

\* What the rules of the validator are for ...
Mistakes == <<
    [M4 EXCEPT !.api_version = 2], [M4 EXCEPT !.release = 0], [M4 EXCEPT !.description = Blank],
    [M4 EXCEPT !.license = Blank], [M4 EXCEPT !.sources = <<>>],
    BadSource([MCSource EXCEPT !.url = "file"]), BadSource([MCSource EXCEPT !.hash = "short"]),
    BadSource([MCSource EXCEPT !.signature = "x509"]),
    [M4 EXCEPT !.build = "no block"], [M4 EXCEPT !.build = "no install"], [M4 EXCEPT !.build = Blank],
    BadDep(Dep("build", "M_4")), BadDep(Dep("runtime", "m4")),
    BadDep([Dep("build", "glibc") EXCEPT !.constraint = "bad"]),
    [M4 EXCEPT !.features = [default |-> {"ssl"}, options |-> {}]],
    BadOption([MCOption EXCEPT !.description = Blank]),
    BadOption([MCOption EXCEPT !.depends = {Dep("feature", Blank)}]),
    [M4 EXCEPT !.outputs = [present |-> TRUE, entries |-> {[MCOutput EXCEPT !.description = Blank]}]],
    [M4 EXCEPT !.patches = {[MCPatch EXCEPT !.name = Blank]}] >>

\* ... and all of what they warn of in one.
Careless == [M4 EXCEPT !.license = "not spdx",
    !.outputs = [present |-> TRUE, entries |-> {[MCOutput EXCEPT !.name = "doc", !.files = {"escape"}]}],
    !.patches = {[MCPatch EXCEPT !.conditional = TRUE]}]

Good == ("gcc" :> Doc("gcc", "14", {Dep("build", "glibc"), Dep("build", "perl"), Dep("runtime", "m4")}))
     @@ ("glibc239" :> Doc("glibc", "2.39", {Dep("build", "m4")}))
     @@ ("glibc243" :> Doc("glibc", "2.43", {Dep("check", "gcc")}))
     @@ ("m4" :> M4) @@ ("m4careless" :> Careless)
     @@ ("m4gcc" :> Doc("m4", "1", {Dep("build", "gcc")}))
MCText == Good @@ [r \in {ToString(i) : i \in DOMAIN Mistakes} |->
                      Mistakes[CHOOSE i \in DOMAIN Mistakes : ToString(i) = r]]
MCRecipe == DOMAIN MCText
MCNameOf == [r \in MCRecipe |-> MCText[r].name]
MCVersionOf == [r \in MCRecipe |-> MCText[r].version]
MCTextRank == ("1" :> 1) @@ ("14" :> 2) @@ ("2.39" :> 3) @@ ("2.43" :> 4)
MCFileOf == [r \in MCRecipe |-> IF MCNameOf[r] = "m4" THEN "m4" ELSE r]
=============================================================================
