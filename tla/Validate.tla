----------------------------- MODULE Validate -----------------------------
(***************************************************************************)
(* The validator of ribosome-parser: what is wrong with an mRNA document,  *)
(* and whether parse_mrna accepts it.  A document is a record; of its      *)
(* texts only what the rules look at is there.                             *)
(***************************************************************************)
EXTENDS Naturals, Sequences

CONSTANT Kebab      \* the names of the form [a-z][a-z0-9]*(-[a-z0-9]+)*

SUPPORTED_API_VERSION == 1
Blank == ""

\* Each rule gives the issues it finds: a severity and a field.
Error(field, wrong) == IF wrong THEN {<<"error", field>>} ELSE {}
Warning(field, wrong) == IF wrong THEN {<<"warning", field>>} ELSE {}
Required(field, text) == Error(field, text = Blank)

\* parse_dependency_spec of [name, constraint]: the name alone, or an operator
\* and a version, which is "none", "version", or "bad" if missing or no version.
DependencyParses(dep) == dep.name \in Kebab /\ dep.constraint \in {"none", "version"}

LicenseIssues(d) ==
    Required("license", d.license) \cup Warning("license", d.license = "not spdx")

SourceIssues(s) ==
    Error("url", s.url \notin {"http", "https", "ftp"})
        \cup Error("hash", s.hash \notin {"none", "lower", "upper"})
        \cup Error("signature", s.signature \notin {"none", "gpg", "minisign"})

SourcesIssues(d) ==
    Error("sources", d.sources = <<>>)
        \cup UNION {SourceIssues(d.sources[i]) : i \in DOMAIN d.sources}

\* A bug: a script of white space passes.
BuildAnyIssues(d) ==
    Error("build", d.build = "no block") \cup Error("build.install", d.build = "no install")

BuildIssues(d) ==
    Error("build", d.build = "no block")
        \cup Error("build.install", d.build \in {"no install", Blank})

\* Dependencies are of the sections build, runtime and check.
DependsIssues(d) ==
    UNION {Error(dep.section, ~DependencyParses(dep) \/ dep.name = d.name) : dep \in d.depends}

FeatureIssues(d) ==
    Error("features.default", ~(d.features.default \subseteq {o.name : o \in d.features.options}))
        \cup UNION {Required("features.description", o.description)
                    \cup Error("features.depends", \E dep \in o.depends : ~DependencyParses(dep))
                        : o \in d.features.options}

OutputIssues(d) ==
    Warning("outputs", d.outputs.present /\ "main" \notin {o.name : o \in d.outputs.entries})
        \cup UNION {Required("outputs.description", o.description)
                    \cup Warning("outputs.files", o.files \cap {Blank, "escape"} # {})
                        : o \in d.outputs.entries}

\* A patch is a name, or has a condition as well, "none" if left out.
PatchIssues(d) ==
    UNION {Required("patches", p.name)
           \cup Warning("patches.condition", p.conditional /\ p.condition \in {"none", Blank})
               : p \in d.patches}

Issues(d) ==
    Error("api-version", d.api_version # SUPPORTED_API_VERSION)
        \cup Error("name", d.name \notin Kebab)
        \cup Required("version", d.version)
        \cup Error("release", d.release < 1)
        \cup Required("description", d.description)
        \cup LicenseIssues(d) \cup SourcesIssues(d) \cup BuildIssues(d) \cup DependsIssues(d)
        \cup FeatureIssues(d) \cup OutputIssues(d) \cup PatchIssues(d)

\* parse_mrna returns the document unless an issue is an error.
Accepted(d) == \A issue \in Issues(d) : issue[1] # "error"
=============================================================================
