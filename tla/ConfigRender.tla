---------------------------- MODULE ConfigRender ----------------------------
(***************************************************************************)
(* config/config_render.go: the configuration files are merged, and the    *)
(* variables {{key}} in their values are replaced by the values of those   *)
(* keys until no variable is left.  A value is a sequence of parts, each a *)
(* variable (the key it names) or the text Text.  The marks and quotes     *)
(* that turn a variable into valid TOML and back are not modelled: a value *)
(* is one template throughout.                                             *)
(***************************************************************************)
EXTENDS Integers, Sequences, FiniteSets

CONSTANTS
    Defaults,    \* the default file: set of functions from keys to values
    Specifics,   \* the user's file, which may define some of the keys
    Environment, \* keys that have a value in the environment, always a text
    Text,        \* a part that is no variable
    MaxVars      \* bound: variables at which ResolveCycle is no longer followed

ASSUME RenderAssumption == MaxVars \in Nat

VARIABLES
    files,     \* FilesData: the default one and the specific one
    doc,       \* the document being rendered
    pending,   \* len(pendinVars)
    render     \* "merge", "resolve", "cycle", "ok", "missing vars", "cycle vars", "bound"

renderVars == <<files, doc, pending, render>>

RenderInit ==
    /\ \E d \in Defaults, s \in Specifics : files = <<d, s>>
    /\ doc = << >> /\ pending = 0 /\ render = "merge"

Vars(value) == {value[i] : i \in {j \in 1 .. Len(value) : value[j] # Text}}

\* GetVars: every occurrence counts.
GetVars(d) ==
    Cardinality(UNION {{<<k, i>> : i \in {j \in 1 .. Len(d[k]) : d[k][j] # Text}} : k \in DOMAIN d})

mergeFiles(d, s) == [k \in DOMAIN d \cup DOMAIN s |-> IF k \in DOMAIN s THEN s[k] ELSE d[k]]

Merge ==
    /\ render = "merge"
    /\ doc' = mergeFiles(files[1], files[2])
    /\ render' = "resolve"
    /\ UNCHANGED <<files, pending>>

\* executeTemplate for one part: the environment, then the values of the
\* document as it is before this round, else the variable stays.
Replace(part) ==
    IF part = Text THEN <<Text>>
    ELSE IF part \in Environment THEN <<Text>>
    ELSE IF part \in DOMAIN doc THEN doc[part]
    ELSE <<part>>

executeTemplate ==
    [k \in DOMAIN doc |->
        LET upTo[i \in 0 .. Len(doc[k])] ==
              IF i = 0 THEN << >> ELSE upTo[i - 1] \o Replace(doc[k][i])
        IN upTo[Len(doc[k])]]

GetUnresolvedVars == (UNION {Vars(doc[k]) : k \in DOMAIN doc}) \ (DOMAIN doc \cup Environment)

\* ResolveVars up to its call of ResolveCycle.
ResolveVars ==
    /\ render = "resolve"
    /\ doc' = executeTemplate
    /\ pending' = GetVars(doc')
    /\ render' = IF GetUnresolvedVars # {} THEN "missing vars"
                 ELSE IF pending' = 0 THEN "ok" ELSE "cycle"
    /\ UNCHANGED files

\* Mutant of NoProgress: an equal number of variables is progress.
MoreVars(before, now) == now > before

NoProgress(before, now) == now = before

\* One round of ResolveCycle.
ResolveCycle ==
    /\ render = "cycle"
    /\ doc' = executeTemplate
    /\ pending' = GetVars(doc')
    /\ render' = IF NoProgress(pending, pending') THEN "cycle vars"
                 ELSE IF pending' = 0 THEN "ok"
                 ELSE IF pending' > MaxVars THEN "bound" ELSE "cycle"
    /\ UNCHANGED files

RenderNext == Merge \/ ResolveVars \/ ResolveCycle

-----------------------------------------------------------------------------
(* Properties                                                              *)

Merged == mergeFiles(files[1], files[2])

\* Keys whose value is known without a key outside of the set: the least
\* fixed point is the set of keys that have a value.
Grounded ==
    LET step(ks) == {k \in DOMAIN Merged : Vars(Merged[k]) \subseteq ks \cup Environment}
        ground[n \in 0 .. Cardinality(DOMAIN Merged)] ==
            IF n = 0 THEN {} ELSE step(ground[n - 1])
    IN ground[Cardinality(DOMAIN Merged)]

SingleVars == \A k \in DOMAIN Merged : Len(Merged[k]) = 1

Resolved ==
    /\ Grounded = DOMAIN Merged
    /\ \A k \in DOMAIN doc : Vars(doc[k]) = {}
    /\ \A k \in DOMAIN files[2] : Vars(files[2][k]) = {} => doc[k] = files[2][k]

\* Render succeeds only when every key has a value, and then every variable is
\* replaced, the user's file coming before the defaults.  When no value has more
\* than one variable, every round of ResolveCycle leaves fewer of them or is the
\* last one, and an error is returned for a cycle only, never for a chain of
\* variables.
CycleIsFound ==
    [][/\ render' = "ok" => Resolved'
       /\ SingleVars =>
             /\ render = "cycle" /\ render' = "cycle" => pending' < pending
             /\ render' = "cycle vars" => Grounded # DOMAIN Merged]_renderVars
=============================================================================
