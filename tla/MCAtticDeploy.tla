--------------------------- MODULE MCAtticDeploy ---------------------------
(* Instances of AtticDeploy for TLC: one shared library, one tool, two      *)
(* revisions of a host and one of the builder b, which is a host itself.    *)
EXTENDS AtticDeploy, TLC

CONSTANTS lib, cli, h0, h1, h2, b0, b1, b, c, remote, r1, r2

MCPath == {lib, cli, h0, h1, h2, b0, b1}
MCClosure == [p \in MCPath |-> {p, lib}]
MCMachine == {b, c, remote}
MCHost == {b, remote}
MCInstalled == (remote :> h0) @@ (b :> b0)
MCTooling == <<cli>>

Deploy(m, host, profile, flags) ==
  [script |-> "deploy", at |-> m, host |-> host, profile |-> profile,
   selected |-> {}, flags |-> flags]
Build(m, selected, flags) ==
  [script |-> "build", at |-> m, host |-> remote, profile |-> h1,
   selected |-> selected, flags |-> flags]
Check(m, selected) ==
  [script |-> "verify", at |-> m, host |-> remote, profile |-> h1,
   selected |-> selected, flags |-> {"ATTIC_HOSTS"}]

\* An operator's deploys and a build on the same builder, which is a host and
\* is deployed by itself and from a CI job.
OperatorRuns ==
  <<Deploy(b, remote, h1, {}), Deploy(b, remote, h2, {"SKIP_TOOLING"}),
    Deploy(b, b, b1, {"SKIP_IF_CACHED"}), Deploy(c, b, b1, {}), Build(b, {h1, b1}, {})>>

\* CI jobs in containers of their own (c), the bootstrap hatch and a refill
\* without Attic, on a cache that is emptied and repaired.
GhostRuns ==
  <<Build(b, {h1}, {"FILL_PUBLIC_ONLY"}), Build(c, {h1}, {"SKIP_IF_CACHED", "ATTIC_HOSTS"}),
    Build(c, {h1}, {"TOOLING_ONLY"}), Check(c, {h1}),
    Deploy(c, remote, h1, {"SKIP_FILL"}), Deploy(remote, remote, h0, {"SKIP_FILL", "FORCE_SWITCH"}),
    Deploy(b, remote, h1, {"COPY_FROM_BUILDER", "SKIP_TOOLING"})>>

MCEnvs == {OperatorRuns[i] : i \in DOMAIN OperatorRuns} \cup {GhostRuns[i] : i \in DOMAIN GhostRuns}

-----------------------------------------------------------------------------
\* Both runs of the scripts come from one of the two families, in the order
\* of the list: the runs are interchangeable.
From(runs) == \E i, k \in DOMAIN runs : i <= k /\ env[r1] = runs[i] /\ env[r2] = runs[k]

AtticInit == Init /\ (From(OperatorRuns) \/ From(GhostRuns))

\* Kills are looked at in the first family, a Garage that lost its data in
\* the second.
AtticNext ==
  \/ \E j \in Job : Step(j) \/ Breakdown(j) \/ (From(OperatorRuns) /\ Kill(j))
  \/ (From(GhostRuns) /\ GarageEmptied)
  \/ (From(GhostRuns) /\ TruncateRows)

AtticSpec == AtticInit /\ [][AtticNext]_vars /\ \A j \in Job : WF_vars(Step(j))

=============================================================================
