---------------------- MODULE StatelessCheckpoint_proofs ----------------------
(***************************************************************************)
(* Proofs about StatelessCheckpoint: at every point the process can be      *)
(* stopped the newest pair is complete and resumable, and no step loses it. *)
(***************************************************************************)
EXTENDS StatelessCheckpointProperties, TLAPS

TypeOK ==
    /\ policies \subseteq Policy
    /\ learners \subseteq Pair
    /\ manifests \subseteq Pair
    /\ external \subseteq Curriculum
    /\ step \in {"policy", "submit", "window", "settle", "prune", "update",
                 "reconcile", "clean", "off", "done"}
    /\ run \in Nat
    /\ version \in Nat
    /\ live \in Curriculum
    /\ persisted \subseteq Curriculum
    /\ job \subseteq Pair
    /\ stage \in {"idle", "learner", "manifest", "latest", "done"}
    /\ doomed \subseteq {"manifest", "learner", "policy"} \X Nat

\* The lane is busy only while the learner collects or waits for it, with one
\* pair of the learner's version whose files appear in the order of the stages.
LaneInv ==
    /\ stage = "idle" <=> job = {}
    /\ \A p, q \in job : p = q
    /\ step \notin {"window", "settle"} => stage = "idle"
    /\ step = "settle" => stage # "idle"
    /\ \A p \in job : /\ p.version = version
                      /\ p.predecessor = persisted
                      /\ p.version = 0 \/ p.predecessor # {}
                      /\ p.state.window = version
                      /\ p.state.members = live.members
                      /\ PolicyOf(p) \in policies
    /\ stage = "manifest" => job \subseteq learners
    /\ stage \in {"latest", "done"} => job \subseteq manifests
    /\ stage = "done" => latest = job

\* Where the running learner stands relative to what is published.
AheadInv ==
    /\ \A m, n \in manifests : m.version = n.version => m = n
    /\ manifests # {} => Newest # {}
    /\ step \notin {"off", "reconcile"} => \A m \in manifests : m.version <= version
    /\ step \in {"policy", "submit"} \/ stage \in {"learner", "manifest"}
          => \A m \in manifests : m.version < version
    /\ step = "off" => version = 0
    /\ step \in {"off", "reconcile", "clean"} => persisted = {}
    /\ step = "submit" => [version |-> version, run |-> run] \in policies

\* The curriculum's window counter dates its states: a pair's own state is of
\* its version, its predecessor older, and no older than the pair before.
WindowInv ==
    /\ \A m \in manifests : /\ m.state.window = m.version
                            /\ m.version = 0 \/ m.predecessor # {}
                            /\ \A s \in m.predecessor : s.window < m.version
    /\ \A m, n \in manifests : m.version < n.version =>
          \A s \in n.predecessor : m.version <= s.window
    /\ step \in {"policy", "submit", "reconcile", "clean"} => live.window = version
    /\ step = "window" => live.window = version
    /\ step = "update" => live.window = version + 1
    /\ step \in {"settle", "prune"} => live.window \in {version, version + 1}
    /\ \A p \in job : \A s \in p.predecessor : s.window < p.version
    /\ step \in {"policy", "submit"} => \A s \in persisted : s.window < version
    /\ step \notin {"off", "reconcile"} => \A s \in persisted : s.window <= version

\* The curriculum file against the newest pair, and the members' policies.
DurableInv ==
    /\ step \notin {"off", "reconcile", "clean"} =>
          persisted = external /\ live.members \subseteq policies
    /\ step \notin {"off", "reconcile", "clean"} /\ stage \in {"idle", "learner", "manifest"}
          => \A m \in Newest : external = {m.state}
    /\ step \in {"reconcile", "clean"} =>
          \E m \in manifests : m.version = version /\ m.state = live /\ external = {live}

\* What a cleanup may still delete.
DoomedInv ==
    /\ step \notin {"prune", "clean"} => doomed = {}
    /\ step = "prune" =>
          /\ Newest \subseteq latest
          /\ \A f \in doomed :
                /\ f[1] = "manifest" => \A m \in latest : m.version # f[2]
                /\ f[1] # "manifest" => \/ <<"manifest", f[2]>> \in doomed
                                        \/ AtVersion(manifests, f[2]) = {}
                /\ f[1] = "policy" =>
                      /\ \A k \in live.members : k.version # f[2]
                      /\ \A m \in Newest : \A k \in m.state.members : k.version # f[2]
    /\ step = "clean" =>
          \A f \in doomed : /\ f[1] \in {"learner", "policy"}
                            /\ f[2] > version
                            /\ f[1] = "policy" => \A k \in live.members : k.version # f[2]

IInv ==
    /\ TypeOK
    /\ LaneInv
    /\ AheadInv
    /\ WindowInv
    /\ DurableInv
    /\ DoomedInv
    /\ Recoverable

-----------------------------------------------------------------------------
(* Every step keeps the invariant *)

\* What a prune chooses: never the pair latest.json names, a sidecar or policy
\* only after its manifest, and no policy of a member of the given states.
LEMMA PrunableKinds ==
    ASSUME TypeOK, NEW states, NEW f \in Prunable(states)
    PROVE  /\ f \in {"manifest", "learner", "policy"} \X Nat
           /\ f[1] = "manifest" => \A m \in latest : m.version # f[2]
           /\ f[1] # "manifest" => \/ <<"manifest", f[2]>> \in Prunable(states)
                                   \/ AtVersion(manifests, f[2]) = {}
           /\ f[1] = "policy" => \A s \in states : \A k \in s.members : k.version # f[2]
<1> DEFINE protected == {m.version : m \in UNION {s.members : s \in states}}
           old(files) == {g.version : g \in files} \ Retained
<1>1. /\ KeepLast # 0
      /\ f \in ({"manifest"} \X old(manifests)) \cup ({"learner"} \X old(learners))
               \cup ({"policy"} \X (old(policies) \ protected))
      /\ {"manifest"} \X old(manifests) \subseteq Prunable(states)
  BY DEF Prunable
<1>2. /\ old(manifests) \subseteq Nat
      /\ old(learners) \subseteq Nat
      /\ old(policies) \subseteq Nat
  BY DEF TypeOK, Policy, Pair
<1>3. \A m \in latest : m.version \in Retained
  BY DEF Retained
<1>4. /\ f[2] \notin Retained
      /\ f[1] = "policy" => f[2] \notin protected
  BY <1>1
<1>5. ASSUME AtVersion(manifests, f[2]) # {}
      PROVE  <<"manifest", f[2]>> \in Prunable(states)
  <2>1. PICK m \in manifests : m.version = f[2]
    BY <1>5 DEF AtVersion
  <2>2. f[2] \in old(manifests)
    BY <1>4, <2>1
  <2> QED
    BY <1>1, <2>2
<1>6. f \in {"manifest", "learner", "policy"} \X Nat
  <2> HIDE DEF old, protected
  <2> QED
    BY <1>1, <1>2
<1>7. ASSUME NEW s \in states, NEW k \in s.members
      PROVE  k.version \in protected
  OBVIOUS
<1> HIDE DEF old, protected
<1> QED
  BY <1>3, <1>4, <1>5, <1>6, <1>7

\* An admission or none: the published state differs in its members and the
\* admitted policies only, and its members' policies are on disk.
LEMMA PublishableKinds ==
    ASSUME IInv, step = "submit", NEW s \in Publishable
    PROVE  /\ s \in Curriculum
           /\ s.window = live.window
           /\ s.members \subseteq policies
<1>1. live \in Curriculum /\ live.members \subseteq policies
  BY DEF IInv, TypeOK, DurableInv
<1>2. Candidates \subseteq policies /\ policies \subseteq Policy
  BY DEF IInv, TypeOK, AheadInv, Recoverable, Complete, Candidates, PolicyOf
<1>3. \A gone \in Retired : gone \subseteq live.members
  BY DEF Retired
<1>4. CASE s = live
  BY <1>1, <1>4
<1>5. ASSUME NEW p \in Candidates, NEW gone \in Retired, s = AdmittedTo(p, gone)
      PROVE  /\ s \in Curriculum
             /\ s.window = live.window
             /\ s.members \subseteq policies
  <2>1. p \in policies /\ p \in Policy
    BY <1>2
  <2>2. s = [run |-> live.run, window |-> live.window,
             members |-> (live.members \ gone) \cup {p},
             admitted |-> live.admitted \cup {p}]
    BY <1>1, <1>5 DEF Curriculum, AdmittedTo
  <2> QED
    BY <1>1, <2>1, <2>2 DEF Curriculum
<1>6. s = live \/ \E p \in Candidates, gone \in Retired : s = AdmittedTo(p, gone)
  BY DEF Publishable
<1> QED
  BY <1>4, <1>5, <1>6

LEMMA PublishPolicy_Keeps ==
    ASSUME IInv, PublishPolicy
    PROVE  IInv'
<1>1. TypeOK'
  BY DEF IInv, TypeOK, LaneInv, PublishPolicy, memory, lane, Policy
<1>2. LaneInv'
  BY DEF IInv, LaneInv, PublishPolicy, PolicyOf, memory, lane
<1>3. AheadInv'
  BY DEF IInv, AheadInv, LaneInv, PublishPolicy, Newest, memory, lane
<1>4. WindowInv'
  BY DEF IInv, WindowInv, LaneInv, PublishPolicy, memory, lane
<1>5. DurableInv'
  BY DEF IInv, DurableInv, LaneInv, PublishPolicy, Newest, memory, lane
<1>6. DoomedInv'
  BY DEF IInv, DoomedInv, LaneInv, PublishPolicy, Newest, AtVersion, memory,
     lane
<1>7. Recoverable'
  BY DEF IInv, Recoverable, LaneInv, PublishPolicy, Newest, Complete, memory,
     lane
<1> QED
  BY <1>1, <1>2, <1>3, <1>4, <1>5, <1>6, <1>7 DEF IInv

LEMMA Submit_Keeps ==
    ASSUME IInv, Submit
    PROVE  IInv'
<1>a. PICK s \in Publishable :
          /\ job' = {[version |-> version, run |-> run, state |-> s,
                      predecessor |-> persisted]}
          /\ live' = s
  BY DEF Submit
<1>b. /\ s \in Curriculum
      /\ s.window = version
      /\ s.members \subseteq policies
  BY PublishableKinds DEF Submit, IInv, WindowInv
<1>1. TypeOK'
  BY <1>a, <1>b DEF IInv, TypeOK, Submit, Pair, disk
<1>2. LaneInv'
  <2>1. /\ stage' = "learner" /\ step' \in {"window", "settle"}
        /\ version' = version /\ persisted' = persisted /\ policies' = policies
        /\ version = 0 \/ persisted # {}
        /\ [version |-> version, run |-> run] \in policies
    BY DEF IInv, AheadInv, Submit, disk
  <2>2. \A p \in job' :
            /\ p.version = version /\ p.run = run
            /\ p.state = s /\ p.predecessor = persisted
    BY <1>a
  <2> QED
    BY <1>a, <1>b, <2>1, <2>2 DEF LaneInv, PolicyOf
<1>3. AheadInv'
  BY DEF IInv, LaneInv, AheadInv, Submit, Newest, disk
<1>4. WindowInv'
  BY <1>a, <1>b DEF IInv, TypeOK, LaneInv, WindowInv, Submit, disk
<1>5. DurableInv'
  BY <1>a, <1>b DEF IInv, LaneInv, DurableInv, Submit, Newest, disk
<1>6. DoomedInv'
  BY DEF IInv, DoomedInv, Submit, disk
<1>7. Recoverable'
  BY DEF IInv, Recoverable, Submit, Newest, Complete, disk
<1> QED
  BY <1>1, <1>2, <1>3, <1>4, <1>5, <1>6, <1>7 DEF IInv

LEMMA CommitWindow_Keeps ==
    ASSUME IInv, CommitWindow
    PROVE  IInv'
<1>a. /\ live' = [run |-> run, window |-> live.window + 1,
                  members |-> live.members, admitted |-> live.admitted]
      /\ live \in Curriculum /\ run \in Nat
  BY DEF IInv, TypeOK, CommitWindow, Curriculum
<1>b. live' \in Curriculum
  BY <1>a DEF Curriculum
<1>1. TypeOK'
  BY <1>b DEF IInv, TypeOK, CommitWindow, disk, lane
<1>2. LaneInv'
  BY DEF IInv, LaneInv, CommitWindow, PolicyOf, disk, lane
<1>3. AheadInv'
  BY DEF IInv, AheadInv, LaneInv, CommitWindow, Newest, disk, lane
<1>4. WindowInv'
  BY DEF IInv, WindowInv, LaneInv, CommitWindow, disk, lane
<1>5. DurableInv'
  BY DEF IInv, DurableInv, LaneInv, CommitWindow, Newest, disk, lane
<1>6. DoomedInv'
  BY DEF IInv, DoomedInv, LaneInv, CommitWindow, Newest, AtVersion, disk, lane
<1>7. Recoverable'
  BY DEF IInv, Recoverable, LaneInv, CommitWindow, Newest, Complete, disk, lane
<1> QED
  BY <1>1, <1>2, <1>3, <1>4, <1>5, <1>6, <1>7 DEF IInv

LEMMA Settle_Keeps ==
    ASSUME IInv, Settle
    PROVE  IInv'
<1>a. PICK pair \in job :
          /\ persisted = pair.predecessor
          /\ external = pair.predecessor
          /\ external' = {pair.state}
          /\ persisted' = {pair.state}
          /\ doomed' = Prunable({live, pair.state})
  BY DEF Settle
<1>b. /\ job = {pair} /\ latest = {pair}
      /\ pair \in manifests /\ pair \in Pair
      /\ pair.version = version /\ pair.state.window = version
      /\ pair.state.members = live.members
  BY <1>a DEF Settle, IInv, TypeOK, LaneInv
<1>c. Newest = {pair} /\ Newest' = Newest
  BY <1>b DEF Settle, IInv, TypeOK, AheadInv, Newest, Pair
<1>1. TypeOK'
  <2>1. doomed' \subseteq {"manifest", "learner", "policy"} \X Nat
    BY <1>a, PrunableKinds DEF IInv
  <2> QED
    BY <1>a, <1>b, <2>1 DEF IInv, TypeOK, Settle, Pair
<1>2. LaneInv'
  BY DEF LaneInv, Settle
<1>3. AheadInv'
  BY <1>c DEF IInv, AheadInv, Settle
<1>4. WindowInv'
  BY <1>a, <1>b DEF IInv, TypeOK, WindowInv, Settle
<1>5. DurableInv'
  BY <1>a, <1>c DEF IInv, DurableInv, Settle
<1>6. DoomedInv'
  <2>1. /\ step' = "prune" /\ latest' = latest /\ manifests' = manifests
        /\ live' = live /\ AtVersion(manifests', 0) = AtVersion(manifests, 0)
    BY DEF Settle
  <2>2. \A m \in Newest' : m.state.members = live.members
    BY <1>b, <1>c
  <2>3. ASSUME NEW f \in doomed'
        PROVE  /\ f[1] = "manifest" => \A m \in latest' : m.version # f[2]
               /\ f[1] # "manifest" => \/ <<"manifest", f[2]>> \in doomed'
                                       \/ AtVersion(manifests', f[2]) = {}
               /\ f[1] = "policy" => \A k \in live.members : k.version # f[2]
    BY <1>a, <2>1, PrunableKinds DEF IInv
  <2> QED
    BY <1>b, <1>c, <2>1, <2>2, <2>3 DEF DoomedInv
<1>7. Recoverable'
  BY <1>a, <1>b, <1>c DEF IInv, Recoverable, Settle, DurableInv, Complete
<1> QED
  BY <1>1, <1>2, <1>3, <1>4, <1>5, <1>6, <1>7 DEF IInv

LEMMA Places == Place("manifest") = 0 /\ Place("learner") = 1 /\ Place("policy") = 2
  BY DEF Place

LEMMA Unlink_KeepsNewest ==
    ASSUME IInv, Unlink
    PROVE  Newest \subseteq manifests'
<1>1. PICK file \in doomed :
          manifests' = IF file[1] = "manifest" THEN manifests \ AtVersion(manifests, file[2])
                       ELSE manifests
  BY DEF Unlink
<1>2. CASE step = "prune"
  BY <1>1, <1>2 DEF IInv, DoomedInv, Newest, AtVersion
<1>3. CASE step = "clean"
  BY <1>1, <1>3 DEF IInv, DoomedInv, Newest
<1> QED
  BY <1>2, <1>3 DEF Unlink

LEMMA Unlink_Keeps ==
    ASSUME IInv, Unlink
    PROVE  IInv'
<1> DEFINE remove(files, kind, file) ==
              IF file[1] = kind THEN files \ AtVersion(files, file[2]) ELSE files
<1>a. PICK file \in doomed :
          /\ \A other \in doomed : Rank(file) <= Rank(other)
          /\ manifests' = remove(manifests, "manifest", file)
          /\ learners' = remove(learners, "learner", file)
          /\ policies' = remove(policies, "policy", file)
          /\ doomed' = doomed \ {file}
  BY DEF Unlink
<1>b. /\ file[1] \in {"manifest", "learner", "policy"} /\ file[2] \in Nat
      /\ file = <<file[1], file[2]>>
  BY <1>a DEF IInv, TypeOK
<1>c. /\ step \in {"prune", "clean"} /\ step' = step /\ stage = "idle" /\ stage' = stage
      /\ job = {} /\ job' = job /\ latest' = latest /\ external' = external
      /\ live' = live /\ persisted' = persisted /\ version' = version /\ run' = run
  BY DEF Unlink, IInv, LaneInv, memory, lane
\* The sidecar and the policy of a pair go only once its manifest is gone.
<1>d. ASSUME file[1] # "manifest"
      PROVE  \A m \in manifests : m.version # file[2]
  <2>1. CASE step = "prune"
    <3>1. <<"manifest", file[2]>> \notin doomed
      <4>1. SUFFICES ASSUME <<"manifest", file[2]>> \in doomed PROVE FALSE
        OBVIOUS
      <4>2. Rank(file) <= Rank(<<"manifest", file[2]>>)
        BY <1>a, <4>1
      <4>3. Rank(<<"manifest", file[2]>>) = 3 * file[2]
        <5>1. <<"manifest", file[2]>>[1] = "manifest" /\ <<"manifest", file[2]>>[2] = file[2]
          OBVIOUS
        <5> QED
          BY <1>b, <2>1, <5>1, Places DEF Rank
      <4>4. Rank(file) = 3 * file[2] + 1 \/ Rank(file) = 3 * file[2] + 2
        BY <1>b, <1>d, <2>1, Places DEF Rank
      <4> QED
        BY <1>b, <4>2, <4>3, <4>4
    <3> QED
      BY <1>d, <2>1, <3>1 DEF IInv, DoomedInv, AtVersion
  <2>2. CASE step = "clean"
    BY <1>a, <1>b, <2>2 DEF IInv, TypeOK, DoomedInv, AheadInv, Pair
  <2> QED
    BY <1>c, <2>1, <2>2
<1>e. Newest \subseteq manifests'
  BY Unlink_KeepsNewest
<1>f. /\ manifests' \subseteq manifests
      /\ learners' \subseteq learners
      /\ policies' \subseteq policies
      /\ doomed' \subseteq doomed
  BY <1>a
<1>g. Newest' = Newest
  <2>1. Newest \subseteq Newest'
    BY <1>e, <1>f DEF Newest
  <2>2. ASSUME NEW m \in Newest'
        PROVE  m \in Newest
    <3>1. m \in manifests
      BY <1>f DEF Newest
    <3>2. PICK n \in Newest : TRUE
      BY <3>1 DEF IInv, AheadInv
    <3>3. n.version <= m.version
      BY <1>e, <3>2 DEF Newest
    <3>4. \A k \in manifests : k.version <= n.version /\ k.version \in Nat
      BY <3>2 DEF Newest, IInv, TypeOK, Pair
    <3> QED
      BY <3>1, <3>2, <3>3, <3>4 DEF Newest
  <2> QED
    BY <2>1, <2>2
\* Members' policies stay.
<1>h. ASSUME NEW k \in policies, file[1] = "policy" => k.version # file[2]
      PROVE  k \in policies'
  BY <1>a, <1>h DEF AtVersion
<1>i. file[1] = "policy" => \A k \in live.members : k.version # file[2]
  BY <1>a, <1>c DEF IInv, DoomedInv
<1>j. \A m \in Newest : m.state.members \subseteq policies'
  <2>1. CASE step = "prune"
    BY <1>a, <1>h, <2>1 DEF IInv, DoomedInv, Recoverable
  <2>2. CASE step = "clean"
    <3>1. PICK n \in manifests : n.version = version /\ n.state = live
      BY <2>2 DEF IInv, DurableInv
    <3>2. \A m \in Newest : m = n
      BY <2>2, <3>1 DEF Newest, IInv, TypeOK, AheadInv, Pair
    <3> QED
      BY <1>h, <1>i, <3>1, <3>2 DEF IInv, Recoverable
  <2> QED
    BY <1>c, <2>1, <2>2
<1>1. TypeOK'
  BY <1>c, <1>f DEF IInv, TypeOK
<1>2. LaneInv'
  BY <1>c DEF IInv, LaneInv
<1>3. AheadInv'
  BY <1>c, <1>f, <1>g DEF IInv, AheadInv
<1>4. WindowInv'
  BY <1>c, <1>f DEF IInv, WindowInv
<1>5. DurableInv'
  <2>1. CASE step = "prune"
    BY <1>c, <1>g, <1>h, <1>i, <2>1 DEF IInv, DurableInv
  <2>2. CASE step = "clean"
    BY <1>a, <1>c, <2>2 DEF IInv, DurableInv, DoomedInv
  <2> QED
    BY <1>c, <2>1, <2>2
<1>6. DoomedInv'
  <2>1. CASE step = "prune"
    <3>1. ASSUME NEW f \in doomed', f[1] # "manifest"
          PROVE  <<"manifest", f[2]>> \in doomed' \/ AtVersion(manifests', f[2]) = {}
      <4>1. CASE file = <<"manifest", f[2]>>
        BY <1>a, <4>1 DEF AtVersion
      <4>2. CASE file # <<"manifest", f[2]>>
        BY <1>a, <1>f, <2>1, <3>1, <4>2 DEF IInv, DoomedInv, AtVersion
      <4> QED
        BY <4>1, <4>2
    <3> QED
      BY <1>c, <1>f, <1>g, <2>1, <3>1 DEF IInv, DoomedInv
  <2>2. CASE step = "clean"
    BY <1>c, <1>f, <2>2 DEF IInv, DoomedInv
  <2> QED
    BY <1>c, <2>1, <2>2
<1>7. Recoverable'
  <2>1. \A m \in manifests' : m \in learners' /\ PolicyOf(m) \in policies'
    <3>1. ASSUME NEW m \in manifests'
          PROVE  m \in learners' /\ PolicyOf(m) \in policies'
      <4>1. m \in manifests /\ m \in learners /\ PolicyOf(m) \in policies
        BY <1>f DEF IInv, Recoverable, Complete
      <4>2. PolicyOf(m).version = m.version
        BY DEF PolicyOf
      <4> QED
        BY <1>a, <1>d, <1>h, <4>1, <4>2 DEF AtVersion
    <3> QED
      BY <3>1
  <2>2. latest \subseteq manifests'
    <3>1. CASE step = "prune"
      BY <1>a, <3>1 DEF IInv, Recoverable, DoomedInv, AtVersion
    <3>2. CASE step = "clean"
      BY <1>a, <3>2 DEF IInv, Recoverable, DoomedInv
    <3> QED
      BY <1>c, <3>1, <3>2
  <2> QED
    BY <1>c, <1>g, <1>j, <2>1, <2>2 DEF IInv, Recoverable, Complete
<1> QED
  BY <1>1, <1>2, <1>3, <1>4, <1>5, <1>6, <1>7 DEF IInv

LEMMA Pruned_Keeps ==
    ASSUME IInv, Pruned
    PROVE  IInv'
<1>1. TypeOK'
  BY DEF IInv, TypeOK, LaneInv, Pruned, disk, memory, lane
<1>2. LaneInv'
  BY DEF IInv, LaneInv, Pruned, PolicyOf, disk, memory, lane
<1>3. AheadInv'
  BY DEF IInv, AheadInv, LaneInv, Pruned, Newest, disk, memory, lane
<1>4. WindowInv'
  BY DEF IInv, WindowInv, LaneInv, Pruned, disk, memory, lane
<1>5. DurableInv'
  BY DEF IInv, DurableInv, LaneInv, Pruned, Newest, disk, memory, lane
<1>6. DoomedInv'
  BY DEF IInv, DoomedInv, LaneInv, Pruned, Newest, AtVersion, disk, memory, lane
<1>7. Recoverable'
  BY DEF IInv, Recoverable, LaneInv, Pruned, Newest, Complete, disk, memory,
     lane
<1> QED
  BY <1>1, <1>2, <1>3, <1>4, <1>5, <1>6, <1>7 DEF IInv

LEMMA Update_Keeps ==
    ASSUME IInv, Update
    PROVE  IInv'
<1>a. step' \in {"policy", "window"} /\ version' = version + 1 /\ stage = "idle" /\ version \in Nat
  BY DEF Update, IInv, LaneInv, TypeOK
<1>1. TypeOK'
  BY DEF IInv, TypeOK, LaneInv, Update, disk, lane
<1>2. LaneInv'
  BY DEF IInv, LaneInv, Update, PolicyOf, disk, lane
<1>3. AheadInv'
  <2>1. \A m \in manifests : m.version \in Nat /\ m.version <= version
    BY DEF IInv, TypeOK, AheadInv, Update, Pair
  <2> QED
    BY <1>a, <2>1 DEF IInv, TypeOK, AheadInv, Update, Newest, disk, lane
<1>4. WindowInv'
  <2>1. /\ \A s \in persisted : s.window \in Nat /\ s.window <= version
        /\ live.window = version + 1
        /\ job = {}
    BY DEF IInv, TypeOK, LaneInv, WindowInv, Update, Curriculum
  <2> QED
    BY <1>a, <2>1 DEF IInv, TypeOK, WindowInv, Update, disk, lane
<1>5. DurableInv'
  BY DEF IInv, DurableInv, LaneInv, Update, Newest, disk, lane
<1>6. DoomedInv'
  BY DEF IInv, DoomedInv, LaneInv, Update, Newest, AtVersion, disk, lane
<1>7. Recoverable'
  BY DEF IInv, Recoverable, LaneInv, Update, Newest, Complete, disk, lane
<1> QED
  BY <1>1, <1>2, <1>3, <1>4, <1>5, <1>6, <1>7 DEF IInv

LEMMA RefuseResume_Keeps ==
    ASSUME IInv, RefuseResume
    PROVE  IInv'
<1>1. TypeOK'
  BY DEF IInv, TypeOK, LaneInv, RefuseResume, disk, Forgotten, FreshCurriculum,
     Curriculum
<1>2. LaneInv'
  BY DEF IInv, LaneInv, RefuseResume, PolicyOf, disk, Forgotten, FreshCurriculum
<1>3. AheadInv'
  BY DEF IInv, AheadInv, LaneInv, RefuseResume, Newest, disk, Forgotten,
     DurableInv
<1>4. WindowInv'
  BY DEF IInv, WindowInv, LaneInv, RefuseResume, disk, Forgotten,
     FreshCurriculum
<1>5. DurableInv'
  BY DEF IInv, DurableInv, LaneInv, RefuseResume, Newest, disk, Forgotten
<1>6. DoomedInv'
  BY DEF IInv, DoomedInv, LaneInv, RefuseResume, Newest, AtVersion, disk,
     Forgotten
<1>7. Recoverable'
  BY DEF IInv, Recoverable, LaneInv, RefuseResume, Newest, Complete, disk,
     Forgotten
<1> QED
  BY <1>1, <1>2, <1>3, <1>4, <1>5, <1>6, <1>7 DEF IInv

LEMMA Reconcile_Keeps ==
    ASSUME IInv, Reconcile
    PROVE  IInv'
<1>a. /\ \A m \in manifests : m.version <= version
      /\ \A p \in policies : p.version > version => \A k \in live.members : k.version # p.version
  BY DEF IInv, TypeOK, Reconcile, Refused, Later, Pair
<1>b. \A f \in doomed' :
         \/ \E g \in learners : f = <<"learner", g.version>> /\ g.version > version
         \/ \E g \in policies : f = <<"policy", g.version>> /\ g.version > version
  BY DEF Reconcile, Later
<1>c. \A g \in learners \cup policies : g.version \in Nat
  BY DEF IInv, TypeOK, Policy, Pair
<1>1. TypeOK'
  <2>1. doomed' \subseteq {"manifest", "learner", "policy"} \X Nat
    BY <1>b, <1>c
  <2> QED
    BY <2>1 DEF IInv, TypeOK, Reconcile, disk, memory, lane
<1>2. LaneInv'
  BY DEF IInv, LaneInv, Reconcile, PolicyOf, disk, memory, lane
<1>3. AheadInv'
  BY DEF IInv, LaneInv, AheadInv, Reconcile, Refused, Later, TypeOK, Pair,
     Newest, disk, memory, lane
<1>4. WindowInv'
  BY DEF IInv, LaneInv, AheadInv, WindowInv, Reconcile, disk, memory, lane
<1>5. DurableInv'
  BY DEF IInv, DurableInv, LaneInv, Reconcile, Newest, disk, memory, lane
<1>6. DoomedInv'
  BY <1>a, <1>b DEF DoomedInv, Reconcile, memory
<1>7. Recoverable'
  BY DEF IInv, Recoverable, LaneInv, Reconcile, Newest, Complete, disk, memory,
     lane
<1> QED
  BY <1>1, <1>2, <1>3, <1>4, <1>5, <1>6, <1>7 DEF IInv

LEMMA Restart_Keeps ==
    ASSUME IInv, Restart
    PROVE  IInv'
<1>a. PICK m \in manifests : m.version = version /\ m.state = live /\ external = {live}
  BY DEF IInv, DurableInv, Restart
<1>b. Newest = {m} /\ Newest' = Newest
  BY <1>a DEF IInv, TypeOK, AheadInv, Restart, Newest, Pair, disk
<1>1. TypeOK'
  BY DEF IInv, TypeOK, LaneInv, Restart, disk, lane
<1>2. LaneInv'
  BY DEF IInv, LaneInv, Restart, PolicyOf, disk, lane
<1>3. AheadInv'
  BY DEF IInv, AheadInv, LaneInv, Restart, Newest, disk, lane
<1>4. WindowInv'
  BY <1>a DEF IInv, TypeOK, WindowInv, LaneInv, Restart, disk, lane
<1>5. DurableInv'
  BY <1>a, <1>b DEF IInv, LaneInv, DurableInv, Restart, disk
<1>6. DoomedInv'
  BY DEF IInv, DoomedInv, LaneInv, Restart, Newest, AtVersion, disk, lane
<1>7. Recoverable'
  BY DEF IInv, Recoverable, LaneInv, Restart, Newest, Complete, disk, lane
<1> QED
  BY <1>1, <1>2, <1>3, <1>4, <1>5, <1>6, <1>7 DEF IInv

LEMMA WriteLearner_Keeps ==
    ASSUME IInv, WriteLearner
    PROVE  IInv'
<1>1. TypeOK'
  BY DEF IInv, TypeOK, LaneInv, WriteLearner, memory
<1>2. LaneInv'
  BY DEF IInv, LaneInv, WriteLearner, PolicyOf, memory
<1>3. AheadInv'
  BY DEF IInv, AheadInv, LaneInv, WriteLearner, Newest, memory
<1>4. WindowInv'
  BY DEF IInv, WindowInv, LaneInv, WriteLearner, memory
<1>5. DurableInv'
  BY DEF IInv, DurableInv, LaneInv, WriteLearner, Newest, memory
<1>6. DoomedInv'
  BY DEF IInv, DoomedInv, LaneInv, WriteLearner, Newest, AtVersion, memory
<1>7. Recoverable'
  BY DEF IInv, Recoverable, LaneInv, WriteLearner, Newest, Complete, memory
<1> QED
  BY <1>1, <1>2, <1>3, <1>4, <1>5, <1>6, <1>7 DEF IInv

LEMMA WriteManifest_Keeps ==
    ASSUME IInv, WriteManifest
    PROVE  IInv'
<1>a. PICK pair \in job : job = {pair}
  BY DEF IInv, LaneInv, WriteManifest
<1>b. /\ manifests' = manifests \cup {pair} /\ version' = version
      /\ pair \in Pair /\ pair.version = version /\ pair.state.window = version
      /\ pair.predecessor = persisted /\ persisted = external
      /\ pair.version = 0 \/ pair.predecessor # {}
      /\ step \in {"window", "settle"}
      /\ \A s \in pair.predecessor : s.window < pair.version
      /\ \A m \in manifests : m.version < version /\ m.version \in Nat
  BY <1>a DEF IInv, TypeOK, LaneInv, AheadInv, WindowInv, DurableInv, WriteManifest, Pair, memory
<1>c. Newest' = {pair}
  BY <1>b DEF Newest, IInv, TypeOK
<1>1. TypeOK'
  BY DEF IInv, TypeOK, LaneInv, WriteManifest, memory
<1>2. LaneInv'
  BY DEF IInv, LaneInv, WriteManifest, PolicyOf, memory
<1>3. AheadInv'
  <2>1. \A m, n \in manifests' : m.version = n.version => m = n
    BY <1>b DEF IInv, TypeOK, AheadInv
  <2>2. \A m \in manifests' : m.version <= version
    BY <1>b DEF IInv, TypeOK
  <2> QED
    BY <1>b, <1>c, <2>1, <2>2 DEF AheadInv, WriteManifest
<1>4. WindowInv'
  <2>1. ASSUME NEW m \in manifests, NEW s \in pair.predecessor
        PROVE  m.version <= s.window
    <3>1. PICK n \in Newest : external = {n.state}
      BY DEF IInv, AheadInv, DurableInv, WriteManifest, LaneInv
    <3>2. n \in manifests /\ m.version <= n.version
      BY <3>1 DEF Newest
    <3> QED
      BY <1>b, <3>1, <3>2 DEF IInv, WindowInv
  <2>2. \A m \in manifests' :
            /\ m.state.window = m.version
            /\ m.version = 0 \/ m.predecessor # {}
            /\ \A s \in m.predecessor : s.window < m.version
    BY <1>b DEF IInv, WindowInv
  <2>3. \A m, n \in manifests' : m.version < n.version =>
            \A s \in n.predecessor : m.version <= s.window
    BY <1>b, <2>1 DEF IInv, WindowInv, TypeOK
  <2> QED
    BY <2>2, <2>3 DEF IInv, WindowInv, WriteManifest, memory
<1>5. DurableInv'
  BY DEF IInv, DurableInv, LaneInv, WriteManifest, Newest, memory
<1>6. DoomedInv'
  BY DEF IInv, DoomedInv, LaneInv, WriteManifest, Newest, AtVersion, memory
<1>7. Recoverable'
  BY <1>a, <1>b, <1>c DEF IInv, LaneInv, DurableInv, Recoverable, WriteManifest,
     Complete, memory
<1> QED
  BY <1>1, <1>2, <1>3, <1>4, <1>5, <1>6, <1>7 DEF IInv

LEMMA WriteLatest_Keeps ==
    ASSUME IInv, WriteLatest
    PROVE  IInv'
<1>1. TypeOK'
  BY DEF IInv, TypeOK, LaneInv, WriteLatest, memory
<1>2. LaneInv'
  BY DEF IInv, LaneInv, WriteLatest, PolicyOf, memory
<1>3. AheadInv'
  BY DEF IInv, AheadInv, LaneInv, WriteLatest, Newest, memory
<1>4. WindowInv'
  BY DEF IInv, WindowInv, LaneInv, WriteLatest, memory
<1>5. DurableInv'
  BY DEF IInv, DurableInv, LaneInv, WriteLatest, Newest, memory
<1>6. DoomedInv'
  BY DEF IInv, DoomedInv, LaneInv, WriteLatest, Newest, AtVersion, memory
<1>7. Recoverable'
  BY DEF IInv, Recoverable, LaneInv, WriteLatest, Newest, Complete, memory
<1> QED
  BY <1>1, <1>2, <1>3, <1>4, <1>5, <1>6, <1>7 DEF IInv

LEMMA Crash_Keeps ==
    ASSUME IInv, Crash
    PROVE  IInv'
<1>1. TypeOK'
  BY DEF IInv, TypeOK, LaneInv, Crash, disk, Forgotten, FreshCurriculum,
     Curriculum
<1>2. LaneInv'
  BY DEF IInv, LaneInv, Crash, PolicyOf, disk, Forgotten, FreshCurriculum
<1>3. AheadInv'
  BY DEF IInv, AheadInv, LaneInv, Crash, Newest, disk, Forgotten, DurableInv
<1>4. WindowInv'
  BY DEF IInv, WindowInv, LaneInv, Crash, disk, Forgotten, FreshCurriculum
<1>5. DurableInv'
  BY DEF IInv, DurableInv, LaneInv, Crash, Newest, disk, Forgotten
<1>6. DoomedInv'
  BY DEF IInv, DoomedInv, LaneInv, Crash, Newest, AtVersion, disk, Forgotten
<1>7. Recoverable'
  BY DEF IInv, Recoverable, LaneInv, Crash, Newest, Complete, disk, Forgotten
<1> QED
  BY <1>1, <1>2, <1>3, <1>4, <1>5, <1>6, <1>7 DEF IInv

LEMMA Resume_Keeps ==
    ASSUME IInv, NEW pair \in manifests, Resume(pair)
    PROVE  IInv'
<1>a. /\ step = "off" /\ stage = "idle" /\ job = {} /\ doomed = {} /\ persisted = {}
      /\ pair \in Pair /\ pair.state.window = pair.version
  BY DEF IInv, TypeOK, LaneInv, AheadInv, WindowInv, DoomedInv, Resume
<1>1. TypeOK'
  BY <1>a DEF IInv, TypeOK, Resume, Pair, lane
<1>2. LaneInv'
  BY <1>a DEF IInv, LaneInv, Resume, lane
<1>3. AheadInv'
  BY <1>a DEF IInv, AheadInv, Resume, Newest, lane
<1>4. WindowInv'
  BY <1>a DEF IInv, WindowInv, Resume, lane
<1>5. DurableInv'
  BY <1>a DEF IInv, DurableInv, Resume, lane
<1>6. DoomedInv'
  BY <1>a DEF IInv, DoomedInv, Resume
<1>7. Recoverable'
  <2>1. Newest' = Newest
    BY DEF Resume, Newest
  <2>2. ASSUME NEW m \in Newest
        PROVE  external' \in {{m.state}, m.predecessor}
    <3>1. CASE external = {pair.state}
      BY <3>1, <2>2 DEF IInv, Recoverable, Resume
    <3>2. CASE external = pair.predecessor /\ external # {pair.state}
      <4>1. /\ m \in manifests /\ m \in Pair
            /\ m.version \in Nat /\ pair.version \in Nat /\ pair.version <= m.version
            /\ external \in {{m.state}, m.predecessor}
        BY <2>2 DEF IInv, TypeOK, Recoverable, Newest, Pair
      <4>2. CASE m.version = pair.version
        BY <4>1, <4>2 DEF IInv, AheadInv, Resume
      <4>3. CASE pair.version < m.version
        <5>1. external # {}
          BY <4>1, <4>3 DEF IInv, WindowInv
        <5>2. PICK s \in external : TRUE
          BY <5>1
        <5>3. s \in Curriculum /\ s.window \in Nat
          BY DEF IInv, TypeOK, Curriculum
        <5>4. s.window < pair.version
          BY <3>2 DEF IInv, WindowInv
        <5>5. pair.version <= s.window
          BY <4>1, <4>3 DEF IInv, WindowInv
        <5> QED
          BY <4>1, <5>3, <5>4, <5>5
      <4> QED
        BY <4>1, <4>2, <4>3
    <3> QED
      BY <3>1, <3>2 DEF Resume
  <2> QED
    BY <2>1, <2>2 DEF IInv, Recoverable, Resume, Complete
<1> QED
  BY <1>1, <1>2, <1>3, <1>4, <1>5, <1>6, <1>7 DEF IInv

LEMMA FreshDirectory_Keeps ==
    ASSUME IInv, FreshDirectory
    PROVE  IInv'
<1>1. TypeOK'
  BY DEF IInv, TypeOK, LaneInv, FreshDirectory, lane, FreshCurriculum,
     Curriculum
<1>2. LaneInv'
  BY DEF IInv, LaneInv, FreshDirectory, PolicyOf, lane, FreshCurriculum
<1>3. AheadInv'
  BY DEF IInv, AheadInv, LaneInv, FreshDirectory, Newest, lane
<1>4. WindowInv'
  BY DEF IInv, LaneInv, AheadInv, WindowInv, FreshDirectory, FreshCurriculum, lane
<1>5. DurableInv'
  BY DEF IInv, LaneInv, AheadInv, DurableInv, FreshDirectory, FreshCurriculum, Newest, lane
<1>6. DoomedInv'
  BY DEF IInv, DoomedInv, LaneInv, FreshDirectory, Newest, AtVersion, lane
<1>7. Recoverable'
  BY DEF IInv, Recoverable, LaneInv, FreshDirectory, Newest, Complete, lane
<1> QED
  BY <1>1, <1>2, <1>3, <1>4, <1>5, <1>6, <1>7 DEF IInv

LEMMA Init_Establishes == Init => IInv
  BY DEF Init, IInv, TypeOK, LaneInv, AheadInv, WindowInv, DurableInv, DoomedInv,
     Recoverable, Newest, FreshCurriculum, Curriculum

LEMMA Stutter_Keeps ==
    ASSUME IInv, UNCHANGED vars
    PROVE  IInv'
  BY DEF IInv, TypeOK, LaneInv, AheadInv, WindowInv, DurableInv, DoomedInv, Recoverable,
     Newest, Complete, AtVersion, vars, disk, memory, lane

LEMMA Step_Keeps ==
    ASSUME IInv, [Next]_vars
    PROVE  IInv'
<1>1. CASE PublishPolicy
  BY <1>1, PublishPolicy_Keeps
<1>2. CASE Submit
  BY <1>2, Submit_Keeps
<1>3. CASE CommitWindow
  BY <1>3, CommitWindow_Keeps
<1>4. CASE Settle
  BY <1>4, Settle_Keeps
<1>5. CASE Unlink
  BY <1>5, Unlink_Keeps
<1>6. CASE Pruned
  BY <1>6, Pruned_Keeps
<1>7. CASE Update
  BY <1>7, Update_Keeps
<1>8. CASE RefuseResume
  BY <1>8, RefuseResume_Keeps
<1>9. CASE Reconcile
  BY <1>9, Reconcile_Keeps
<1>10. CASE Restart
  BY <1>10, Restart_Keeps
<1>11. CASE WriteLearner
  BY <1>11, WriteLearner_Keeps
<1>12. CASE WriteManifest
  BY <1>12, WriteManifest_Keeps
<1>13. CASE WriteLatest
  BY <1>13, WriteLatest_Keeps
<1>14. CASE Crash
  BY <1>14, Crash_Keeps
<1>15. CASE FreshDirectory
  BY <1>15, FreshDirectory_Keeps
<1>16. CASE \E pair \in manifests : Resume(pair)
  BY <1>16, Resume_Keeps
<1>17. CASE UNCHANGED vars
  BY <1>17, Stutter_Keeps
<1> QED
  BY <1>1, <1>2, <1>3, <1>4, <1>5, <1>6, <1>7, <1>8, <1>9,
     <1>10, <1>11, <1>12, <1>13, <1>14, <1>15, <1>16, <1>17 DEF Next, Learner, Lane

\* The inductive invariant: what each step may assume of the lane, the
\* schedule, the curriculum file and the cleanups.
THEOREM IsInductive == Spec => []IInv
<1>1. Init => IInv
  BY Init_Establishes
<1>2. IInv /\ [Next]_vars => IInv'
  BY Step_Keeps
<1> QED
  BY <1>1, <1>2, PTL DEF Spec

\* At every point the process can be stopped, every manifest's files are
\* there, latest.json names such a pair, and the newest pair can be resumed.
THEOREM IsRecoverable == Spec => []Recoverable
<1>1. IInv => Recoverable
  BY DEF IInv
<1> QED
  BY <1>1, IsInductive, PTL

\* No step deletes or replaces the newest pair, and no learner runs behind it.
THEOREM SettledIsKept == Spec => SettledProgressIsKept
<1>1. ASSUME IInv, IInv', [Next]_vars
      PROVE  /\ Newest \subseteq manifests'
             /\ step' \notin {"off", "reconcile"} =>
                   \A m \in manifests' : m.version <= version'
  <2>1. Newest \subseteq manifests'
    <3>1. CASE Unlink
      BY <1>1, <3>1, Unlink_KeepsNewest
    <3>2. CASE UNCHANGED vars
      BY <3>2 DEF vars, disk, Newest
    <3>3. CASE Next /\ ~Unlink
      BY <3>3 DEF Next, Learner, Lane, PublishPolicy, Submit, CommitWindow, Settle,
         Pruned, Update, RefuseResume, Reconcile, Restart, WriteLearner, WriteManifest,
         WriteLatest, Crash, FreshDirectory, Resume, Newest, vars, disk
    <3> QED
      BY <1>1, <3>1, <3>2, <3>3
  <2>2. step' \notin {"off", "reconcile"} => \A m \in manifests' : m.version <= version'
    BY <1>1 DEF IInv, AheadInv
  <2> QED
    BY <2>1, <2>2
<1> QED
  BY <1>1, IsInductive, PTL DEF Spec, SettledProgressIsKept
==============================================================================
