---------------------------- MODULE SharedWeights ----------------------------
(***************************************************************************)
(* Hot weight publication through reusable shared-memory slots             *)
(* (rl/shared_weights.py, rl/shared_tensor_transport.py).  The publisher   *)
(* copies a model into the slot that is not advertised, tensor by tensor   *)
(* between two writes of the slot's header, replaces the manifest, and     *)
(* only then unlinks the slots of an earlier tensor layout.  Loaders in    *)
(* other processes read the manifest, the layout file, the header, the     *)
(* tensors and the header again, with no lock between them.                *)
(*                                                                         *)
(* A loader belongs to a serving process that keeps every snapshot some    *)
(* game still plays with (rl/inference_snapshot_router.py), and that lets  *)
(* a version pass when it is too close to the one it serves or when games  *)
(* hold too many snapshots.                                                *)
(***************************************************************************)
EXTENDS Naturals, FiniteSets

CONSTANTS
    Reader,      \* loaders polling the publication
    Tensor,      \* the parts of a model that are copied in one go
    SlotCount,   \* tensor_slot_count
    VersionGap,  \* candidate_snapshot_min_version_gap
    MaxResident, \* max_resident_snapshots of the serving process
    MaxVersion,  \* bound: versions published
    MaxLayout    \* bound: tensor layouts (signatures) of the model

ASSUME WeightsAssumption ==
    /\ SlotCount \in Nat /\ SlotCount >= 2
    /\ VersionGap \in Nat \ {0} /\ MaxResident \in Nat
    /\ MaxVersion \in Nat /\ MaxLayout \in Nat

VARIABLES
    step,        \* where the publisher is in publish() or close()
    version,     \* version of the last publish()
    layout,      \* _layout_path: number of the layout in use, 0 before any
    nextSlot,    \* _next_slot
    sequence,    \* _sequence
    target,      \* segment that is being written
    left,        \* tensors not copied yet
    memory,      \* memory[n]: header and tensors of segment n
    linked,      \* segment names that can be attached
    files,       \* layout files that exist
    manifest,    \* shared_latest.json
    at,          \* at[r]: where loader r is in poll()
    latest,      \* latest[r]: the manifest it read
    copied,      \* copied[r][t]: version of the bytes it copied for t
    todo,        \* todo[r]: tensors it has not copied yet
    loaded,      \* loaded[r]: version served and _loaded_version, 0 before any
    model,       \* model[r]: what it handed to the model
    held         \* held[r]: versions whose snapshots games of r hold leases on

publisherVars == <<step, version, layout, nextSlot, sequence, target, left,
                   memory, linked, files, manifest>>
readerVars == <<at, latest, copied, todo, loaded, model, held>>
vars == <<publisherVars, readerVars>>

Slot == 0..(SlotCount - 1)
Segment == (1..MaxLayout) \X Slot
Blank == [sequence |-> 0, version |-> 0, data |-> [t \in Tensor |-> 0]]
None == [version |-> 0, segment |-> <<0, 0>>, sequence |-> 0]

SlotsOf(l) == {l} \X Slot

\* Mutant: always the same slot.
SlotAfter_Same(slot) == slot
SlotAfter(slot) == (slot + 1) % SlotCount

-----------------------------------------------------------------------------
(* The publisher *)

\* The first half of write(): new slots when the layout changed, the next slot
\* in turn, and an odd sequence in its header.
Begin(changed) ==
    /\ step = "idle"
    /\ version < MaxVersion
    /\ changed \/ layout > 0
    /\ changed => layout < MaxLayout
    /\ LET l == IF changed THEN layout + 1 ELSE layout
           slot == IF changed THEN 0 ELSE nextSlot
       IN /\ layout' = l
          /\ target' = <<l, slot>>
          /\ nextSlot' = SlotAfter(slot)
          /\ linked' = IF changed THEN linked \cup SlotsOf(l) ELSE linked
          /\ files' = files \cup {l}
          /\ memory' = [memory EXCEPT ![<<l, slot>>].sequence = sequence + 1,
                                      ![<<l, slot>>].version = version + 1]
    /\ sequence' = sequence + 2
    /\ version' = version + 1
    /\ left' = Tensor
    /\ step' = "copy"
    /\ UNCHANGED <<manifest, readerVars>>

CopyTensor(t) ==
    /\ step = "copy"
    /\ t \in left
    /\ memory' = [memory EXCEPT ![target].data[t] = version]
    /\ left' = left \ {t}
    /\ UNCHANGED <<step, version, layout, nextSlot, sequence, target, linked,
                   files, manifest, readerVars>>

Seal ==
    /\ step = "copy"
    /\ left = {}
    /\ memory' = [memory EXCEPT ![target].sequence = sequence,
                                ![target].version = version]
    /\ step' = "advertise"
    /\ UNCHANGED <<version, layout, nextSlot, sequence, target, left, linked,
                   files, manifest, readerVars>>

Advertise ==
    /\ step = "advertise"
    /\ manifest' = [version |-> version, segment |-> target,
                    sequence |-> sequence]
    /\ step' = "commit"
    /\ UNCHANGED <<version, layout, nextSlot, sequence, target, left, memory,
                   linked, files, readerVars>>

\* commit(): the slots and the file of every retired layout.
Commit ==
    /\ step = "commit"
    /\ linked' = linked \cap SlotsOf(layout)
    /\ files' = files \cap {layout}
    /\ step' = "idle"
    /\ UNCHANGED <<version, layout, nextSlot, sequence, target, left, memory,
                   manifest, readerVars>>

\* close() takes the manifest away before the slots it names.
Close ==
    /\ step = "idle"
    /\ manifest' = IF manifest.segment \in linked THEN None ELSE manifest
    /\ step' = "closing"
    /\ UNCHANGED <<version, layout, nextSlot, sequence, target, left, memory,
                   linked, files, readerVars>>

Unlink ==
    /\ step = "closing"
    /\ linked' = {}
    /\ files' = {}
    /\ step' = "closed"
    /\ UNCHANGED <<version, layout, nextSlot, sequence, target, left, memory,
                   manifest, readerVars>>

\* The learner dies anywhere in publish(); what it owned is reaped with it, and
\* the manifest stays.
Die ==
    /\ step \notin {"closing", "closed", "dead"}
    /\ step' = "dead"
    /\ linked' \in {linked, {}}
    /\ UNCHANGED <<version, layout, nextSlot, sequence, target, left, memory,
                   files, manifest, readerVars>>

Publisher ==
    \/ \E changed \in BOOLEAN : Begin(changed)
    \/ \E t \in Tensor : CopyTensor(t)
    \/ Seal \/ Advertise \/ Commit

-----------------------------------------------------------------------------
(* A serving process and its loader *)

\* A game takes its lease on the snapshot served now, and gives it back when it
\* ends.  Requests are served between polls, by the thread that polls.
Bind(r) ==
    /\ at[r] = "idle"
    /\ held' = [held EXCEPT ![r] = @ \cup {loaded[r]}]
    /\ UNCHANGED <<publisherVars, at, latest, copied, todo, loaded, model>>

Release(r, v) ==
    /\ at[r] = "idle"
    /\ v \in held[r]
    /\ held' = [held EXCEPT ![r] = @ \ {v}]
    /\ UNCHANGED <<publisherVars, at, latest, copied, todo, loaded, model>>

Goto(r, place) ==
    /\ at' = [at EXCEPT ![r] = place]
    /\ UNCHANGED <<publisherVars, loaded, model, held>>

\* Mutant: a slot is kept free for the version that is served.
CanPublish_Short(r) == Cardinality(held[r]) + 1 < MaxResident

\* can_publish(): the new snapshot fits beside those that are leased.
CanPublish(r) == Cardinality(held[r]) + 1 <= MaxResident

\* _snapshot_version_is_ready(): it is far enough ahead, and it fits.
IsReady(r) == manifest.version >= loaded[r] + VersionGap /\ CanPublish(r)

\* latest_version(): a newer version that is not ready is left for a later poll.
Peek(r) ==
    /\ at[r] = "idle"
    /\ manifest.version > loaded[r]
    /\ IsReady(r)
    /\ Goto(r, "read")
    /\ UNCHANGED <<latest, copied, todo>>

\* FileNotFoundError, or no manifest any more: the caller polls again.
GiveUp(r) == Goto(r, "idle") /\ UNCHANGED <<latest, copied, todo>>

\* poll_state_dict() reads the manifest anew.
ReadManifest(r) ==
    /\ at[r] = "read"
    /\ IF manifest.version > loaded[r]
       THEN /\ latest' = [latest EXCEPT ![r] = manifest]
            /\ Goto(r, "layout")
            /\ UNCHANGED <<copied, todo>>
       ELSE GiveUp(r)

ReadLayout(r) ==
    /\ at[r] = "layout"
    /\ IF latest[r].segment[1] \in files
       THEN Goto(r, "attach") /\ UNCHANGED <<latest, copied, todo>>
       ELSE GiveUp(r)

\* An attached segment stays mapped when its name is unlinked.
Attach(r) ==
    /\ at[r] = "attach"
    /\ IF latest[r].segment \in linked
       THEN Goto(r, "check") /\ UNCHANGED <<latest, copied, todo>>
       ELSE GiveUp(r)

HeaderMatches(r) ==
    /\ memory[latest[r].segment].sequence = latest[r].sequence
    /\ memory[latest[r].segment].version = latest[r].version

CheckHeader(r) ==
    /\ at[r] = "check"
    /\ IF HeaderMatches(r)
       THEN /\ todo' = [todo EXCEPT ![r] = Tensor]
            /\ Goto(r, "copy")
            /\ UNCHANGED <<latest, copied>>
       ELSE GiveUp(r)

ReadTensor(r, t) ==
    /\ at[r] = "copy"
    /\ t \in todo[r]
    /\ copied' = [copied EXCEPT
                     ![r] = [@ EXCEPT ![t] = memory[latest[r].segment].data[t]]]
    /\ todo' = [todo EXCEPT ![r] = @ \ {t}]
    /\ UNCHANGED <<publisherVars, at, latest, loaded, model, held>>

\* Mutant: the header is not read again.
Finish_Unchecked(r) ==
    /\ at[r] = "copy"
    /\ todo[r] = {}
    /\ at' = [at EXCEPT ![r] = "idle"]
    /\ loaded' = [loaded EXCEPT ![r] = latest[r].version]
    /\ model' = [model EXCEPT ![r] = copied[r]]
    /\ UNCHANGED <<publisherVars, latest, copied, todo, held>>

\* The header again; then the model takes the state and the cursor advances.
Finish(r) ==
    /\ at[r] = "copy"
    /\ todo[r] = {}
    /\ at' = [at EXCEPT ![r] = "idle"]
    /\ IF HeaderMatches(r)
       THEN /\ loaded' = [loaded EXCEPT ![r] = latest[r].version]
            /\ model' = [model EXCEPT ![r] = copied[r]]
       ELSE UNCHANGED <<loaded, model>>
    /\ UNCHANGED <<publisherVars, latest, copied, todo, held>>

Poll(r) ==
    \/ Peek(r) \/ ReadManifest(r) \/ ReadLayout(r) \/ Attach(r) \/ CheckHeader(r)
    \/ \E t \in Tensor : ReadTensor(r, t)
    \/ Finish(r)

-----------------------------------------------------------------------------
Init ==
    /\ step = "idle" /\ version = 0 /\ layout = 0 /\ nextSlot = 0
    /\ sequence = 0 /\ target = <<0, 0>> /\ left = {}
    /\ memory = [n \in Segment |-> Blank]
    /\ linked = {} /\ files = {} /\ manifest = None
    /\ at = [r \in Reader |-> "idle"]
    /\ latest = [r \in Reader |-> None]
    /\ copied = [r \in Reader |-> [t \in Tensor |-> 0]]
    /\ todo = [r \in Reader |-> {}]
    /\ loaded = [r \in Reader |-> 0]
    /\ model = [r \in Reader |-> [t \in Tensor |-> 0]]
    /\ held = [r \in Reader |-> {}]

Next ==
    \/ Publisher \/ Close \/ Unlink \/ Die
    \/ \E r \in Reader : Poll(r) \/ Bind(r) \/ \E v \in held[r] : Release(r, v)

Spec == Init /\ [][Next]_vars

\* A publication that has begun goes on, every serving process keeps polling, and
\* games that play with a snapshot no longer served come to their end.
FairSpec ==
    /\ Spec
    /\ WF_vars(Seal) /\ WF_vars(Advertise) /\ WF_vars(Commit)
    /\ \A t \in Tensor : WF_vars(CopyTensor(t))
    /\ \A r \in Reader : WF_vars(Poll(r))
    /\ \A r \in Reader : \A v \in 0..MaxVersion :
          WF_vars(v # loaded[r] /\ Release(r, v))
=============================================================================
