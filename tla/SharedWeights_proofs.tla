------------------------- MODULE SharedWeights_proofs -------------------------
(***************************************************************************)
(* Proofs about hot weight publication, for any loaders, tensors, number   *)
(* of slots (two at least), versions and layouts: what is advertised stays *)
(* readable, a loaded model is of one version, and publications are atomic *)
(* as AtomicWeights says.                                                  *)
(***************************************************************************)
EXTENDS SharedWeightsProperties, Integers, TLAPS

Publication == [version : 1..MaxVersion, segment : Segment, sequence : Nat]

\* A header is odd while its slot is written, and an even one tells the version
\* of all its tensors.
HeaderOK ==
    \A n \in Segment :
        /\ memory[n].sequence <= sequence
        /\ memory[n].sequence \in {2 * memory[n].version, 2 * memory[n].version - 1}
        /\ memory[n].sequence = 2 * memory[n].version =>
               \A t \in Tensor : memory[n].data[t] = memory[n].version

\* Where the publisher writes, and how far it has come.
TargetOK ==
    /\ version = 0 <=> layout = 0
    /\ version > 0 =>
          target \in SlotsOf(layout) /\ nextSlot = SlotAfter(target[2])
    /\ step \in Live /\ version > 0 =>
          SlotsOf(layout) \subseteq linked /\ layout \in files
    /\ step = "copy" =>
          /\ version > 0
          /\ memory[target].version = version
          /\ memory[target].sequence = sequence - 1
          /\ \A t \in Tensor \ left : memory[target].data[t] = version
    /\ step \in {"advertise", "commit"} =>
          /\ version > 0
          /\ memory[target].version = version
          /\ memory[target].sequence = sequence

\* The manifest names the last version, in the slot the publisher left, or the
\* version before it, in another slot, while the last one is written.
ManifestOK ==
    /\ manifest # None =>
          /\ manifest.sequence = 2 * manifest.version
          /\ manifest.sequence <= memory[manifest.segment].sequence
    /\ manifest.version <= advertised
    /\ step \in {"idle", "commit"} =>
          /\ manifest.version = version
          /\ version > 0 => manifest.segment = target
    /\ step \in {"copy", "advertise"} =>
          manifest.version = version - 1 /\ manifest.segment # target

\* What a loader has copied is of the version it reads for as long as the
\* header of the slot is what the manifest said.
ReaderOK ==
    \A r \in Reader :
        /\ latest[r] # None =>
              /\ latest[r].sequence = 2 * latest[r].version
              /\ latest[r].sequence <= memory[latest[r].segment].sequence
        /\ latest[r].version <= advertised
        /\ at[r] \notin {"idle", "read"} =>
              latest[r] # None /\ latest[r].version > loaded[r]
        /\ /\ at[r] = "copy"
           /\ memory[latest[r].segment].sequence = latest[r].sequence
           => \A t \in Tensor \ todo[r] : copied[r][t] = latest[r].version

WeightsInv ==
    /\ WeightsTypeOK
    /\ HeaderOK
    /\ TargetOK
    /\ ManifestOK
    /\ AdvertisedIsReadable
    /\ ReaderOK
    /\ LoadedIsWhole

-----------------------------------------------------------------------------
(* Lemmas *)

\* The next slot is another one: two slots suffice.
LEMMA NextSlotDiffers ==
    ASSUME NEW s \in Slot
    PROVE  SlotAfter(s) \in Slot /\ SlotAfter(s) # s
<1>1. CASE s + 1 < SlotCount
  BY <1>1, WeightsAssumption DEF Slot, SlotAfter
<1>2. CASE s + 1 = SlotCount
  <2>1. SlotCount % SlotCount = 0
    BY WeightsAssumption
  <2> QED BY <1>2, <2>1, WeightsAssumption DEF Slot, SlotAfter
<1> QED BY <1>1, <1>2, WeightsAssumption DEF Slot

LEMMA AdvertisedIsNat == ASSUME WeightsTypeOK PROVE advertised \in Int
<1> QED BY WeightsAssumption DEF WeightsTypeOK, advertised, None

\* A step of the publisher that changes a header only past what was advertised
\* is no matter for a loader.
LEMMA PublisherKeepsReaders ==
    ASSUME WeightsTypeOK, WeightsTypeOK', ReaderOK, LoadedIsWhole,
           UNCHANGED readerVars,
           advertised' >= advertised,
           \A n \in Segment :
               \/ memory'[n].sequence = memory[n].sequence
               \/ /\ memory'[n].sequence > memory[n].sequence
                  /\ memory'[n].sequence > 2 * advertised
    PROVE  ReaderOK' /\ LoadedIsWhole'
<1>1. LoadedIsWhole'
  BY DEF LoadedIsWhole, readerVars
<1> SUFFICES ASSUME NEW r \in Reader
    PROVE  /\ latest[r] # None =>
                 /\ latest[r].sequence = 2 * latest[r].version
                 /\ latest[r].sequence <= memory'[latest[r].segment].sequence
           /\ latest[r].version <= advertised'
           /\ at[r] \notin {"idle", "read"} =>
                 latest[r] # None /\ latest[r].version > loaded[r]
           /\ /\ at[r] = "copy"
              /\ memory'[latest[r].segment].sequence = latest[r].sequence
              => \A t \in Tensor \ todo[r] : copied[r][t] = latest[r].version
  BY <1>1 DEF ReaderOK, readerVars
<1>2. advertised \in Int /\ advertised' \in Int
  BY AdvertisedIsNat, WeightsAssumption DEF WeightsTypeOK, advertised, None
<1>3. latest[r] # None =>
          /\ latest[r].segment \in Segment
          /\ latest[r].version \in Int /\ latest[r].sequence \in Int
          /\ memory[latest[r].segment].sequence \in Int
          /\ memory'[latest[r].segment].sequence \in Int
  BY WeightsAssumption DEF WeightsTypeOK
<1>4. latest[r].version \in Int
  BY <1>3 DEF None
<1>5. latest[r] # None => latest[r].sequence <= 2 * advertised
  BY <1>2, <1>3 DEF ReaderOK
<1> QED BY <1>2, <1>3, <1>4, <1>5 DEF ReaderOK

LEMMA InitInv == Init => WeightsInv
<1> SUFFICES ASSUME Init PROVE WeightsInv
  OBVIOUS
<1>1. None.version = 0
  BY DEF None
<1>2. advertised = 0
  BY DEF Init, advertised
<1>3. WeightsTypeOK
  BY WeightsAssumption DEF Init, WeightsTypeOK, Slot, Segment, Blank, Live
<1>4. HeaderOK
  BY DEF Init, HeaderOK, Blank
<1>5. TargetOK /\ ManifestOK
  BY <1>1, <1>2 DEF Init, TargetOK, ManifestOK
<1>6. AdvertisedIsReadable
  BY DEF Init, AdvertisedIsReadable
<1>7. ReaderOK /\ LoadedIsWhole
  BY <1>1, <1>2 DEF Init, ReaderOK, LoadedIsWhole
<1> QED BY <1>3, <1>4, <1>5, <1>6, <1>7 DEF WeightsInv

\* What is known of the publisher wherever it writes.
LEMMA TargetIsSegment ==
    ASSUME WeightsInv, version > 0
    PROVE  /\ target \in Segment
           /\ layout \in 1..MaxLayout
           /\ target = <<layout, target[2]>> /\ target[2] \in Slot
           /\ version \in 1..MaxVersion
<1> USE DEF WeightsInv
<1>1. layout \in 1..MaxLayout /\ version \in 1..MaxVersion
  BY WeightsAssumption DEF WeightsTypeOK, TargetOK
<1>2. target \in {layout} \X Slot
  BY DEF TargetOK, SlotsOf
<1>3. target = <<layout, target[2]>> /\ target[2] \in Slot
  BY <1>2
<1>4. target \in Segment
  BY <1>1, <1>3 DEF Segment
<1> QED BY <1>1, <1>3, <1>4

LEMMA CopyTensorKeeps ==
    ASSUME WeightsInv, NEW u \in Tensor, CopyTensor(u)
    PROVE  WeightsInv'
<1> USE DEF WeightsInv
<1>1. version > 0 /\ step = "copy"
  BY DEF CopyTensor, TargetOK
<1>2. target \in Segment /\ version \in 1..MaxVersion
  BY <1>1, TargetIsSegment
<1>3. /\ memory' \in [Segment -> [sequence : Nat, version : 0..MaxVersion,
                                 data : [Tensor -> 0..MaxVersion]]]
      /\ \A n \in Segment : /\ memory'[n].sequence = memory[n].sequence
                            /\ memory'[n].version = memory[n].version
                            /\ n # target => memory'[n] = memory[n]
      /\ \A t \in Tensor : memory'[target].data[t] =
            IF t = u THEN version ELSE memory[target].data[t]
  <2> DEFINE Header == [sequence : Nat, version : 0..MaxVersion,
                        data : [Tensor -> 0..MaxVersion]]
             old == memory[target].data
             new == [old EXCEPT ![u] = version]
             written == [memory[target] EXCEPT !.data = new]
  <2>1. memory' = [memory EXCEPT ![target] = written]
    BY DEF CopyTensor
  <2>2. /\ old \in [Tensor -> 0..MaxVersion]
        /\ new \in [Tensor -> 0..MaxVersion]
        /\ \A t \in Tensor : new[t] = IF t = u THEN version ELSE old[t]
    BY <1>2 DEF WeightsTypeOK
  <2>3. memory[target] \in Header /\ memory \in [Segment -> Header]
    BY <1>2 DEF WeightsTypeOK
  <2> HIDE DEF old, new
  <2>4. /\ written \in Header
        /\ written.sequence = memory[target].sequence
        /\ written.version = memory[target].version
        /\ written.data = new
    BY <2>2, <2>3
  <2> HIDE DEF written, Header
  <2>5. /\ memory' \in [Segment -> Header]
        /\ memory'[target] = written
        /\ \A n \in Segment : n # target => memory'[n] = memory[n]
    BY <1>2, <2>1, <2>3, <2>4
  <2> QED BY <2>2, <2>4, <2>5 DEF Header, old
<1>4. WeightsTypeOK'
  BY <1>3 DEF CopyTensor, WeightsTypeOK, readerVars
<1>5. HeaderOK'
  <2> SUFFICES ASSUME NEW n \in Segment
      PROVE  /\ memory'[n].sequence <= sequence
             /\ memory'[n].sequence
                    \in {2 * memory'[n].version, 2 * memory'[n].version - 1}
             /\ memory'[n].sequence = 2 * memory'[n].version =>
                    \A t \in Tensor : memory'[n].data[t] = memory'[n].version
    BY DEF HeaderOK, CopyTensor
  <2>1. CASE n # target
    BY <2>1, <1>3 DEF HeaderOK
  <2>2. CASE n = target
    <3>1. memory[target].sequence = 2 * version - 1 /\ memory[target].version = version
      BY <1>1 DEF TargetOK, WeightsTypeOK
    <3> QED BY <2>2, <3>1, <1>2, <1>3, WeightsAssumption DEF HeaderOK
  <2> QED BY <2>1, <2>2
<1>6. TargetOK'
  BY <1>1, <1>2, <1>3 DEF TargetOK, CopyTensor
<1>7. ManifestOK' /\ AdvertisedIsReadable'
  <2>1. advertised' = advertised
    BY DEF CopyTensor, advertised
  <2>2. manifest # None => manifest.segment \in Segment /\ manifest.segment # target
    BY <1>1 DEF ManifestOK, WeightsTypeOK
  <2> QED BY <2>1, <2>2, <1>1, <1>3 DEF ManifestOK, AdvertisedIsReadable, CopyTensor
<1>8. ReaderOK' /\ LoadedIsWhole'
  <2>1. advertised' = advertised
    BY DEF CopyTensor, advertised
  <2>2. advertised \in Int
    BY AdvertisedIsNat
  <2>3. UNCHANGED readerVars
    BY DEF CopyTensor
  <2> QED BY <2>1, <2>2, <2>3, <1>3, <1>4, PublisherKeepsReaders
<1> QED BY <1>4, <1>5, <1>6, <1>7, <1>8

LEMMA SealKeeps ==
    ASSUME WeightsInv, Seal
    PROVE  WeightsInv'
<1> USE DEF WeightsInv
<1>1. version > 0 /\ step = "copy" /\ left = {}
  BY DEF Seal, TargetOK
<1>2. target \in Segment /\ version \in 1..MaxVersion /\ sequence = 2 * version
  BY <1>1, TargetIsSegment DEF WeightsTypeOK
<1>3. /\ memory[target].version = version
      /\ memory[target].sequence = sequence - 1
      /\ \A t \in Tensor : memory[target].data[t] = version
  BY <1>1 DEF TargetOK
<1>4. /\ memory' \in [Segment -> [sequence : Nat, version : 0..MaxVersion,
                                 data : [Tensor -> 0..MaxVersion]]]
      /\ \A n \in Segment : n # target => memory'[n] = memory[n]
      /\ memory'[target].sequence = sequence
      /\ memory'[target].version = version
      /\ memory'[target].data = memory[target].data
  <2> DEFINE n0 == target
             Header == [sequence : Nat, version : 0..MaxVersion,
                        data : [Tensor -> 0..MaxVersion]]
  <2>1. n0 \in Segment /\ version \in 0..MaxVersion /\ sequence \in Nat
    BY <1>2, WeightsAssumption
  <2>2. memory \in [Segment -> Header] /\ memory[n0] \in Header
    BY <1>2 DEF WeightsTypeOK
  <2>3. memory' = [memory EXCEPT ![n0].sequence = sequence, ![n0].version = version]
    BY DEF Seal
  <2> HIDE DEF n0
  <2>4. /\ memory' \in [Segment -> Header]
        /\ \A n \in Segment : n # n0 => memory'[n] = memory[n]
        /\ memory'[n0].sequence = sequence
        /\ memory'[n0].version = version
        /\ memory'[n0].data = memory[n0].data
    BY <2>1, <2>2, <2>3
  <2> QED BY <2>4 DEF n0
<1>5. WeightsTypeOK'
  BY <1>4 DEF Seal, WeightsTypeOK, readerVars, Live
<1>6. HeaderOK'
  <2> SUFFICES ASSUME NEW n \in Segment
      PROVE  /\ memory'[n].sequence <= sequence
             /\ memory'[n].sequence
                    \in {2 * memory'[n].version, 2 * memory'[n].version - 1}
             /\ memory'[n].sequence = 2 * memory'[n].version =>
                    \A t \in Tensor : memory'[n].data[t] = memory'[n].version
    BY DEF HeaderOK, Seal
  <2>1. CASE n # target
    BY <2>1, <1>4 DEF HeaderOK
  <2>2. CASE n = target
    BY <2>2, <1>2, <1>3, <1>4
  <2> QED BY <2>1, <2>2
<1>7. TargetOK'
  BY <1>1, <1>4 DEF TargetOK, Seal, Live
<1>8. advertised' = advertised /\ advertised = version - 1
  BY <1>1 DEF Seal, advertised
<1>9. ManifestOK' /\ AdvertisedIsReadable'
  <2>1. manifest # None => manifest.segment \in Segment /\ manifest.segment # target
    BY <1>1 DEF ManifestOK, WeightsTypeOK
  <2> QED BY <2>1, <1>1, <1>4, <1>8
          DEF ManifestOK, AdvertisedIsReadable, Seal, Live
<1>10. ReaderOK' /\ LoadedIsWhole'
  <2>1. UNCHANGED readerVars
    BY DEF Seal
  <2>2. \A n \in Segment : \/ memory'[n].sequence = memory[n].sequence
                           \/ /\ memory'[n].sequence > memory[n].sequence
                              /\ memory'[n].sequence > 2 * advertised
    <3> SUFFICES ASSUME NEW n \in Segment, n = target
        PROVE  /\ memory'[n].sequence > memory[n].sequence
               /\ memory'[n].sequence > 2 * advertised
      BY <1>4
    <3> QED BY <1>2, <1>3, <1>4, <1>8, WeightsAssumption
  <2>3. advertised' >= advertised
    BY <1>2, <1>8
  <2> QED BY <2>1, <2>2, <2>3, <1>5, PublisherKeepsReaders
<1> QED BY <1>5, <1>6, <1>7, <1>9, <1>10

\* The slot that is begun is not the one the manifest names, because slots are
\* taken in turn and a new layout has slots of its own.
LEMMA BeginKeeps ==
    ASSUME WeightsInv, NEW changed \in BOOLEAN, Begin(changed)
    PROVE  WeightsInv'
<1> DEFINE n0 == target'
<1> USE DEF WeightsInv
<1>1. /\ step = "idle" /\ version < MaxVersion
      /\ changed \/ layout > 0
      /\ changed => layout < MaxLayout
      /\ layout' = IF changed THEN layout + 1 ELSE layout
      /\ target' = <<layout', IF changed THEN 0 ELSE nextSlot>>
      /\ nextSlot' = SlotAfter(IF changed THEN 0 ELSE nextSlot)
      /\ linked' = IF changed THEN linked \cup SlotsOf(layout') ELSE linked
      /\ files' = files \cup {layout'}
      /\ sequence' = sequence + 2
      /\ version' = version + 1
      /\ left' = Tensor
      /\ step' = "copy"
      /\ UNCHANGED <<manifest, readerVars>>
  BY DEF Begin
<1>2. memory' = [memory EXCEPT ![target'].sequence = sequence + 1,
                               ![target'].version = version + 1]
  BY <1>1 DEF Begin
<1>3. /\ layout \in Nat /\ layout' \in 1..MaxLayout /\ layout' >= layout
      /\ version \in Nat /\ version' \in 1..MaxVersion
      /\ sequence = 2 * version /\ sequence' = 2 * version'
  BY <1>1, WeightsAssumption DEF WeightsTypeOK
<1>4. /\ (IF changed THEN 0 ELSE nextSlot) \in Slot
      /\ nextSlot' \in Slot
  <2>1. 0 \in Slot /\ nextSlot \in Slot
    BY WeightsAssumption DEF Slot, WeightsTypeOK
  <2> QED BY <1>1, <2>1, NextSlotDiffers
<1>5. target' \in Segment /\ target' \in SlotsOf(layout')
  BY <1>1, <1>3, <1>4 DEF Segment, SlotsOf
<1>6. /\ memory' \in [Segment -> [sequence : Nat, version : 0..MaxVersion,
                                 data : [Tensor -> 0..MaxVersion]]]
      /\ \A n \in Segment : n # target' => memory'[n] = memory[n]
      /\ memory'[target'].sequence = sequence + 1
      /\ memory'[target'].version = version + 1
  <2> HIDE DEF n0
  <2>1. n0 \in Segment
    BY <1>5 DEF n0
  <2>2. memory \in [Segment -> [sequence : Nat, version : 0..MaxVersion,
                                data : [Tensor -> 0..MaxVersion]]]
    BY DEF WeightsTypeOK
  <2>3. memory' = [memory EXCEPT ![n0].sequence = sequence + 1,
                                 ![n0].version = version + 1]
    BY <1>2 DEF n0
  <2>4. sequence + 1 \in Nat /\ version + 1 \in 0..MaxVersion
    BY <1>1, <1>3
  <2>5. /\ memory' \in [Segment -> [sequence : Nat, version : 0..MaxVersion,
                                    data : [Tensor -> 0..MaxVersion]]]
        /\ \A n \in Segment : n # n0 => memory'[n] = memory[n]
        /\ memory'[n0].sequence = sequence + 1
        /\ memory'[n0].version = version + 1
    BY <2>1, <2>2, <2>3, <2>4
  <2> QED BY <2>5 DEF n0
<1>7. manifest # None =>
          /\ manifest.segment \in Segment
          /\ manifest.segment # target'
          /\ version > 0 /\ target = manifest.segment
  <2> SUFFICES ASSUME manifest # None
      PROVE  /\ manifest.segment \in Segment
             /\ manifest.segment # target'
             /\ version > 0 /\ target = manifest.segment
    OBVIOUS
  <2>1. manifest \in Publication
    BY DEF WeightsTypeOK, Publication
  <2>2. version > 0 /\ manifest.segment = target
    BY <1>1, <2>1, WeightsAssumption DEF Publication, ManifestOK
  <2>3. target = <<layout, target[2]>> /\ target[2] \in Slot
    BY <2>2, TargetIsSegment
  <2>4. ASSUME changed PROVE target # target'
    BY <2>3, <2>4, <1>1, <1>3
  <2>5. ASSUME ~changed PROVE target # target'
    <3>1. nextSlot = SlotAfter(target[2])
      BY <2>2 DEF TargetOK
    <3>2. nextSlot # target[2]
      BY <2>3, <3>1, NextSlotDiffers
    <3> QED BY <2>3, <2>5, <3>2, <1>1
  <2> QED BY <2>1, <2>2, <2>4, <2>5 DEF Publication
<1>8. WeightsTypeOK'
  <2>1. linked' \subseteq Segment /\ files' \subseteq 1..MaxLayout
    BY <1>1, <1>3 DEF WeightsTypeOK, SlotsOf, Segment
  <2> QED BY <1>1, <1>3, <1>4, <1>5, <1>6, <2>1 DEF WeightsTypeOK, readerVars, Live
<1>9. HeaderOK'
  <2> SUFFICES ASSUME NEW n \in Segment
      PROVE  /\ memory'[n].sequence <= sequence'
             /\ memory'[n].sequence
                    \in {2 * memory'[n].version, 2 * memory'[n].version - 1}
             /\ memory'[n].sequence = 2 * memory'[n].version =>
                    \A t \in Tensor : memory'[n].data[t] = memory'[n].version
    BY DEF HeaderOK
  <2>1. CASE n # target'
    <3>1. memory[n].sequence \in Nat /\ memory[n].sequence <= sequence
      BY DEF HeaderOK, WeightsTypeOK
    <3> QED BY <2>1, <3>1, <1>1, <1>3, <1>6 DEF HeaderOK
  <2>2. CASE n = target'
    BY <2>2, <1>1, <1>3, <1>6
  <2> QED BY <2>1, <2>2
<1>10. TargetOK'
  <2>1. SlotsOf(layout') \subseteq linked' /\ layout' \in files'
    BY <1>1, <1>3 DEF TargetOK, Live
  <2>2. nextSlot' = SlotAfter(target'[2])
    BY <1>1
  <2> QED BY <2>1, <2>2, <1>1, <1>3, <1>5, <1>6 DEF TargetOK
<1>11. advertised = version /\ advertised' = version
  BY <1>1, <1>3 DEF advertised
<1>12. ManifestOK'
  <2>1. manifest.version = version
    BY <1>1 DEF ManifestOK
  <2>2. manifest.segment # target'
    <3>1. CASE manifest = None
      BY <3>1, <1>1, <1>3 DEF None
    <3> QED BY <3>1, <1>7
  <2>3. manifest # None =>
            /\ manifest.sequence = 2 * manifest.version
            /\ manifest.sequence <= memory'[manifest.segment].sequence
    BY <1>6, <1>7 DEF ManifestOK
  <2> QED BY <2>1, <2>2, <2>3, <1>1, <1>3, <1>11 DEF ManifestOK
<1>13. AdvertisedIsReadable'
  <2> SUFFICES ASSUME manifest # None
      PROVE  AdvertisedIsReadable'
    BY <1>1 DEF AdvertisedIsReadable
  <2>1. memory'[manifest.segment] = memory[manifest.segment]
    BY <1>6, <1>7
  <2> QED BY <2>1, <1>1 DEF AdvertisedIsReadable, Live
<1>14. ReaderOK' /\ LoadedIsWhole'
  <2>1. \A n \in Segment : \/ memory'[n].sequence = memory[n].sequence
                           \/ /\ memory'[n].sequence > memory[n].sequence
                              /\ memory'[n].sequence > 2 * advertised
    <3> SUFFICES ASSUME NEW n \in Segment, n = target'
        PROVE  /\ memory'[n].sequence > memory[n].sequence
               /\ memory'[n].sequence > 2 * advertised
      BY <1>6
    <3>1. memory[n].sequence \in Nat /\ memory[n].sequence <= sequence
      BY DEF HeaderOK, WeightsTypeOK
    <3> QED BY <3>1, <1>3, <1>6, <1>11
  <2>2. advertised' >= advertised
    BY <1>3, <1>11
  <2> QED BY <2>1, <2>2, <1>1, <1>8, PublisherKeepsReaders
<1> QED BY <1>8, <1>9, <1>10, <1>12, <1>13, <1>14

LEMMA AdvertiseKeeps ==
    ASSUME WeightsInv, Advertise
    PROVE  WeightsInv'
<1> USE DEF WeightsInv
<1>1. /\ version > 0 /\ step = "advertise" /\ step' = "commit"
      /\ sequence = 2 * version
      /\ memory[target].version = version /\ memory[target].sequence = sequence
      /\ UNCHANGED <<memory, readerVars>>
  BY DEF Advertise, TargetOK, WeightsTypeOK
<1>2. /\ target \in Segment /\ layout \in 1..MaxLayout /\ version \in 1..MaxVersion
      /\ target = <<layout, target[2]>>
  BY <1>1, TargetIsSegment
<1>3. /\ manifest'.version = version
      /\ manifest'.segment = target
      /\ manifest'.sequence = sequence
      /\ manifest' \in Publication
  BY <1>1, <1>2, WeightsAssumption DEF Advertise, Publication
<1>4. WeightsTypeOK'
  BY <1>1, <1>2, <1>3 DEF Advertise, WeightsTypeOK, Publication, readerVars, Live
<1>5. HeaderOK' /\ TargetOK'
  BY <1>1 DEF Advertise, HeaderOK, TargetOK, Live
<1>6. advertised = version - 1 /\ advertised' = version
  BY <1>1 DEF Advertise, advertised
<1>7. ManifestOK'
  BY <1>1, <1>2, <1>3, <1>6, WeightsAssumption DEF Advertise, ManifestOK
<1>8. AdvertisedIsReadable'
  <2>1. target \in linked /\ layout \in files
    BY <1>1 DEF TargetOK, Live
  <2>2. \A t \in Tensor : memory[target].data[t] = version
    BY <1>1, <1>2 DEF HeaderOK
  <2>3. target[1] = layout
    BY <1>2
  <2> QED BY <2>1, <2>2, <2>3, <1>1, <1>3 DEF Advertise, AdvertisedIsReadable
<1>9. ReaderOK' /\ LoadedIsWhole'
  <2>1. advertised' >= advertised
    BY <1>2, <1>6
  <2> QED BY <2>1, <1>1, <1>4, PublisherKeepsReaders
<1> QED BY <1>4, <1>5, <1>7, <1>8, <1>9

\* Ends of a publication and of the publisher: they write no slot.
LEMMA UnlinkingKeeps ==
    ASSUME WeightsInv, Commit \/ Close \/ Unlink \/ Die
    PROVE  WeightsInv'
<1> USE DEF WeightsInv
<1>1. /\ UNCHANGED <<memory, version, layout, nextSlot, sequence, target, left>>
      /\ UNCHANGED readerVars
      /\ manifest' = manifest \/ manifest' = None
  BY DEF Commit, Close, Unlink, Die
<1>2. WeightsTypeOK'
  <2>1. linked' \subseteq linked /\ files' \subseteq files
    BY DEF Commit, Close, Unlink, Die
  <2>2. step' \in Live \cup {"closing", "closed", "dead"}
    BY DEF Commit, Close, Unlink, Die, Live
  <2> QED BY <2>1, <2>2, <1>1 DEF WeightsTypeOK, readerVars
<1>3. HeaderOK'
  BY <1>1 DEF HeaderOK
<1>4. version \in Nat /\ manifest.version \in Nat /\ None.version = 0
  BY WeightsAssumption DEF WeightsTypeOK, None
<1>5. advertised' >= advertised /\ manifest'.version <= advertised'
  <2>1. CASE Commit
    BY <2>1, <1>4 DEF Commit, advertised, ManifestOK
  <2>2. CASE Close
    BY <2>2, <1>4 DEF Close, advertised, ManifestOK
  <2>3. CASE Unlink
    BY <2>3, <1>4 DEF Unlink, advertised, ManifestOK
  <2>4. CASE Die
    BY <2>4, <1>4 DEF Die, advertised, ManifestOK, WeightsTypeOK, Live
  <2> QED BY <2>1, <2>2, <2>3, <2>4
<1>6. TargetOK' /\ ManifestOK' /\ AdvertisedIsReadable'
  <2>1. CASE Commit
    <3>1. step = "commit" /\ step' = "idle" /\ version > 0 /\ manifest' = manifest
      BY <2>1 DEF Commit, TargetOK
    <3>2. SlotsOf(layout) \subseteq linked' /\ layout \in files'
      BY <2>1, <3>1 DEF Commit, TargetOK, Live
    <3>3. target \in SlotsOf(layout) /\ target[1] = layout
      BY <3>1, TargetIsSegment DEF TargetOK
    <3>4. manifest.segment = target
      BY <3>1 DEF ManifestOK
    <3>5. TargetOK'
      BY <1>1, <3>1, <3>2 DEF TargetOK
    <3>6. ManifestOK'
      BY <1>1, <1>5, <3>1 DEF ManifestOK
    <3>7. AdvertisedIsReadable'
      BY <1>1, <3>1, <3>2, <3>3, <3>4 DEF AdvertisedIsReadable, Live
    <3> QED BY <3>5, <3>6, <3>7
  <2>2. CASE ~Commit
    <3>1. step' \in {"closing", "closed", "dead"}
      BY <2>2 DEF Close, Unlink, Die
    <3>2. TargetOK'
      BY <1>1, <3>1 DEF TargetOK, Live
    <3>3. ManifestOK'
      BY <1>1, <1>5, <3>1 DEF ManifestOK
    <3>4. AdvertisedIsReadable'
      BY <3>1 DEF AdvertisedIsReadable, Live
    <3> QED BY <3>2, <3>3, <3>4
  <2> QED BY <2>1, <2>2
<1>7. ReaderOK' /\ LoadedIsWhole'
  BY <1>1, <1>2, <1>5, PublisherKeepsReaders
<1> QED BY <1>2, <1>3, <1>6, <1>7

\* The type of one loader's state.
ReaderTypeOK(r) ==
    /\ at[r] \in {"idle", "read", "layout", "attach", "check", "copy"}
    /\ latest[r] = None \/ latest[r] \in Publication
    /\ copied[r] \in [Tensor -> 0..MaxVersion]
    /\ todo[r] \in SUBSET Tensor
    /\ loaded[r] \in 0..MaxVersion
    /\ model[r] \in [Tensor -> 0..MaxVersion]
    /\ held[r] \in SUBSET (0..MaxVersion)

\* A step of a loader changes only what is its own.
LocalTo(r) ==
    /\ at' = [q \in Reader |-> IF q = r THEN at'[r] ELSE at[q]]
    /\ latest' = [q \in Reader |-> IF q = r THEN latest'[r] ELSE latest[q]]
    /\ copied' = [q \in Reader |-> IF q = r THEN copied'[r] ELSE copied[q]]
    /\ todo' = [q \in Reader |-> IF q = r THEN todo'[r] ELSE todo[q]]
    /\ loaded' = [q \in Reader |-> IF q = r THEN loaded'[r] ELSE loaded[q]]
    /\ model' = [q \in Reader |-> IF q = r THEN model'[r] ELSE model[q]]
    /\ held' = [q \in Reader |-> IF q = r THEN held'[r] ELSE held[q]]

\* What a serving process does: it polls, or serves a game's first or last request.
Serve(r) == Poll(r) \/ Bind(r) \/ \E v \in held[r] : Release(r, v)

LEMMA ServeIsLocal ==
    ASSUME WeightsTypeOK, NEW r \in Reader, Serve(r)
    PROVE  UNCHANGED publisherVars /\ LocalTo(r)
<1>1. CASE ReadManifest(r)
  BY <1>1 DEF ReadManifest, Goto, GiveUp, WeightsTypeOK, LocalTo, publisherVars
<1>2. CASE ReadLayout(r)
  BY <1>2 DEF ReadLayout, Goto, GiveUp, WeightsTypeOK, LocalTo, publisherVars
<1>3. CASE Attach(r)
  BY <1>3 DEF Attach, Goto, GiveUp, WeightsTypeOK, LocalTo, publisherVars
<1>4. CASE CheckHeader(r)
  BY <1>4 DEF CheckHeader, Goto, GiveUp, WeightsTypeOK, LocalTo, publisherVars
<1>5. CASE \E t \in Tensor : ReadTensor(r, t)
  BY <1>5 DEF ReadTensor, Goto, GiveUp, WeightsTypeOK, LocalTo, publisherVars
<1>6. CASE Finish(r)
  BY <1>6 DEF Finish, Goto, GiveUp, WeightsTypeOK, LocalTo, publisherVars
<1>7. CASE Peek(r)
  BY <1>7 DEF Peek, Goto, WeightsTypeOK, LocalTo, publisherVars
<1>8. CASE Bind(r) \/ \E v \in held[r] : Release(r, v)
  BY <1>8 DEF Bind, Release, WeightsTypeOK, LocalTo, publisherVars
<1> QED BY <1>1, <1>2, <1>3, <1>4, <1>5, <1>6, <1>7, <1>8 DEF Poll, Serve

LEMMA ServeKeepsTypes ==
    ASSUME WeightsInv, NEW r \in Reader, Serve(r)
    PROVE  ReaderTypeOK(r)'
<1> USE DEF WeightsInv
<1>a. /\ ReaderTypeOK(r)
      /\ at[r] \notin {"idle", "read"} => latest[r] \in Publication
  BY DEF WeightsTypeOK, ReaderTypeOK, ReaderOK, Publication
<1>b. latest[r].version \in 0..MaxVersion
  BY <1>a, WeightsAssumption DEF ReaderTypeOK, WeightsTypeOK, None, Publication
<1>1. CASE ReadManifest(r)
  <2>1. manifest.version > loaded[r] => manifest \in Publication
    BY <1>1 DEF WeightsTypeOK, Publication, None
  <2> QED BY <2>1, <1>a, <1>1
          DEF ReadManifest, GiveUp, Goto, WeightsTypeOK, ReaderTypeOK
<1>2. CASE ReadLayout(r) \/ Attach(r)
  BY <1>a, <1>2 DEF ReadLayout, Attach, Goto, GiveUp, WeightsTypeOK, ReaderTypeOK
<1>3. CASE CheckHeader(r)
  BY <1>a, <1>3 DEF CheckHeader, Goto, GiveUp, WeightsTypeOK, ReaderTypeOK
<1>4. CASE \E t \in Tensor : ReadTensor(r, t)
  <2> PICK t \in Tensor : ReadTensor(r, t)
    BY <1>4
  <2>1. memory[latest[r].segment].data[t] \in 0..MaxVersion
    BY <1>a DEF ReadTensor, WeightsTypeOK, Publication
  <2> QED BY <2>1, <1>a DEF ReadTensor, WeightsTypeOK, ReaderTypeOK
<1>5. CASE Finish(r)
  BY <1>a, <1>b, <1>5 DEF Finish, WeightsTypeOK, ReaderTypeOK
<1>6. CASE Peek(r)
  BY <1>a, <1>6 DEF Peek, Goto, WeightsTypeOK, ReaderTypeOK
<1>7. CASE Bind(r) \/ \E v \in held[r] : Release(r, v)
  BY <1>a, <1>7 DEF Bind, Release, WeightsTypeOK, ReaderTypeOK
<1> QED BY <1>1, <1>2, <1>3, <1>4, <1>5, <1>6, <1>7 DEF Poll, Serve

\* Where a loader has got to says what it has seen, and one loader's step is no
\* matter for another.
LEMMA ServeKeeps ==
    ASSUME WeightsInv, NEW r \in Reader, Serve(r)
    PROVE  WeightsInv'
<1> USE DEF WeightsInv
<1>1. /\ UNCHANGED publisherVars
      /\ advertised' = advertised
      /\ \A q \in Reader \ {r} :
            /\ at'[q] = at[q] /\ latest'[q] = latest[q]
            /\ copied'[q] = copied[q] /\ todo'[q] = todo[q]
            /\ loaded'[q] = loaded[q] /\ model'[q] = model[q]
            /\ held'[q] = held[q]
  <2>1. LocalTo(r) /\ UNCHANGED publisherVars
    BY ServeIsLocal DEF WeightsTypeOK
  <2> QED BY <2>1 DEF LocalTo, advertised, publisherVars
<1>2. WeightsTypeOK'
  <2>1. ReaderTypeOK(r)'
    BY ServeKeepsTypes
  <2>2. \A q \in Reader \ {r} : ReaderTypeOK(q)'
    BY <1>1 DEF WeightsTypeOK, ReaderTypeOK, Publication
  <2>3. LocalTo(r)
    BY ServeIsLocal DEF WeightsTypeOK
  <2>4. \A q \in Reader : ReaderTypeOK(q)'
    BY <2>1, <2>2
  <2>5. /\ at' \in [Reader -> {"idle", "read", "layout", "attach", "check", "copy"}]
        /\ copied' \in [Reader -> [Tensor -> 0..MaxVersion]]
        /\ todo' \in [Reader -> SUBSET Tensor]
        /\ loaded' \in [Reader -> 0..MaxVersion]
        /\ model' \in [Reader -> [Tensor -> 0..MaxVersion]]
        /\ latest' \in [Reader -> {None} \cup Publication]
        /\ held' \in [Reader -> SUBSET (0..MaxVersion)]
    BY <2>1, <2>3, <2>4 DEF LocalTo, WeightsTypeOK, ReaderTypeOK
  <2> QED BY <1>1, <2>5 DEF WeightsTypeOK, publisherVars, Publication
<1>3. HeaderOK' /\ TargetOK' /\ ManifestOK' /\ AdvertisedIsReadable'
  BY <1>1 DEF HeaderOK, TargetOK, ManifestOK, AdvertisedIsReadable, publisherVars
<1>4. /\ latest'[r] # None =>
            /\ latest'[r].sequence = 2 * latest'[r].version
            /\ latest'[r].sequence <= memory[latest'[r].segment].sequence
      /\ latest'[r].version <= advertised
      /\ at'[r] \notin {"idle", "read"} =>
            latest'[r] # None /\ latest'[r].version > loaded'[r]
  <2>1. CASE ReadManifest(r) /\ manifest.version > loaded[r]
    <3>1. latest'[r] = manifest /\ loaded'[r] = loaded[r] /\ manifest.version > loaded[r]
      BY <2>1 DEF ReadManifest, Goto, WeightsTypeOK
    <3>2. manifest # None
      BY <3>1 DEF WeightsTypeOK, None
    <3> QED BY <3>1, <3>2 DEF ManifestOK
  <2>2. CASE ~(ReadManifest(r) /\ manifest.version > loaded[r])
    <3>1. latest'[r] = latest[r]
      BY <2>2 DEF Serve, Bind, Release, Poll, Peek, ReadManifest, ReadLayout, Attach,
             CheckHeader, ReadTensor, Finish, GiveUp, Goto
    <3>2. at'[r] \notin {"idle", "read"} =>
              at[r] \notin {"idle", "read"} /\ loaded'[r] = loaded[r]
      BY <2>2 DEF Serve, Bind, Release, Poll, Peek, ReadManifest, ReadLayout, Attach,
             CheckHeader, ReadTensor, Finish, GiveUp, Goto, WeightsTypeOK
    <3> QED BY <3>1, <3>2 DEF ReaderOK
  <2> QED BY <2>1, <2>2
<1>5. at'[r] = "copy" /\ memory[latest'[r].segment].sequence = latest'[r].sequence
      => \A t \in Tensor \ todo'[r] : copied'[r][t] = latest'[r].version
  <2>1. CASE \E t \in Tensor : ReadTensor(r, t)
    <3> PICK u \in Tensor : ReadTensor(r, u)
      BY <2>1
    <3>1. /\ at[r] = "copy" /\ latest'[r] = latest[r]
          /\ todo'[r] = todo[r] \ {u}
          /\ \A t \in Tensor : copied'[r][t] =
                IF t = u THEN memory[latest[r].segment].data[u] ELSE copied[r][t]
      BY DEF ReadTensor, WeightsTypeOK
    <3> SUFFICES ASSUME memory[latest[r].segment].sequence = latest[r].sequence
        PROVE  \A t \in Tensor \ todo'[r] : copied'[r][t] = latest[r].version
      BY <3>1
    <3>2. /\ latest[r] # None /\ latest[r].segment \in Segment
          /\ latest[r].version \in Nat /\ latest[r].sequence = 2 * latest[r].version
      <4>1. latest[r] # None /\ latest[r].sequence = 2 * latest[r].version
        BY <3>1 DEF ReaderOK
      <4>2. latest[r] \in Publication
        BY <4>1 DEF WeightsTypeOK, Publication
      <4> QED BY <4>1, <4>2, WeightsAssumption DEF Publication
    <3>3. memory[latest[r].segment].version \in Nat
      BY <3>2, WeightsAssumption DEF WeightsTypeOK
    <3>4. memory[latest[r].segment].version = latest[r].version
      BY <3>2, <3>3 DEF HeaderOK
    <3>5. memory[latest[r].segment].data[u] = latest[r].version
      BY <3>2, <3>4 DEF HeaderOK
    <3> QED BY <3>1, <3>5 DEF ReaderOK
  <2>2. CASE CheckHeader(r)
    BY <2>2 DEF CheckHeader, GiveUp, Goto, WeightsTypeOK
  <2>3. CASE ReadManifest(r) \/ ReadLayout(r) \/ Attach(r) \/ Finish(r)
    BY <2>3 DEF ReadManifest, ReadLayout, Attach, Finish, GiveUp, Goto, WeightsTypeOK
  <2>4. CASE Peek(r) \/ Bind(r) \/ \E v \in held[r] : Release(r, v)
    BY <2>4 DEF Peek, Bind, Release, Goto, WeightsTypeOK
  <2> QED BY <2>1, <2>2, <2>3, <2>4 DEF Poll, Serve
<1>6. ReaderOK'
  <2> SUFFICES ASSUME NEW q \in Reader
      PROVE  /\ latest'[q] # None =>
                   /\ latest'[q].sequence = 2 * latest'[q].version
                   /\ latest'[q].sequence <= memory'[latest'[q].segment].sequence
             /\ latest'[q].version <= advertised'
             /\ at'[q] \notin {"idle", "read"} =>
                   latest'[q] # None /\ latest'[q].version > loaded'[q]
             /\ /\ at'[q] = "copy"
                /\ memory'[latest'[q].segment].sequence = latest'[q].sequence
                => \A t \in Tensor \ todo'[q] : copied'[q][t] = latest'[q].version
    BY DEF ReaderOK
  <2>1. memory' = memory
    BY <1>1 DEF publisherVars
  <2>2. CASE q = r
    BY <2>1, <2>2, <1>1, <1>4, <1>5
  <2>3. CASE q # r
    BY <2>1, <2>3, <1>1 DEF ReaderOK
  <2> QED BY <2>2, <2>3
<1>7. LoadedIsWhole'
  <2>1. \A t \in Tensor : model'[r][t] = loaded'[r]
    <3>1. CASE Finish(r) /\ HeaderMatches(r)
      BY <3>1 DEF Finish, HeaderMatches, ReaderOK, WeightsTypeOK
    <3>2. CASE ~(Finish(r) /\ HeaderMatches(r))
      BY <3>2 DEF Serve, Bind, Release, Poll, Peek, ReadManifest, ReadLayout, Attach,
             CheckHeader, ReadTensor, Finish, GiveUp, Goto, LoadedIsWhole
    <3> QED BY <3>1, <3>2
  <2> QED BY <2>1, <1>1 DEF LoadedIsWhole
<1> QED BY <1>2, <1>3, <1>6, <1>7

LEMMA NextKeeps == WeightsInv /\ [Next]_vars => WeightsInv'
<1> SUFFICES ASSUME WeightsInv, [Next]_vars
             PROVE  WeightsInv'
  OBVIOUS
<1>1. CASE \E changed \in BOOLEAN : Begin(changed)
  BY <1>1, BeginKeeps
<1>2. CASE \E t \in Tensor : CopyTensor(t)
  BY <1>2, CopyTensorKeeps
<1>3. CASE Seal
  BY <1>3, SealKeeps
<1>4. CASE Advertise
  BY <1>4, AdvertiseKeeps
<1>5. CASE Commit \/ Close \/ Unlink \/ Die
  BY <1>5, UnlinkingKeeps
<1>6. CASE \E r \in Reader : Serve(r)
  BY <1>6, ServeKeeps
<1>7. CASE UNCHANGED vars
  BY <1>7 DEF vars, publisherVars, readerVars, WeightsInv, WeightsTypeOK, HeaderOK,
          TargetOK, ManifestOK, AdvertisedIsReadable, ReaderOK, LoadedIsWhole,
          advertised
<1> QED BY <1>1, <1>2, <1>3, <1>4, <1>5, <1>6, <1>7 DEF Next, Publisher, Serve

LEMMA InvHolds == Spec => []WeightsInv
<1> QED BY InitInv, NextKeeps, PTL DEF Spec

-----------------------------------------------------------------------------
(* Theorems *)

\* Every variable keeps its type.
THEOREM WeightsTypeCorrect == Spec => []WeightsTypeOK
<1>1. WeightsInv => WeightsTypeOK
  BY DEF WeightsInv
<1> QED BY <1>1, InvHolds, PTL

\* The publisher never writes into the advertised slot and unlinks nothing the
\* manifest needs, with any number of slots from two and any changes of layout.
THEOREM AdvertisedStaysReadable == Spec => []AdvertisedIsReadable
<1>1. WeightsInv => AdvertisedIsReadable
  BY DEF WeightsInv
<1> QED BY <1>1, InvHolds, PTL

\* No loader hands the model tensors of two versions, however long it takes and
\* however often its slot is written meanwhile.
THEOREM LoadsAreWhole == Spec => []LoadedIsWhole
<1>1. WeightsInv => LoadedIsWhole
  BY DEF WeightsInv
<1> QED BY <1>1, InvHolds, PTL

\* A step is an atomic publication, an atomic load or nothing.
LEMMA StepIsAtomic ==
    ASSUME WeightsInv, WeightsInv', [Next]_vars
    PROVE  [Atomic!Next]_<<advertised, loaded, model>>
<1> USE DEF WeightsInv
<1>1. version \in Nat /\ advertised \in Int
  BY AdvertisedIsNat, WeightsAssumption DEF WeightsTypeOK
<1>2. CASE Advertise
  <2>1. advertised = version - 1 /\ advertised' = version
    BY <1>2 DEF Advertise, advertised
  <2>2. Atomic!Advertise
    BY <1>1, <1>2, <2>1 DEF Advertise, Atomic!Advertise, readerVars
  <2> QED BY <2>2 DEF Atomic!Next
<1>3. CASE \E r \in Reader : Serve(r)
  <2> PICK r \in Reader : Serve(r)
    BY <1>3
  <2>1. advertised' = advertised
    BY ServeIsLocal DEF publisherVars, advertised
  <2>2. CASE Finish(r) /\ HeaderMatches(r)
    <3> DEFINE v == latest[r].version
    <3>1. /\ at[r] = "copy" /\ todo[r] = {}
          /\ loaded' = [loaded EXCEPT ![r] = v]
          /\ model' = [model EXCEPT ![r] = copied[r]]
      BY <2>2 DEF Finish
    <3>2. v > loaded[r] /\ v <= advertised /\ latest[r] # None
      BY <3>1 DEF ReaderOK
    <3>3. v \in 1..advertised
      BY <3>2, <1>1, WeightsAssumption DEF WeightsTypeOK
    <3>4. \A t \in Tensor : copied[r][t] = v
      BY <2>2, <3>1 DEF HeaderMatches, ReaderOK
    <3>5. copied[r] = [t \in Tensor |-> v]
      BY <3>4 DEF WeightsTypeOK
    <3>6. Atomic!Load(r)
      BY <2>1, <3>1, <3>2, <3>3, <3>5 DEF Atomic!Load
    <3> QED BY <3>6 DEF Atomic!Next
  <2>3. CASE ~(Finish(r) /\ HeaderMatches(r))
    BY <2>1, <2>3 DEF Serve, Bind, Release, Poll, Peek, ReadManifest, ReadLayout,
           Attach, CheckHeader, ReadTensor, Finish, GiveUp, Goto
  <2> QED BY <2>2, <2>3
<1>4. CASE \/ \E changed \in BOOLEAN : Begin(changed)
           \/ \E t \in Tensor : CopyTensor(t)
           \/ Seal \/ Commit \/ Close \/ Unlink \/ Die
  <2>1. UNCHANGED <<loaded, model>>
    BY <1>4 DEF Begin, CopyTensor, Seal, Commit, Close, Unlink, Die, readerVars
  <2>2. advertised' = advertised
    BY <1>1, <1>4 DEF Begin, CopyTensor, Seal, Commit, Close, Unlink, Die, advertised,
           ManifestOK, WeightsTypeOK, Live
  <2> QED BY <2>1, <2>2
<1>5. CASE UNCHANGED vars
  BY <1>5 DEF vars, publisherVars, readerVars, advertised
<1> QED BY <1>2, <1>3, <1>4, <1>5 DEF Next, Publisher, Serve

\* Hot publication implements AtomicWeights: seen from outside, the learner
\* advertises one newer version after another and each loader goes from one whole
\* version straight to a newer one.
THEOREM PublicationIsAtomic == Spec => IsAtomic
<1>1. Init => Atomic!Init
  BY DEF Init, Atomic!Init, advertised
<1>2. WeightsInv /\ WeightsInv' /\ [Next]_vars
      => [Atomic!Next]_<<advertised, loaded, model>>
  BY StepIsAtomic
<1> QED BY <1>1, <1>2, InvHolds, PTL DEF Spec, IsAtomic, Atomic!Spec

=============================================================================
