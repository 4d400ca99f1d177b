---------------------------- MODULE StoreProofs ----------------------------
(***************************************************************************)
(* Proofs about what is written to a bucket or to disk (MCStores).         *)
(*                                                                         *)
(* AssetStore, for any writers, assets, manifests and tenants and any      *)
(* number of requests that fail: a content key holds the bytes it is named *)
(* for, temporary objects are cleared away, and an asset stays tied to the *)
(* manifest that a writer was told it is tied to.                          *)
(*                                                                         *)
(* S3Backend, which serves these requests, for any threads and regions:    *)
(* the preflight lets nothing through to the wrong region and keeps only   *)
(* true refusals, durable URLs stay recognised, and a walk accounts for    *)
(* the keys that stay.                                                     *)
(*                                                                         *)
(* ParquetSink, for any partitions, any number of versions and of          *)
(* interrupted writes: a sentinel vouches for rows that are there, and a   *)
(* run that was sunk is found once, in its own partition.                  *)
(*                                                                         *)
(* MediaEmbed, for any media files, paths and manifests and any number of  *)
(* calls and faults: a file keeps its media, in order, and the manifest is *)
(* where embed() told it is.                                               *)
(***************************************************************************)
EXTENDS MCStores, SequenceTheorems, FiniteSetTheorems, WellFoundedInduction, TLAPS

(* "Nothing there" is no asset, manifest or tenant. *)
Sorts ==
  /\ Assets # {}
  /\ {} \notin Assets \cup Manifests \cup Tenants
  /\ Bytes \in [Assets -> Assets]
  /\ TenantOf \in [Manifests -> Tenants]
  /\ MaxFaults \in Nat

(* The writers that have a temporary object to delete, or may have. *)
Tidying == {"seek_final", "copy", "drop_temp", "clean"}

(* Those that deal with the index, *)
Tying == {"seek_index", "read_index", "put_index", "seek_legacy", "read_legacy", "put_legacy",
          "undo_index"}

(* and those that wrote the entry of their tenant. *)
Wrote == {"seek_legacy", "read_legacy", "put_legacy", "undo_index"}

(* A writer knows the digest of its asset, and the index is for a manifest. *)
Knows ==
  \A w \in Writers :
    /\ at[w] \in {"seek_final", "copy", "drop_temp", "put_final"} => read[w] = Bytes[asset[w]]
    /\ at[w] \in {"copy", "drop_temp", "clean"} => pipelined
    /\ at[w] \in Tying => manifest[w] \in Manifests

(* A temporary object holds the bytes of its asset; one is there only when *)
(* a writer will delete it, or could not.                                  *)
TempIsOwn ==
  \A a \in Assets :
    /\ temp[a] \in {{}, Bytes[a]}
    /\ temp[a] # {} => pipelined
    /\ temp[a] # {} => excused \/ \E w \in Writers : asset[w] = a /\ at[w] \in Tidying

(* A writer that met no other has its asset for itself: *)
Alone ==
  \A w \in Writers : A!Busy(w) /\ w \notin met =>
    \A v \in Writers : A!Busy(v) /\ asset[v] = asset[w] => v = w

(* its temporary object stays, and so does its index entry. *)
Undisturbed ==
  \A w \in Writers : w \notin met =>
    /\ pipelined /\ at[w] \in {"seek_final", "copy", "drop_temp"} =>
         temp[asset[w]] = Bytes[asset[w]]
    /\ at[w] \in Wrote => ties[A!Own(w)] = A!Entry(manifest[w])

(* A copy fails for a reason. *)
CleanForCause ==
  \A w \in Writers : A!At(w, "clean") => lost > 0 \/ w \in met

(* What a writer was told is in the index, and no writer that found the    *)
(* tenant's entry missing is about to write one.                           *)
SureIsIndexed ==
  \A a \in Assets, m \in Manifests : <<a, m>> \in sure =>
    /\ ties[<<TenantOf[m], a>>] = A!Entry(m)
    /\ \A w \in Writers :
         asset[w] = a /\ at[w] \in Wrote \cup {"put_index"} => TenantOf[manifest[w]] # TenantOf[m]

TiesInv ==
  /\ A!TypeOK
  /\ Knows
  /\ TempIsOwn
  /\ A!CasIsContent
  /\ Alone
  /\ Undisturbed
  /\ CleanForCause
  /\ SureIsIndexed

-----------------------------------------------------------------------------
(* A step of a writer. *)
Step(w) ==
  \/ A!PutAsset(w) \/ A!Download(w) \/ A!SeekFinal(w) \/ A!PutFinal(w)
  \/ A!CopyTemp(w) \/ A!DropTemp(w) \/ A!Clean(w)
  \/ A!SeekIndex(w) \/ A!ReadIndex(w) \/ A!PutIndex(w) \/ A!SeekLegacy(w) \/ A!ReadLegacy(w)
  \/ A!UndoIndex(w) \/ A!PutLegacy(w)
  \/ A!RequestFails(w) \/ A!Dies(w)

(* Of all the writers a step concerns one: it goes on, ends or begins. *)
Begins(w) ==
  /\ at[w] = "idle" /\ at'[w] = "download"
  /\ asset'[w] \in Assets
  /\ manifest'[w] \in Manifests \cup {{}}
  /\ \A v \in Writers : A!Busy(v) /\ asset[v] = asset'[w] => {v, w} \subseteq met'
  /\ read'[w] = read[w] /\ met \subseteq met'

GoesOn(w) ==
  /\ at[w] # "idle" /\ at'[w] \in A!Stages
  /\ asset'[w] = asset[w] /\ manifest'[w] = manifest[w] /\ met' = met

IsOver(w) ==
  /\ at[w] # "idle" /\ at'[w] = "idle"
  /\ asset'[w] \in Assets /\ manifest'[w] = {} /\ met' = met \ {w}

(* An asset there is. *)
LEMMA AnAssetIs == Sorts => A!AnAsset \in Assets
BY DEF Sorts, A!AnAsset

(* Goes(w, where) in these terms, *)
LEMMA Going ==
  ASSUME A!TypeOK, NEW w \in Writers, at[w] # "idle", NEW spot \in A!Stages, A!Goes(w, spot)
  PROVE  /\ GoesOn(w) /\ at'[w] = spot /\ read'[w] = read[w]
         /\ at' \in [Writers -> A!Stages \cup {"idle"}]
         /\ UNCHANGED <<pipelined, asset, manifest, read, met>>
         /\ \A v \in Writers : v # w => at'[v] = at[v]
BY DEF A!TypeOK, A!Goes, A!call, GoesOn

(* and Ends(w). *)
LEMMA Ending ==
  ASSUME Sorts, A!TypeOK, NEW w \in Writers, at[w] # "idle", A!Ends(w)
  PROVE  /\ IsOver(w)
         /\ at' \in [Writers -> A!Stages \cup {"idle"}] /\ asset' \in [Writers -> Assets]
         /\ manifest' \in [Writers -> Manifests \cup {{}}]
         /\ read' \in [Writers -> Assets \cup {{}}]
         /\ met' \subseteq Writers /\ pipelined' = pipelined
         /\ \A v \in Writers : v # w =>
              /\ at'[v] = at[v] /\ asset'[v] = asset[v] /\ manifest'[v] = manifest[v]
              /\ read'[v] = read[v] /\ (v \in met => v \in met')
BY AnAssetIs DEF A!TypeOK, A!Ends, IsOver

(* Every step keeps the types, and leaves the other writers alone. *)
LEMMA Frame ==
  ASSUME Sorts, A!TypeOK, Knows, NEW w \in Writers, Step(w)
  PROVE  /\ A!TypeOK'
         /\ Begins(w) \/ GoesOn(w) \/ IsOver(w)
         /\ pipelined' = pipelined
         /\ \A v \in Writers : v # w =>
              /\ at'[v] = at[v] /\ asset'[v] = asset[v] /\ manifest'[v] = manifest[v]
              /\ read'[v] = read[v] /\ (v \in met => v \in met')
         /\ lost' >= lost /\ (excused => excused')
<1>1. CASE A!PutAsset(w)
  <2>1. PICK a \in Assets, m \in Manifests \cup {{}} :
          /\ asset' = [asset EXCEPT ![w] = a] /\ manifest' = [manifest EXCEPT ![w] = m]
          /\ met' = LET others == {v \in Writers : A!Busy(v) /\ asset[v] = a}
                    IN  IF others = {} THEN met ELSE met \cup others \cup {w}
    <3>1. PICK a \in Assets : \E m \in IF a \in Indexed THEN Manifests ELSE {{}} :
            /\ asset' = [asset EXCEPT ![w] = a] /\ manifest' = [manifest EXCEPT ![w] = m]
            /\ met' = LET others == {v \in Writers : A!Busy(v) /\ asset[v] = a}
                      IN  IF others = {} THEN met ELSE met \cup others \cup {w}
        BY <1>1 DEF A!PutAsset
    <3> QED
        BY <3>1
  <2>2. /\ at[w] = "idle" /\ at' = [at EXCEPT ![w] = "download"]
        /\ UNCHANGED <<pipelined, final, temp, ties, legacy, read, sure, excused, lost>>
      BY <1>1 DEF A!PutAsset, A!At, A!objects, A!blame
  <2>3. met \subseteq met' /\ met' \subseteq Writers
      BY <2>1 DEF A!TypeOK
  <2>4. \A v \in Writers : A!Busy(v) /\ asset[v] = a => {v, w} \subseteq met'
      BY <2>1
  <2>5. asset'[w] = a /\ manifest'[w] = m /\ at'[w] = "download"
      BY <2>1, <2>2 DEF A!TypeOK
  <2>6. Begins(w)
      BY <2>2, <2>3, <2>4, <2>5 DEF Begins
  <2>7. A!TypeOK'
      BY <2>1, <2>2, <2>3 DEF A!TypeOK, A!Stages
  <2> QED
      BY <2>1, <2>2, <2>3, <2>6, <2>7 DEF A!TypeOK
<1>2. CASE A!Download(w)
  <2>1. /\ at[w] = "download" /\ at' = [at EXCEPT ![w] = "seek_final"]
        /\ read' = [read EXCEPT ![w] = Bytes[asset[w]]]
        /\ temp' = temp \/ temp' = [temp EXCEPT ![asset[w]] = Bytes[asset[w]]]
        /\ UNCHANGED <<pipelined, final, ties, legacy, asset, manifest, met, sure, excused,
                       lost>>
      BY <1>2 DEF A!Download, A!At, A!TempKey, A!blame
  <2>2. Bytes[asset[w]] \in Assets
      BY DEF A!TypeOK, Sorts
  <2>3. A!TypeOK'
      BY <2>1, <2>2 DEF A!TypeOK, A!Stages
  <2> QED
      BY <2>1, <2>3 DEF GoesOn, A!TypeOK, A!Stages
<1>3. CASE \/ A!SeekFinal(w) \/ A!PutFinal(w) \/ A!CopyTemp(w) \/ A!DropTemp(w) \/ A!Clean(w)
           \/ A!SeekIndex(w) \/ A!ReadIndex(w) \/ A!PutIndex(w) \/ A!SeekLegacy(w) \/ A!ReadLegacy(w)
           \/ A!UndoIndex(w) \/ A!PutLegacy(w) \/ A!RequestFails(w) \/ A!Dies(w)
  <2>1. at[w] # "idle" /\ (A!Ends(w) \/ \E spot \in A!Stages : A!Goes(w, spot))
    <3> USE DEF A!At, A!Busy, A!Raises, A!Returns, A!Stored, A!Stages
    <3>1. CASE A!SeekFinal(w) \/ A!PutFinal(w)
        BY <3>1 DEF A!SeekFinal, A!PutFinal
    <3>2. CASE A!CopyTemp(w) \/ A!DropTemp(w) \/ A!Clean(w)
        BY <3>2 DEF A!CopyTemp, A!DropTemp, A!Clean
    <3>3. CASE A!SeekIndex(w) \/ A!ReadIndex(w) \/ A!PutIndex(w)
        BY <3>3 DEF A!SeekIndex, A!ReadIndex, A!PutIndex
    <3>4. CASE A!SeekLegacy(w) \/ A!ReadLegacy(w) \/ A!UndoIndex(w) \/ A!PutLegacy(w)
        BY <3>4 DEF A!SeekLegacy, A!ReadLegacy, A!UndoIndex, A!PutLegacy
    <3>5. CASE A!RequestFails(w) \/ A!Dies(w)
        BY <3>5 DEF A!RequestFails, A!Dies
    <3> QED
        BY <1>3, <3>1, <3>2, <3>3, <3>4, <3>5
  <2>2. /\ lost' = lost \/ (lost < MaxFaults /\ lost' = lost + 1)
        /\ excused' \in BOOLEAN /\ (excused => excused')
      BY <1>3 DEF A!SeekFinal, A!PutFinal, A!CopyTemp, A!DropTemp, A!Clean, A!SeekIndex, A!ReadIndex,
         A!PutIndex, A!SeekLegacy, A!ReadLegacy, A!UndoIndex, A!PutLegacy, A!RequestFails, A!Dies, A!Fault,
         A!blame, A!TypeOK, A!At
  <2>3. /\ final' \in [Assets -> Assets \cup {{}}] /\ temp' \in [Assets -> Assets \cup {{}}]
        /\ ties' \in [Tenants \X Assets -> A!Entries] /\ legacy' \in [Assets -> A!Entries]
        /\ sure' \subseteq Assets \X Manifests
    <3>1. A!Nothing \in A!Entries /\ (at[w] \in Tying => A!Entry(manifest[w]) \in A!Entries)
        BY DEF A!Nothing, A!Entries, Sorts, Knows, A!Entry
    <3>2. asset[w] \in Assets /\ read[w] \in Assets \cup {{}}
        BY DEF A!TypeOK
    <3>3. final' = final \/ (\E d \in Assets \cup {{}} : final' = [final EXCEPT ![read[w]] = d])
        BY <1>3, <3>2 DEF A!SeekFinal, A!PutFinal, A!CopyTemp, A!DropTemp, A!Clean, A!SeekIndex, A!ReadIndex,
           A!PutIndex, A!SeekLegacy, A!ReadLegacy, A!UndoIndex, A!PutLegacy, A!RequestFails, A!Dies, A!objects,
           A!TypeOK, A!TempKey
    <3>4. temp' = temp \/ temp' = [temp EXCEPT ![asset[w]] = {}]
        BY <1>3 DEF A!SeekFinal, A!PutFinal, A!CopyTemp, A!DropTemp, A!Clean, A!SeekIndex, A!ReadIndex,
           A!PutIndex, A!SeekLegacy, A!ReadLegacy, A!UndoIndex, A!PutLegacy, A!RequestFails, A!Dies, A!objects,
           A!TempKey
    <3>5. ties' = ties \/ (\E e \in A!Entries : ties' = [ties EXCEPT ![A!Own(w)] = e])
        BY <1>3, <3>1 DEF A!SeekFinal, A!PutFinal, A!CopyTemp, A!DropTemp, A!Clean, A!SeekIndex, A!ReadIndex,
           A!PutIndex, A!SeekLegacy, A!ReadLegacy, A!UndoIndex, A!PutLegacy, A!RequestFails, A!Dies, A!objects,
           A!At, Tying
    <3>6. legacy' = legacy \/ (\E e \in A!Entries : legacy' = [legacy EXCEPT ![asset[w]] = e])
        BY <1>3, <3>1 DEF A!SeekFinal, A!PutFinal, A!CopyTemp, A!DropTemp, A!Clean, A!SeekIndex, A!ReadIndex,
           A!PutIndex, A!SeekLegacy, A!ReadLegacy, A!UndoIndex, A!PutLegacy, A!RequestFails, A!Dies, A!objects,
           A!At, Tying
    <3>7. sure' \subseteq Assets \X Manifests
      <4>1. CASE sure' = sure
          BY <4>1 DEF A!TypeOK
      <4>2. CASE A!Returns(w) /\ at[w] \in Tying
        <5>1. <<asset[w], manifest[w]>> \in Assets \X Manifests
            BY <4>2, <3>2 DEF Knows
        <5> QED
            BY <4>2, <5>1 DEF A!Returns, A!TypeOK
      <4> QED
          BY <1>3, <4>1, <4>2 DEF A!SeekFinal, A!PutFinal, A!CopyTemp, A!DropTemp, A!Clean, A!SeekIndex,
             A!ReadIndex, A!PutIndex, A!SeekLegacy, A!ReadLegacy, A!UndoIndex, A!PutLegacy, A!RequestFails,
             A!Dies, A!Raises, A!At, Tying
    <3> QED
        BY <3>3, <3>4, <3>5, <3>6, <3>7 DEF A!TypeOK
  <2>4. lost' \in 0..MaxFaults /\ lost' >= lost
      BY <2>2 DEF A!TypeOK, Sorts
  <2>5. CASE A!Ends(w)
      BY <2>1, <2>2, <2>3, <2>4, <2>5, Ending DEF A!TypeOK
  <2>6. CASE \E spot \in A!Stages : A!Goes(w, spot)
    <3>1. PICK spot \in A!Stages : A!Goes(w, spot)
        BY <2>6
    <3>2. /\ GoesOn(w) /\ at' \in [Writers -> A!Stages \cup {"idle"}]
          /\ UNCHANGED <<pipelined, asset, manifest, read, met>>
          /\ \A v \in Writers : v # w => at'[v] = at[v]
        BY <2>1, <3>1, Going
    <3> QED
        BY <2>2, <2>3, <2>4, <3>2 DEF A!TypeOK
  <2> QED
      BY <2>1, <2>5, <2>6
<1> QED
    BY <1>1, <1>2, <1>3 DEF Step

-----------------------------------------------------------------------------
(* What a writer knows stays true. *)
LEMMA KnowsKept ==
  ASSUME Sorts, A!TypeOK, Knows, NEW w \in Writers, Step(w)
  PROVE  Knows'
<1> USE DEF A!Stages, Tying
<1>1. A!TypeOK' /\ pipelined' = pipelined
    BY Frame
<1>2. ASSUME NEW v \in Writers, v # w
      PROVE  /\ at'[v] \in {"seek_final", "copy", "drop_temp", "put_final"} =>
                  read'[v] = Bytes[asset'[v]]
             /\ at'[v] \in {"copy", "drop_temp", "clean"} => pipelined'
             /\ at'[v] \in Tying => manifest'[v] \in Manifests
    BY <1>1, <1>2, Frame DEF Knows
<1>3. /\ at'[w] \in {"seek_final", "copy", "drop_temp", "put_final"} =>
           read'[w] = Bytes[asset'[w]]
      /\ at'[w] \in {"copy", "drop_temp", "clean"} => pipelined'
      /\ at'[w] \in Tying => manifest'[w] \in Manifests
  <2>1. CASE A!PutAsset(w)
      BY <2>1 DEF A!PutAsset, A!TypeOK
  <2>2. CASE A!Download(w)
    <3>1. /\ at' = [at EXCEPT ![w] = "seek_final"] /\ read' = [read EXCEPT ![w] = Bytes[asset[w]]]
          /\ asset' = asset
        BY <2>2 DEF A!Download
    <3> QED
        BY <3>1 DEF A!TypeOK
  <2>3. CASE at'[w] = "idle"
      BY <2>3
  <2>4. ASSUME NEW spot \in A!Stages, A!Goes(w, spot), at[w] # "idle"
        PROVE  at'[w] = spot /\ read' = read /\ asset' = asset /\ manifest' = manifest
      BY <2>4, Going
  <2>5. A!Ends(w) => at'[w] = "idle"
      BY DEF A!Ends, A!TypeOK
  <2>6. manifest[w] \in Manifests \cup {{}}
      BY DEF A!TypeOK
  <2>7. CASE A!SeekFinal(w)
      BY <1>1, <2>3, <2>4, <2>5, <2>6, <2>7 DEF A!SeekFinal, A!Stored, A!At, Knows
  <2>8. CASE A!PutFinal(w)
      BY <1>1, <2>3, <2>4, <2>5, <2>6, <2>8 DEF A!PutFinal, A!Stored, A!At, Knows
  <2>9. CASE A!CopyTemp(w)
      BY <1>1, <2>4, <2>9 DEF A!CopyTemp, A!At, Knows
  <2>10. CASE A!DropTemp(w)
      BY <1>1, <2>3, <2>4, <2>5, <2>6, <2>10 DEF A!DropTemp, A!Stored, A!At, Knows
  <2>11. CASE A!Clean(w) \/ A!UndoIndex(w) \/ A!PutLegacy(w) \/ A!Dies(w) \/ A!ReadIndex(w)
      BY <2>3, <2>5, <2>11 DEF A!Clean, A!UndoIndex, A!PutLegacy, A!Dies, A!ReadIndex, A!Raises, A!Returns
  <2>12. CASE A!SeekIndex(w) \/ A!PutIndex(w) \/ A!SeekLegacy(w)
      BY <1>1, <2>4, <2>12 DEF A!SeekIndex, A!PutIndex, A!SeekLegacy, A!At, Knows
  <2>13. CASE A!ReadLegacy(w)
      BY <1>1, <2>3, <2>4, <2>5, <2>13 DEF A!ReadLegacy, A!Returns, A!At, Knows
  <2>14. CASE A!RequestFails(w)
      BY <1>1, <2>3, <2>4, <2>5, <2>14 DEF A!RequestFails, A!Raises, A!At, A!Busy, Knows
  <2> QED
      BY <2>1, <2>2, <2>7, <2>8, <2>9, <2>10, <2>11, <2>12, <2>13, <2>14 DEF Step
<1> QED
    BY <1>2, <1>3 DEF Knows

(* What a step does to the temporary objects. *)
LEMMA TempEffect ==
  ASSUME Sorts, A!TypeOK, Knows, NEW w \in Writers, Step(w)
  PROVE  /\ \A a \in Assets : a # asset[w] => temp'[a] = temp[a]
         /\ at[w] = "idle" \/ ~pipelined => temp' = temp
         /\ \/ temp' = temp
            \/ temp'[asset[w]] = {}
            \/ at'[w] = "seek_final" /\ temp'[asset[w]] = Bytes[asset[w]]
         /\ at[w] \in Tidying /\ pipelined => excused' \/ at'[w] \in Tidying \/ temp'[asset[w]] = {}
         /\ at'[w] \in {"copy", "drop_temp"} => temp' = temp /\ at[w] \in {"seek_final", "copy"}
         /\ at'[w] = "seek_final" /\ pipelined => temp'[asset[w]] = Bytes[asset[w]]
         /\ at'[w] = "clean" =>
              lost' > 0 \/ (at[w] = "copy" /\ temp[asset[w]] = {})
<1> USE DEF A!Stages, Tidying, A!At, A!Busy
<1>1. /\ asset[w] \in Assets /\ at[w] \in A!Stages \cup {"idle"}
      /\ pipelined \in BOOLEAN /\ lost \in Nat
    BY DEF A!TypeOK, Sorts
<1>2. ASSUME NEW spot \in A!Stages, A!Goes(w, spot) PROVE at'[w] = spot
    BY <1>2 DEF A!Goes, A!TypeOK
<1>3. A!Ends(w) => at'[w] = "idle"
    BY DEF A!Ends, A!TypeOK
<1>4. CASE A!PutAsset(w)
  <2>1. at[w] = "idle" /\ temp' = temp /\ at'[w] = "download"
      BY <1>4 DEF A!PutAsset, A!objects, A!TypeOK
  <2> QED
      BY <2>1
<1>5. CASE A!Download(w)
  <2>1. /\ at[w] = "download" /\ at'[w] = "seek_final"
        /\ IF pipelined THEN temp' = [temp EXCEPT ![asset[w]] = Bytes[asset[w]]] ELSE temp' = temp
      BY <1>5 DEF A!Download, A!TempKey, A!TypeOK
  <2> QED
      BY <1>1, <2>1 DEF A!TypeOK
<1>6. CASE A!SeekFinal(w)
  <2>1. /\ at[w] = "seek_final" /\ temp' = temp
        /\ at'[w] \notin {"seek_final", "clean"}
        /\ pipelined => at'[w] \in {"copy", "drop_temp"}
      BY <1>2, <1>3, <1>6 DEF A!SeekFinal, A!Stored, A!objects
  <2> QED
      BY <2>1
<1>7. CASE A!CopyTemp(w)
  <2>1. /\ at[w] = "copy" /\ temp' = temp
        /\ \/ at'[w] = "drop_temp"
           \/ at'[w] = "clean" /\ temp[asset[w]] = {}
      BY <1>2, <1>7 DEF A!CopyTemp, A!TempKey
  <2> QED
      BY <2>1
<1>8. CASE A!DropTemp(w) \/ A!Clean(w)
  <2>1. /\ pipelined /\ temp' = [temp EXCEPT ![asset[w]] = {}]
        /\ at[w] \in {"drop_temp", "clean"} /\ at'[w] \in {"idle", "seek_index"}
      BY <1>2, <1>3, <1>8 DEF A!DropTemp, A!Clean, A!Stored, A!Raises, A!TempKey, Knows
  <2> QED
      BY <1>1, <2>1 DEF A!TypeOK
<1>9. CASE \/ A!PutFinal(w) \/ A!SeekIndex(w) \/ A!ReadIndex(w) \/ A!PutIndex(w) \/ A!SeekLegacy(w)
           \/ A!ReadLegacy(w) \/ A!UndoIndex(w) \/ A!PutLegacy(w)
  <2>1. temp' = temp /\ at[w] \notin Tidying /\ at[w] # "idle"
      BY <1>9 DEF A!PutFinal, A!SeekIndex, A!ReadIndex, A!PutIndex, A!SeekLegacy, A!ReadLegacy, A!UndoIndex,
         A!PutLegacy, A!objects
  <2>2. at'[w] \notin Tidying
      BY <1>2, <1>3, <1>9 DEF A!PutFinal, A!SeekIndex, A!ReadIndex, A!PutIndex, A!SeekLegacy, A!ReadLegacy,
         A!UndoIndex, A!PutLegacy, A!Stored, A!Raises, A!Returns
  <2> QED
      BY <2>1, <2>2
<1>10. CASE A!RequestFails(w) \/ A!Dies(w)
  <2>1. /\ temp' = temp /\ lost' = lost + 1 /\ at'[w] \in {"clean", "idle"}
        /\ at[w] # "idle"
        /\ at[w] \in Tidying /\ pipelined => excused' \/ at'[w] = "clean"
      BY <1>2, <1>3, <1>10 DEF A!RequestFails, A!Dies, A!Fault, A!Raises, A!objects
  <2> QED
      BY <1>1, <2>1
<1> QED
    BY <1>4, <1>5, <1>6, <1>7, <1>8, <1>9, <1>10 DEF Step

(* Temporary objects hold their asset's bytes, and somebody sees to them. *)
LEMMA TempIsOwnKept ==
  ASSUME Sorts, A!TypeOK, Knows, TempIsOwn, NEW w \in Writers, Step(w)
  PROVE  TempIsOwn'
<1> SUFFICES ASSUME NEW a \in Assets
             PROVE  /\ temp'[a] \in {{}, Bytes[a]}
                    /\ temp'[a] # {} => pipelined'
                    /\ temp'[a] # {} =>
                         excused' \/ \E v \in Writers : asset'[v] = a /\ at'[v] \in Tidying
    BY DEF TempIsOwn
<1>1. /\ temp[a] \in {{}, Bytes[a]} /\ (temp[a] # {} => pipelined)
      /\ temp[a] # {} => excused \/ \E v \in Writers : asset[v] = a /\ at[v] \in Tidying
    BY DEF TempIsOwn
<1>2. /\ pipelined' = pipelined /\ (excused => excused')
      /\ \A v \in Writers : v # w => at'[v] = at[v] /\ asset'[v] = asset[v]
      /\ Begins(w) \/ GoesOn(w) \/ IsOver(w)
    BY Frame
<1>3. at[w] \in Tidying /\ at'[w] \in Tidying => asset'[w] = asset[w]
    BY <1>2 DEF Begins, GoesOn, IsOver, Tidying
<1>4. CASE temp' = temp /\ at[w] \notin Tidying
    BY <1>1, <1>2, <1>4
<1>5. CASE temp' = temp /\ at[w] \in Tidying
    BY <1>1, <1>2, <1>3, <1>5, TempEffect
<1>6. CASE temp' # temp
  <2>1. pipelined /\ at[w] # "idle" /\ (a # asset[w] => temp'[a] = temp[a])
      BY <1>6, TempEffect DEF A!TypeOK
  <2>2. CASE a # asset[w]
      BY <1>1, <1>2, <2>1, <2>2
  <2>3. CASE a = asset[w]
    <3>1. \/ temp'[a] = {}
          \/ at'[w] = "seek_final" /\ temp'[a] = Bytes[a]
        BY <1>6, <2>3, TempEffect
    <3>2. at'[w] = "seek_final" => asset'[w] = a
        BY <1>2, <2>3 DEF Begins, GoesOn, IsOver
    <3> QED
        BY <1>2, <2>1, <3>1, <3>2 DEF Tidying
  <2> QED
      BY <2>2, <2>3
<1> QED
    BY <1>4, <1>5, <1>6

(* A content key holds the bytes it is named for. *)
LEMMA CasKept ==
  ASSUME Sorts, A!TypeOK, Knows, TempIsOwn, A!CasIsContent, NEW w \in Writers, Step(w)
  PROVE  A!CasIsContent'
<1>1. asset[w] \in Assets
    BY DEF A!TypeOK
<1>2. CASE final' = final
    BY <1>2 DEF A!CasIsContent
<1>3. CASE A!PutFinal(w)
    BY <1>3 DEF A!PutFinal, A!CasIsContent, A!TypeOK
<1>4. CASE A!CopyTemp(w)
  <2>1. temp[asset[w]] \in {{}, Bytes[asset[w]]}
      BY <1>1 DEF TempIsOwn
  <2>2. read[w] = Bytes[asset[w]]
      BY <1>4 DEF A!CopyTemp, A!At, Knows
  <2>3. final' = final \/ final' = [final EXCEPT ![read[w]] = temp[asset[w]]]
      BY <1>4 DEF A!CopyTemp, A!TempKey
  <2> QED
      BY <2>1, <2>2, <2>3 DEF A!CasIsContent, A!TypeOK
<1> QED
    BY <1>2, <1>3, <1>4 DEF Step, A!PutAsset, A!Download, A!SeekFinal, A!DropTemp, A!Clean, A!SeekIndex,
       A!ReadIndex, A!PutIndex, A!SeekLegacy, A!ReadLegacy, A!UndoIndex, A!PutLegacy, A!RequestFails, A!Dies,
       A!objects

(* Who has its asset for itself, has it until it meets another. *)
LEMMA AloneKept ==
  ASSUME Sorts, A!TypeOK, Knows, Alone, NEW w \in Writers, Step(w)
  PROVE  Alone'
<1> SUFFICES ASSUME NEW u \in Writers, NEW v \in Writers,
                    at'[u] # "idle", u \notin met', at'[v] # "idle", asset'[v] = asset'[u]
             PROVE  v = u
    BY DEF Alone, A!Busy
<1>1. /\ Begins(w) \/ GoesOn(w) \/ IsOver(w)
      /\ \A x \in Writers : x # w =>
           at'[x] = at[x] /\ asset'[x] = asset[x] /\ (x \in met => x \in met')
    BY Frame
<1>2. CASE Begins(w)
    BY <1>1, <1>2 DEF Begins, Alone, A!Busy
<1>3. CASE GoesOn(w)
    BY <1>1, <1>3 DEF GoesOn, Alone, A!Busy
<1>4. CASE IsOver(w)
    BY <1>1, <1>4 DEF IsOver, Alone, A!Busy
<1> QED
    BY <1>1, <1>2, <1>3, <1>4

(* A copy fails because of another writer, or of a request that failed. *)
LEMMA CleanKept ==
  ASSUME Sorts, A!TypeOK, Knows, TempIsOwn, Undisturbed, CleanForCause, NEW w \in Writers, Step(w)
  PROVE  CleanForCause'
<1> SUFFICES ASSUME NEW v \in Writers, at'[v] = "clean" PROVE lost' > 0 \/ v \in met'
    BY DEF CleanForCause, A!At
<1>1. /\ lost' >= lost /\ lost \in Nat /\ lost' \in Nat
      /\ Begins(w) \/ GoesOn(w) \/ IsOver(w)
      /\ \A x \in Writers : x # w => at'[x] = at[x] /\ (x \in met => x \in met')
    BY Frame DEF A!TypeOK, Sorts
<1>2. CASE v # w
    BY <1>1, <1>2 DEF CleanForCause, A!At
<1>3. CASE v = w
  <2>1. lost' > 0 \/ (at[w] = "copy" /\ temp[asset[w]] = {})
      BY <1>3, TempEffect
  <2>2. met' = met
      BY <1>1, <1>3 DEF Begins, GoesOn, IsOver
  <2>3. at[w] = "copy" => pipelined
      BY DEF Knows
  <2>4. Bytes[asset[w]] # {}
    <3>1. Bytes[asset[w]] \in Assets
        BY DEF A!TypeOK, Sorts
    <3> QED
        BY <3>1 DEF Sorts
  <2> QED
      BY <1>3, <2>1, <2>2, <2>3, <2>4 DEF Undisturbed
<1> QED
    BY <1>2, <1>3

(* What a step does to the index, and whom it tells that all is there. *)
LEMMA IndexEffect ==
  ASSUME Sorts, A!TypeOK, Knows, NEW w \in Writers, Step(w)
  PROVE  /\ \/ ties' = ties
            \/ /\ at[w] \in {"put_index", "undo_index"}
               /\ \A k \in Tenants \X Assets : k # A!Own(w) => ties'[k] = ties[k]
         /\ at'[w] \in Wrote =>
              \/ at[w] = "put_index" /\ ties'[A!Own(w)] = A!Entry(manifest[w])
              \/ at[w] \in Wrote /\ ties' = ties
         /\ at'[w] = "put_index" => at[w] = "seek_index" /\ ties[A!Own(w)] = A!Nothing
         /\ \/ sure' = sure
            \/ /\ sure' = sure \cup {<<asset[w], manifest[w]>>}
               /\ at[w] \in Tying /\ at'[w] = "idle" /\ w \notin met /\ ties' = ties
               /\ at[w] \in Wrote \/ ties[A!Own(w)] = A!Entry(manifest[w])
<1> USE DEF A!At, A!Busy
<1>1. ASSUME NEW spot \in A!Stages, A!Goes(w, spot) PROVE at'[w] = spot
    BY <1>1 DEF A!Goes, A!TypeOK
<1>2. A!Ends(w) => at'[w] = "idle"
    BY DEF A!Ends, A!TypeOK
<1>3. A!Returns(w) =>
        /\ at'[w] = "idle"
        /\ sure' = sure \/ (w \notin met /\ sure' = sure \cup {<<asset[w], manifest[w]>>})
    BY <1>2 DEF A!Returns
<1>4. at[w] \in Tying => A!Own(w) \in Tenants \X Assets
    BY DEF A!Own, A!TypeOK, Knows, Sorts
<1> USE DEF A!Stages, Wrote, Tying
<1>5. CASE A!PutAsset(w) \/ A!Download(w)
  <2>1. ties' = ties /\ sure' = sure /\ at'[w] \in {"download", "seek_final"}
      BY <1>5 DEF A!PutAsset, A!Download, A!objects, A!TypeOK
  <2> QED
      BY <2>1
<1>6. CASE \/ A!SeekFinal(w) \/ A!PutFinal(w) \/ A!CopyTemp(w) \/ A!DropTemp(w) \/ A!Clean(w)
           \/ A!RequestFails(w) \/ A!Dies(w)
  <2>1. /\ ties' = ties /\ sure' = sure
        /\ at'[w] \in {"drop_temp", "copy", "put_final", "clean", "seek_index", "idle"}
      BY <1>1, <1>2, <1>6 DEF A!SeekFinal, A!PutFinal, A!CopyTemp, A!DropTemp, A!Clean, A!RequestFails, A!Dies,
         A!objects, A!Stored, A!Raises
  <2> QED
      BY <2>1
<1>7. CASE A!SeekIndex(w)
    BY <1>1, <1>7 DEF A!SeekIndex, A!objects
<1>8. CASE A!ReadIndex(w)
    BY <1>2, <1>3, <1>8 DEF A!ReadIndex, A!objects, A!Raises
<1>9. CASE A!PutIndex(w)
  <2>1. /\ at[w] = "put_index" /\ at'[w] = "seek_legacy" /\ sure' = sure
        /\ ties' = [ties EXCEPT ![A!Own(w)] = A!Entry(manifest[w])]
      BY <1>1, <1>9 DEF A!PutIndex
  <2> QED
      BY <1>4, <2>1 DEF A!TypeOK
<1>10. CASE A!SeekLegacy(w) \/ A!ReadLegacy(w)
  <2>1. /\ ties' = ties /\ at[w] \in {"seek_legacy", "read_legacy"}
        /\ \/ sure' = sure /\ at'[w] \in {"read_legacy", "put_legacy", "undo_index"}
           \/ A!Returns(w)
      BY <1>1, <1>10 DEF A!SeekLegacy, A!ReadLegacy, A!objects
  <2> QED
      BY <1>3, <2>1
<1>11. CASE A!UndoIndex(w)
  <2>1. /\ at[w] = "undo_index" /\ at'[w] = "idle" /\ sure' = sure
        /\ ties' = [ties EXCEPT ![A!Own(w)] = A!Nothing]
      BY <1>2, <1>11 DEF A!UndoIndex, A!Raises
  <2> QED
      BY <1>4, <2>1 DEF A!TypeOK
<1>12. CASE A!PutLegacy(w)
    BY <1>3, <1>12 DEF A!PutLegacy
<1> QED
    BY <1>5, <1>6, <1>7, <1>8, <1>9, <1>10, <1>11, <1>12 DEF Step

(* A step of one writer does not disturb another that has its asset for    *)
(* itself.                                                                 *)
LEMMA UndisturbedKept ==
  ASSUME Sorts, A!TypeOK, Knows, Alone, Undisturbed, NEW w \in Writers, Step(w)
  PROVE  Undisturbed'
<1>1. /\ pipelined' = pipelined
      /\ Begins(w) \/ GoesOn(w) \/ IsOver(w)
      /\ \A v \in Writers : v # w =>
           /\ at'[v] = at[v] /\ asset'[v] = asset[v] /\ manifest'[v] = manifest[v]
           /\ (v \in met => v \in met')
    BY Frame
<1>2. ASSUME NEW v \in Writers, v # w, v \notin met'
      PROVE  /\ pipelined' /\ at'[v] \in {"seek_final", "copy", "drop_temp"} =>
                  temp'[asset'[v]] = Bytes[asset'[v]]
             /\ at'[v] \in Wrote => ties'[A!Own(v)'] = A!Entry(manifest'[v])
  <2>1. /\ at'[v] = at[v] /\ asset'[v] = asset[v] /\ manifest'[v] = manifest[v] /\ v \notin met
        /\ asset[v] \in Assets
      BY <1>1, <1>2 DEF A!TypeOK
  <2>2. at[v] # "idle" /\ at[w] # "idle" => asset[v] # asset[w]
      BY <1>2, <2>1 DEF Alone, A!Busy
  <2>3. at[v] # "idle" => temp'[asset[v]] = temp[asset[v]]
      BY <2>1, <2>2, TempEffect
  <2>4. at[v] \in Wrote => ties'[A!Own(v)] = ties[A!Own(v)]
    <3>1. at[v] \in Wrote => A!Own(v) \in Tenants \X Assets /\ at[v] # "idle"
        BY <2>1 DEF A!Own, Wrote, Tying, A!TypeOK, Knows, Sorts
    <3>2. at[v] \in Wrote /\ at[w] # "idle" => A!Own(v) # A!Own(w)
        BY <2>2, <3>1 DEF A!Own
    <3> QED
        BY <3>1, <3>2, IndexEffect
  <2>5. A!Own(v)' = A!Own(v)
      BY <2>1 DEF A!Own
  <2> QED
      BY <1>1, <2>1, <2>3, <2>4, <2>5 DEF Undisturbed, Wrote
<1>3. ASSUME w \notin met'
      PROVE  /\ pipelined' /\ at'[w] \in {"seek_final", "copy", "drop_temp"} =>
                  temp'[asset'[w]] = Bytes[asset'[w]]
             /\ at'[w] \in Wrote => ties'[A!Own(w)'] = A!Entry(manifest'[w])
  <2>1. CASE GoesOn(w)
    <3>1. asset'[w] = asset[w] /\ manifest'[w] = manifest[w] /\ w \notin met
        BY <1>3, <2>1 DEF GoesOn
    <3>2. A!Own(w)' = A!Own(w)
        BY <3>1 DEF A!Own
    <3>3. pipelined /\ at'[w] \in {"seek_final", "copy", "drop_temp"} =>
            temp'[asset[w]] = Bytes[asset[w]]
        BY <3>1, TempEffect DEF Undisturbed
    <3>4. at'[w] \in Wrote => ties'[A!Own(w)] = A!Entry(manifest[w])
        BY <3>1, IndexEffect DEF Undisturbed
    <3> QED
        BY <1>1, <3>1, <3>2, <3>3, <3>4
  <2>2. CASE Begins(w) \/ IsOver(w)
      BY <2>2 DEF Begins, IsOver, Wrote
  <2> QED
      BY <1>1, <2>1, <2>2
<1>4. ASSUME NEW v \in Writers, v \notin met'
      PROVE  /\ pipelined' /\ at'[v] \in {"seek_final", "copy", "drop_temp"} =>
                  temp'[asset'[v]] = Bytes[asset'[v]]
             /\ at'[v] \in Wrote => ties'[A!Own(v)'] = A!Entry(manifest'[v])
    BY <1>2, <1>3, <1>4
<1> QED
    BY <1>4 DEF Undisturbed

(* What a writer was told stays in the index. *)
LEMMA SureKept ==
  ASSUME Sorts, A!TypeOK, Knows, Alone, Undisturbed, SureIsIndexed, NEW w \in Writers, Step(w)
  PROVE  SureIsIndexed'
<1> SUFFICES ASSUME NEW a \in Assets, NEW m \in Manifests, <<a, m>> \in sure'
             PROVE  /\ ties'[<<TenantOf[m], a>>] = A!Entry(m)
                    /\ \A v \in Writers : asset'[v] = a /\ at'[v] \in Wrote \cup {"put_index"} =>
                         TenantOf[manifest'[v]] # TenantOf[m]
    BY DEF SureIsIndexed
<1>1. /\ Begins(w) \/ GoesOn(w) \/ IsOver(w)
      /\ \A v \in Writers : v # w =>
           at'[v] = at[v] /\ asset'[v] = asset[v] /\ manifest'[v] = manifest[v]
    BY Frame
<1>2. <<TenantOf[m], a>> \in Tenants \X Assets
    BY DEF Sorts
<1>3. CASE <<a, m>> \in sure
  <2>1. /\ ties[<<TenantOf[m], a>>] = A!Entry(m)
        /\ \A v \in Writers : asset[v] = a /\ at[v] \in Wrote \cup {"put_index"} =>
             TenantOf[manifest[v]] # TenantOf[m]
      BY <1>3 DEF SureIsIndexed
  <2>2. A!Entry(m) # A!Nothing
      BY DEF A!Entry, A!Nothing, Sorts
  <2>3. ties'[<<TenantOf[m], a>>] = A!Entry(m)
    <3>1. at[w] \in {"put_index", "undo_index"} => <<TenantOf[m], a>> # A!Own(w)
        BY <2>1 DEF A!Own, Wrote
    <3> QED
        BY <1>2, <2>1, <3>1, IndexEffect
  <2>4. asset'[w] = a /\ at'[w] \in Wrote \cup {"put_index"} => TenantOf[manifest'[w]] # TenantOf[m]
    <3>1. CASE GoesOn(w)
      <4>1. asset'[w] = asset[w] /\ manifest'[w] = manifest[w]
          BY <3>1 DEF GoesOn
      <4>2. at'[w] \in Wrote => at[w] \in Wrote \cup {"put_index"}
          BY IndexEffect
      <4>3. asset[w] = a /\ at'[w] = "put_index" => TenantOf[manifest[w]] # TenantOf[m]
          BY <2>1, <2>2, IndexEffect DEF A!Own
      <4> QED
          BY <2>1, <4>1, <4>2, <4>3
    <3>2. CASE Begins(w) \/ IsOver(w)
        BY <3>2 DEF Begins, IsOver, Wrote
    <3> QED
        BY <1>1, <3>1, <3>2
  <2> QED
      BY <1>1, <2>1, <2>3, <2>4
<1>4. CASE <<a, m>> \notin sure
  <2>1. /\ a = asset[w] /\ m = manifest[w]
        /\ at[w] \in Tying /\ at'[w] = "idle" /\ w \notin met /\ ties' = ties
        /\ at[w] \in Wrote \/ ties[A!Own(w)] = A!Entry(manifest[w])
      BY <1>4, IndexEffect
  <2>2. ties[A!Own(w)] = A!Entry(m)
      BY <2>1 DEF Undisturbed
  <2>3. ASSUME NEW v \in Writers, asset'[v] = a, at'[v] \in Wrote \cup {"put_index"} PROVE FALSE
    <3>1. v # w /\ at[v] = at'[v] /\ asset[v] = a
        BY <1>1, <2>1, <2>3 DEF Wrote
    <3> QED
        BY <2>1, <2>3, <3>1 DEF Alone, A!Busy, Wrote, Tying
  <2> QED
      BY <2>1, <2>2, <2>3 DEF A!Own
<1> QED
    BY <1>3, <1>4

-----------------------------------------------------------------------------
(* Nothing is there at first but what the older index holds. *)
LEMMA Initially == ASSUME Sorts, A!Init PROVE TiesInv
<1>1. A!TypeOK
  <2>1. A!Nothing \in A!Entries /\ \A m \in Manifests : [tenant |-> {}, manifest |-> m] \in A!Entries
      BY DEF A!Nothing, A!Entries
  <2>2. legacy \in [Assets -> A!Entries] /\ ties \in [Tenants \X Assets -> A!Entries]
      BY <2>1 DEF A!Init
  <2>3. /\ final \in [Assets -> Assets \cup {{}}] /\ temp \in [Assets -> Assets \cup {{}}]
        /\ manifest \in [Writers -> Manifests \cup {{}}] /\ read \in [Writers -> Assets \cup {{}}]
      BY DEF A!Init
  <2>4. at \in [Writers -> A!Stages \cup {"idle"}] /\ asset \in [Writers -> Assets]
      BY AnAssetIs DEF A!Init
  <2>5. lost \in 0..MaxFaults
      BY DEF A!Init, Sorts
  <2> QED
      BY <2>2, <2>3, <2>4, <2>5 DEF A!Init, A!TypeOK
<1>2. Knows /\ TempIsOwn /\ A!CasIsContent /\ Alone /\ Undisturbed /\ CleanForCause
    BY DEF A!Init, Knows, TempIsOwn, A!CasIsContent, Alone, Undisturbed, CleanForCause, A!Busy, A!At,
       Wrote, Tying
<1>3. SureIsIndexed
    BY DEF A!Init, SureIsIndexed
<1> QED
    BY <1>1, <1>2, <1>3 DEF TiesInv

(* The machines of MCStores take their own steps or none. *)
LEMMA Machines ==
  /\ MCInit => A!Init /\ B!Init
  /\ [MCNext]_all => [A!Next]_A!vars
  /\ [MCNext]_all => [B!Next]_B!vars
<1>1. MCInit => A!Init /\ B!Init
    BY DEF MCInit
<1>2. [MCNext]_all => [A!Next]_A!vars
    BY DEF MCNext, all, assetVars, A!vars
<1>3. [MCNext]_all => [B!Next]_B!vars
    BY DEF MCNext, all, backendVars, B!vars, B!preflight, B!made
<1> QED
    BY <1>1, <1>2, <1>3

(* The invariant holds, whoever puts what and whichever request fails. *)
THEOREM TiesInvariance ==
  ASSUME Sorts
  PROVE  /\ A!Spec => []TiesInv
         /\ MCSpec => []TiesInv
<1>1. A!Init => TiesInv
    BY Initially
<1>2. TiesInv /\ [A!Next]_A!vars => TiesInv'
  <2>1. ASSUME TiesInv, NEW w \in Writers, Step(w) PROVE TiesInv'
      BY <2>1, Frame, KnowsKept, TempIsOwnKept, CasKept, AloneKept, UndisturbedKept, CleanKept,
         SureKept DEF TiesInv
  <2>2. ASSUME TiesInv, UNCHANGED A!vars PROVE TiesInv'
    <3>1. TiesInv /\ UNCHANGED <<pipelined, final, temp, ties, legacy, at, asset, manifest, read, met,
                              sure, excused, lost>>
        BY <2>2 DEF A!vars
    <3>2. A!TypeOK' /\ Knows' /\ TempIsOwn' /\ A!CasIsContent'
        BY <3>1 DEF TiesInv, A!TypeOK, Knows, TempIsOwn, A!CasIsContent
    <3>3. Alone' /\ Undisturbed' /\ CleanForCause' /\ SureIsIndexed'
        BY <3>1 DEF TiesInv, Alone, Undisturbed, CleanForCause, SureIsIndexed, A!Busy, A!At, A!Own
    <3> QED
        BY <3>2, <3>3 DEF TiesInv
  <2> QED
      BY <2>1, <2>2 DEF A!Next, Step
<1> QED
    BY <1>1, <1>2, Machines, PTL DEF A!Spec, MCSpec

(* The variables have their types. *)
THEOREM TypeCorrect == ASSUME Sorts PROVE A!Spec => []A!TypeOK
<1>1. TiesInv => A!TypeOK
    BY DEF TiesInv
<1> QED
    BY <1>1, TiesInvariance, PTL

(* A content key never holds other bytes than those it is named for, and  *)
(* temporary objects go with their writers: a copy that finds none was met *)
(* by another writer of the asset.                                         *)
THEOREM ContentSafety ==
  ASSUME Sorts
  PROVE  /\ A!Spec => [](A!CasIsContent /\ A!TempIsTidy)
         /\ MCSpec => []CasIsContent
<1>1. TiesInv => A!TempIsTidy
  <2>1. ASSUME TiesInv, ~excused, \A w \in Writers : ~A!Busy(w), NEW a \in Assets PROVE temp[a] = {}
      BY <2>1 DEF TiesInv, TempIsOwn, A!Busy, Tidying
  <2>2. TiesInv => CleanForCause
      BY DEF TiesInv
  <2> QED
      BY <2>1, <2>2 DEF A!TempIsTidy, CleanForCause
<1>2. TiesInv => A!CasIsContent
    BY DEF TiesInv
<1>3. A!CasIsContent /\ A!TempIsTidy => CasIsContent
    BY DEF CasIsContent
<1> QED
    BY <1>1, <1>2, <1>3, TiesInvariance, PTL

(* What a writer that met no other was told about its asset's manifest     *)
(* stays true, whatever other writers put, undo or overwrite.              *)
THEOREM IndexSafety ==
  ASSUME Sorts
  PROVE  /\ A!Spec => []A!IndexStays
         /\ MCSpec => []IndexStays
<1>1. ASSUME Sorts, TiesInv PROVE A!IndexStays
  <2>1. ASSUME NEW a \in Assets, NEW m \in Manifests, <<a, m>> \in sure
        PROVE  A!Lookup(TenantOf[m], a) = m
    <3>1. ties[<<TenantOf[m], a>>] = A!Entry(m)
        BY <1>1, <2>1 DEF TiesInv, SureIsIndexed
    <3>2. A!Entry(m) # A!Nothing /\ A!Entry(m).tenant = TenantOf[m] /\ A!Entry(m).manifest = m
        BY <1>1 DEF A!Entry, A!Nothing, Sorts
    <3> QED
        BY <3>1, <3>2 DEF A!Lookup
  <2> QED
      BY <2>1 DEF A!IndexStays
<1>2. A!IndexStays => IndexStays
    BY DEF IndexStays
<1> QED
    BY <1>1, <1>2, TiesInvariance, PTL

-----------------------------------------------------------------------------
(* The S3 backend under the sink, for any threads and regions. *)

(* "Nowhere" is no region, and "nobody" no thread. *)
Named == {} \notin Threads \cup Regions

Ops == B!Gated \cup {"none", "aget"}
Outcomes == {"none", "ok", "no", "error", "preflight", "redirect", "partial"}
Inside == {"head", "move", "point", "swap", "vouch", "seal"}
Outside == {"idle", "peek", "check", "wait", "go"}

(* What of the state the preflight is about. *)
BackendShape ==
  /\ bucket.home \in Regions \cup {B!Nobody}
  /\ bucket.elsewhere \in [Regions -> {"301", "403", "404"}]
  /\ config.b2 \in BOOLEAN /\ config.region \in Regions /\ verified \in BOOLEAN
  /\ copy \in [stage : B!Stages, client : Regions \cup {B!Nobody}, region : Regions \cup {B!Nobody},
                endpoint : Regions \cup {B!Nobody}, verified : BOOLEAN, mixed : BOOLEAN]
  /\ where \in [Threads -> Outside \cup Inside]
  /\ op \in [Threads -> Ops]
  /\ result \in [Threads -> Outcomes]
  /\ faulty \in Nat

(* Who verifies the region holds the lock, and nobody else does. *)
OneHolds == \A t \in Threads : where[t] \in Inside <=> lock = t

(* It is verified once: nobody verifies a region that is. *)
Once == (\E t \in Threads : where[t] \in Inside) => ~verified

(* A backend points where it was told to, or, when a redirect says so,     *)
(* where the bucket is; and so does a copy of it.                          *)
Movable == config.b2 /\ bucket.home \in Regions /\ B!Answer(config.region) = "301"
Place(r) == r = config.region \/ (Movable /\ r = bucket.home)

Copied == copy.stage # "none"
RegionCopied == copy.stage \in {"region", "endpoint"}
EndpointCopied == copy.stage = "endpoint"

InPlace ==
  /\ Place(region) /\ Place(endpoint) /\ Place(client)
  /\ Copied => Place(copy.client)
  /\ RegionCopied => Place(copy.region)
  /\ EndpointCopied => Place(copy.endpoint)

(* How far a correction is. *)
Moving ==
  \A t \in Threads :
    /\ where[t] \in {"move", "point", "swap"} =>
         Movable /\ client = config.region /\ refusal = B!NoError
    /\ where[t] = "point" => region = bucket.home
    /\ where[t] = "swap" => region = bucket.home /\ endpoint = bucket.home
    /\ where[t] = "vouch" => /\ region = bucket.home /\ endpoint = bucket.home
                             /\ client = bucket.home /\ refusal = B!NoError

Vouching == \E t \in Threads : where[t] = "vouch"

(* The client is moved after the endpoint, in a copy too; a copy made      *)
(* before that is of a backend that is verified next.                      *)
Follows ==
  /\ client # config.region => endpoint = client
  /\ Copied /\ copy.client # config.region => endpoint = copy.client
  /\ EndpointCopied /\ copy.client # config.region => copy.endpoint = copy.client
  /\ Copied /\ client # config.region /\ copy.client # client => verified \/ Vouching

(* A refusal is what the service answers for good where the client points, *)
(* and where that of a copy does.                                          *)
Refused ==
  /\ \A t \in Threads : where[t] = "seal" => refusal # B!NoError
  /\ refusal # B!NoError => /\ B!Answer(client) \in {"403", "404"}
                            /\ Copied => copy.client = client

(* A verified backend is where the bucket is, unless it was refused or     *)
(* copied in the middle of a correction.                                   *)
Vouched ==
  /\ verified /\ refusal = B!NoError => client = bucket.home \/ mixed
  /\ copy.verified => verified

(* In one that was not, region, endpoint and client agree but for moments, *)
(* and a copy agrees with it.                                              *)
Amid == \E t \in Threads : where[t] \in {"point", "swap"}

Straight ==
  ~mixed =>
    /\ Amid \/ (region = client /\ endpoint = client)
    /\ Copied /\ ~copy.mixed => /\ ~Amid /\ copy.client = client
                                /\ RegionCopied => copy.region = region
                                /\ EndpointCopied => copy.endpoint = endpoint

(* Nobody is past the preflight before that. *)
ThroughVerified ==
  \A t \in Threads :
    /\ where[t] = "check" => verified
    /\ where[t] = "go" /\ op[t] # "aget" => verified /\ refusal = B!NoError

BackendInv ==
  /\ BackendShape /\ OneHolds /\ Once /\ InPlace /\ Moving /\ Follows /\ Refused /\ Vouched
  /\ Straight /\ ThroughVerified
  /\ B!PreflightIsRight /\ B!UrlsStayOurs

-----------------------------------------------------------------------------
(* What the steps outside the lock leave alone. *)
Standing ==
  /\ bucket' = bucket /\ config' = config
  /\ region' = region /\ endpoint' = endpoint /\ client' = client
  /\ verified' = verified /\ refusal' = refusal /\ lock' = lock
  /\ native' = native /\ mixed' = mixed

(* The outcome r is one that o may have. *)
Fair(o, r) ==
  /\ r = "redirect" => IF o = "aget" THEN native # bucket.home ELSE mixed
  /\ r = "preflight" => \/ refusal # B!NoError \/ faulty > 0 \/ mixed
                        \/ ~config.b2 /\ B!Answer(client) = "301"

(* Answers and places are matters of the bucket and of the configuration. *)
LEMMA AnswersStay ==
  ASSUME bucket' = bucket, config' = config
  PROVE  /\ \A r : B!Answer(r)' = B!Answer(r)
         /\ Movable' = Movable /\ \A r : Place(r)' = Place(r)
BY DEF B!Answer, Movable, Place

(* A step outside the lock that leaves what it guards alone. *)
LEMMA OutsideStep ==
  ASSUME Named, BackendInv, NEW t \in Threads, NEW w \in Outside, NEW o \in Ops, NEW r \in Outcomes,
         where[t] \notin Inside, where' = [where EXCEPT ![t] = w],
         op' = [op EXCEPT ![t] = o], result' = [result EXCEPT ![t] = r],
         w = "check" => verified,
         w = "go" /\ o # "aget" => verified /\ refusal = B!NoError,
         Fair(o, r), Standing, copy' = copy, faulty' \in {faulty, faulty + 1},
         urls' \subseteq urls \cup {client}
  PROVE  BackendInv'
<1>1. BackendShape'
  BY DEF BackendInv, BackendShape, Standing
<1>2. /\ where'[t] = w /\ op'[t] = o /\ result'[t] = r
      /\ \A u \in Threads \ {t} : where'[u] = where[u] /\ op'[u] = op[u] /\ result'[u] = result[u]
  BY DEF BackendInv, BackendShape
<1>3. \A u \in Threads : /\ where'[u] \in Inside <=> where[u] \in Inside
                         /\ where'[u] \in Inside => where'[u] = where[u]
                         /\ where[u] \in Inside => where'[u] = where[u]
  BY <1>2 DEF Inside, Outside
<1>4. OneHolds' /\ Once'
  BY <1>3 DEF BackendInv, OneHolds, Once, Standing
<1>a. /\ \A q : B!Answer(q)' = B!Answer(q)
      /\ Movable' = Movable
      /\ \A q : Place(q)' = Place(q)
  BY AnswersStay DEF Standing
<1>5. InPlace' /\ Moving'
  BY <1>3, <1>a DEF BackendInv, InPlace, Moving, Inside, Standing, Place, Copied, RegionCopied, EndpointCopied
<1>6. (Vouching' <=> Vouching) /\ (Amid' <=> Amid)
  BY <1>3 DEF Vouching, Amid, Inside
<1>7. Follows' /\ Straight'
  BY <1>6 DEF BackendInv, Follows, Straight, Standing, Copied, RegionCopied, EndpointCopied
<1>8. Refused'
  BY <1>3, <1>a DEF BackendInv, Refused, Standing, Copied, Inside, B!Answer
<1>9. Vouched'
  BY DEF BackendInv, Vouched, Standing, RegionCopied
<1>10. ThroughVerified'
  BY <1>2 DEF BackendInv, ThroughVerified, Standing
<1>11. B!PreflightShields'
  BY <1>2, <1>9, <1>10
     DEF BackendInv, B!PreflightIsRight, B!PreflightShields, ThroughVerified, Vouched, Fair, Standing
<1>12. B!TurnedAwayForCause'
  <2>1. faulty > 0 => faulty' > 0
      BY DEF BackendInv, BackendShape
  <2>2. B!Answer(client)' = B!Answer(client)
      BY DEF Standing, B!Answer
  <2> QED
      BY <1>2, <2>1, <2>2
         DEF BackendInv, B!PreflightIsRight, B!TurnedAwayForCause, Fair, Standing
<1>13. B!RefusalIsTrue'
  BY DEF BackendInv, B!PreflightIsRight, B!RefusalIsTrue, Standing
<1>14. B!UrlsStayOurs'
  BY DEF BackendInv, B!UrlsStayOurs, B!KeyFromUrl, Standing
<1> QED
  BY <1>1, <1>4, <1>5, <1>7, <1>8, <1>9, <1>10, <1>11, <1>12, <1>13, <1>14
     DEF BackendInv, B!PreflightIsRight

(* A call begins, outside the lock. *)
LEMMA CallKept ==
  ASSUME Named, BackendInv, NEW t \in Threads, B!Call(t)
  PROVE  BackendInv'
<1>1. PICK o \in B!Gated \cup {"aget"} :
        /\ op' = [op EXCEPT ![t] = o]
        /\ where' = [where EXCEPT ![t] = IF o \in B!Gated THEN "peek" ELSE "go"]
  BY Zenon DEF B!Call, B!Goes
<1>2. /\ where[t] = "idle" /\ result' = [result EXCEPT ![t] = "none"]
      /\ Standing /\ copy' = copy /\ faulty' = faulty /\ urls' = urls
  BY DEF B!Call, B!preflight, B!made, Standing
<1> DEFINE w == IF o \in B!Gated THEN "peek" ELSE "go"
<1>3. w \in Outside /\ w # "check" /\ (w = "go" => o = "aget") /\ o \in Ops /\ "none" \in Outcomes
  BY <1>1 DEF Outside, Ops, Outcomes
<1>4. where[t] \notin Inside /\ Fair(o, "none")
  BY <1>2 DEF Inside, Fair
<1> HIDE DEF w
<1>5. where' = [where EXCEPT ![t] = w]
  BY <1>1 DEF w
<1> QED
  BY <1>1, <1>2, <1>3, <1>4, <1>5, OutsideStep

(* What a step outside the lock does when it is in an operation: it goes   *)
(* on, through the preflight or not, or the operation ends.                *)
Proceeds(t, w, r) ==
  /\ where' = [where EXCEPT ![t] = w]
  /\ result' = [result EXCEPT ![t] = r]
  /\ w \in Outside /\ r \in Outcomes

(* What the preflight is about is kept by such a step. *)
LEMMA Continues ==
  ASSUME Named, BackendInv, NEW t \in Threads, NEW w, NEW r,
         Proceeds(t, w, r), where[t] \notin Inside, UNCHANGED op,
         w = "check" => verified,
         w = "go" /\ op[t] # "aget" => verified /\ refusal = B!NoError,
         Fair(op[t], r), Standing, copy' = copy, faulty' \in {faulty, faulty + 1},
         urls' \subseteq urls \cup {client}
  PROVE  BackendInv'
<1>1. op[t] \in Ops /\ op' = [op EXCEPT ![t] = op[t]]
  BY DEF BackendInv, BackendShape
<1> QED
  BY <1>1, OutsideStep DEF Proceeds

(* Of t's last outcome nothing unfair is said. *)
LEMMA Unsaid ==
  ASSUME BackendInv, NEW t \in Threads
  PROVE  /\ result[t] \in Outcomes /\ result = [result EXCEPT ![t] = result[t]]
         /\ Fair(op[t], result[t])
         /\ where[t] = "go" /\ op[t] # "aget" =>
              verified /\ refusal = B!NoError /\ (client = bucket.home \/ mixed)
         /\ where[t] = "check" => verified
BY DEF BackendInv, BackendShape, B!PreflightIsRight, B!PreflightShields, B!TurnedAwayForCause,
       ThroughVerified, Vouched, Fair

(* The fast path looks at what is verified, then at the refusal. *)
LEMMA PreflightKept ==
  ASSUME Named, BackendInv, NEW t \in Threads,
         B!Peek(t) \/ B!Check(t) \/ (B!Acquire(t) /\ verified)
  PROVE  BackendInv'
<1>1. /\ where[t] \in {"peek", "check", "wait"} /\ UNCHANGED op
      /\ Standing /\ copy' = copy /\ faulty' = faulty /\ urls' = urls
  BY DEF B!Peek, B!Check, B!Acquire, B!preflight, B!made, Standing
<1>2. where[t] \notin Inside
  BY <1>1 DEF Inside
<1>3. \/ Proceeds(t, IF verified THEN "check" ELSE "wait", result[t])
      \/ verified /\ refusal = B!NoError /\ Proceeds(t, "go", result[t])
      \/ Proceeds(t, "idle", "partial")
      \/ refusal # B!NoError /\ Proceeds(t, "idle", "preflight")
  <2>1. CASE B!Peek(t)
      BY <2>1, Unsaid DEF B!Peek, B!Goes, Proceeds, Outside
  <2>2. CASE B!Check(t)
      <3>1. verified
          BY <2>2, Unsaid DEF B!Check
      <3> QED
          BY <2>2, <3>1, Unsaid DEF B!Check, B!Goes, B!Fails, B!Ends, Proceeds, Outside, Outcomes
  <2>3. CASE B!Acquire(t) /\ verified
      BY <2>3, Unsaid DEF B!Acquire, B!Goes, B!Fails, B!Ends, Proceeds, Outside, Outcomes
  <2> QED
      BY <2>1, <2>2, <2>3
<1>4. Fair(op[t], "partial") /\ (refusal # B!NoError => Fair(op[t], "preflight"))
  BY DEF Fair
<1> QED
  BY <1>1, <1>2, <1>3, <1>4, Continues, Unsaid

(* Past the preflight a request goes where the client points. *)
LEMMA OperationKept ==
  ASSUME Named, BackendInv, NEW t \in Threads,
         \/ B!Request(t) \/ B!RequestFails(t) \/ B!MakeUrl(t)
         \/ B!ListPage(t) \/ B!ListFails(t) \/ B!DeleteBatch(t)
  PROVE  BackendInv'
<1>1. /\ where[t] = "go" /\ UNCHANGED op
      /\ Standing /\ copy' = copy /\ urls' \subseteq urls \cup {client}
  BY DEF B!Request, B!Serve, B!RequestFails, B!MakeUrl, B!ListPage, B!ListFails, B!DeleteBatch,
         B!preflight, B!made, Standing
<1>f. faulty' \in {faulty, faulty + 1}
  BY DEF B!Request, B!RequestFails, B!MakeUrl, B!ListPage, B!ListFails, B!DeleteBatch, B!Fault
<1>2. where[t] \notin Inside
  BY <1>1 DEF Inside
<1>3. /\ op[t] # "aget" => verified /\ refusal = B!NoError /\ (client = bucket.home \/ mixed)
      /\ result[t] \in Outcomes /\ result = [result EXCEPT ![t] = result[t]]
      /\ Fair(op[t], result[t])
  BY <1>1, Unsaid
<1>t. B!Target(t) # bucket.home => Fair(op[t], "redirect")
  BY <1>3 DEF B!Target, Fair
<1>4. \/ \E r \in Outcomes \ {"redirect", "preflight"} : Proceeds(t, "idle", r)
      \/ B!Target(t) # bucket.home /\ Proceeds(t, "idle", "redirect")
      \/ Proceeds(t, "peek", result[t])
      \/ Proceeds(t, "go", result[t])
  <2>1. CASE B!Request(t)
      <3>1. PICK k \in B!Keys : B!Serve(t, k)
          BY <2>1 DEF B!Request
      <3>2. \E r \in {"ok", "no", "error"} : B!Ends(t, r)
          BY <3>1 DEF B!Serve
      <3> QED
          BY <3>2 DEF B!Ends, B!Goes, Proceeds, Outside, Outcomes
  <2>2. CASE B!RequestFails(t)
      <3>1. \/ B!Ends(t, "error")
            \/ B!Ends(t, "redirect") /\ B!Target(t) # bucket.home
          BY <2>2 DEF B!RequestFails
      <3> QED
          BY <3>1 DEF B!Ends, B!Goes, Proceeds, Outside, Outcomes
  <2>3. CASE B!MakeUrl(t)
      <3>1. op[t] # "aget" /\ B!Target(t) = client
          BY <2>3 DEF B!MakeUrl, B!Target
      <3>2. \/ B!Ends(t, "ok")
            \/ B!Ends(t, "redirect") /\ B!Target(t) # bucket.home
          BY <2>3, <3>1 DEF B!MakeUrl
      <3> QED
          BY <3>2 DEF B!Ends, B!Goes, Proceeds, Outside, Outcomes
  <2>4. CASE B!ListPage(t)
      <3>1. \/ B!Goes(t, "peek") /\ UNCHANGED result
            \/ B!Ends(t, "ok")
          BY <2>4 DEF B!ListPage
      <3> QED
          BY <3>1, <1>3 DEF B!Ends, B!Goes, Proceeds, Outside, Outcomes
  <2>5. CASE B!ListFails(t)
      <3>2. \/ B!Ends(t, "partial")
            \/ B!Ends(t, "redirect") /\ B!Target(t) # bucket.home
          BY <2>5 DEF B!ListFails
      <3> QED
          BY <3>2 DEF B!Ends, B!Goes, Proceeds, Outside, Outcomes
  <2>6. CASE B!DeleteBatch(t)
      <3>1. \/ (B!Goes(t, "peek") \/ B!Goes(t, "go")) /\ UNCHANGED result
            \/ B!Ends(t, "ok")
          BY <2>6 DEF B!DeleteBatch
      <3> QED
          BY <3>1, <1>3 DEF B!Ends, B!Goes, Proceeds, Outside, Outcomes
  <2> QED
      BY <2>1, <2>2, <2>3, <2>4, <2>5, <2>6
<1>5. \A r \in Outcomes \ {"redirect", "preflight"} : Fair(op[t], r)
  BY DEF Fair
<1> QED
  BY <1>1, <1>f, <1>2, <1>3, <1>t, <1>4, <1>5, Continues

-----------------------------------------------------------------------------
(* Where the threads are after one of them moved. *)
LEMMA ThreadMoved ==
  ASSUME BackendInv, NEW t \in Threads, NEW w, where' = [where EXCEPT ![t] = w]
  PROVE  where'[t] = w /\ \A u \in Threads \ {t} : where'[u] = where[u]
BY DEF BackendInv, BackendShape

(* Who holds the lock is alone with the preflight: nobody else is inside,  *)
(* about to look at a verified region, or past a preflight.                *)
LEMMA HolderIsAlone ==
  ASSUME BackendInv, NEW t \in Threads, where[t] \in Inside
  PROVE  /\ lock = t /\ ~verified
         /\ \A u \in Threads \ {t} : where[u] \notin Inside
         /\ \A u \in Threads : where[u] # "check" /\ (where[u] = "go" => op[u] = "aget")
<1>1. lock = t /\ \A u \in Threads \ {t} : where[u] \notin Inside
  BY DEF BackendInv, OneHolds
<1>2. ~verified
  BY DEF BackendInv, Once
<1>3. \A u \in Threads : where[u] # "check" /\ (where[u] = "go" => op[u] = "aget")
  BY <1>2 DEF BackendInv, ThroughVerified
<1> QED
  BY <1>1, <1>2, <1>3

(* The thread that holds the lock, or takes it, moves on. *)
LEMMA HolderMoves ==
  ASSUME Named, BackendInv, NEW t \in Threads, NEW w \in Inside \cup Outside,
         \A u \in Threads \ {t} : where[u] \notin Inside,
         where' = [where EXCEPT ![t] = w], lock' = IF w \in Inside THEN t ELSE B!Nobody
  PROVE  /\ where'[t] = w /\ \A u \in Threads \ {t} : where'[u] = where[u] /\ where'[u] \notin Inside
         /\ where' \in [Threads -> Outside \cup Inside]
         /\ OneHolds'
         /\ Amid' <=> w \in {"point", "swap"}
         /\ Vouching' <=> w = "vouch"
<1>1. where'[t] = w /\ \A u \in Threads \ {t} : where'[u] = where[u] /\ where'[u] \notin Inside
  BY ThreadMoved
<1>2. OneHolds'
  BY <1>1 DEF OneHolds, Named, B!Nobody
<1>3. (Amid' <=> w \in {"point", "swap"}) /\ (Vouching' <=> w = "vouch")
  BY <1>1 DEF Amid, Vouching, Inside
<1> QED
  BY <1>1, <1>2, <1>3 DEF BackendInv, BackendShape

(* The lock is taken to verify. *)
LEMMA AcquireKept ==
  ASSUME Named, BackendInv, NEW t \in Threads, B!Acquire(t), ~verified
  PROVE  BackendInv'
<1>1. /\ where[t] = "wait" /\ lock = B!Nobody /\ lock' = t /\ where' = [where EXCEPT ![t] = "head"]
      /\ result' = result /\ op' = op /\ bucket' = bucket /\ config' = config
      /\ region' = region /\ endpoint' = endpoint /\ client' = client
      /\ verified' = verified /\ refusal' = refusal
      /\ native' = native /\ mixed' = mixed /\ copy' = copy /\ faulty' = faulty /\ urls' = urls
  BY DEF B!Acquire, B!Goes, B!made
<1>2. \A u \in Threads : where[u] \notin Inside
  BY <1>1 DEF BackendInv, OneHolds, B!Nobody, Named
<1>3. /\ OneHolds' /\ ~Amid' /\ ~Vouching' /\ ~Amid /\ ~Vouching
      /\ where' \in [Threads -> Outside \cup Inside]
      /\ where'[t] = "head" /\ \A u \in Threads \ {t} : where'[u] = where[u] /\ where'[u] \notin Inside
  <2>1. "head" \in Inside
      BY DEF Inside
  <2> QED
      BY <1>1, <1>2, <2>1, HolderMoves DEF Amid, Vouching, Inside
<1>a. /\ \A q : B!Answer(q)' = B!Answer(q)
      /\ Movable' = Movable
      /\ \A q : Place(q)' = Place(q)
  BY <1>1, AnswersStay
<1>5. BackendShape' /\ Once'
  BY <1>1, <1>3 DEF BackendInv, BackendShape, Once
<1>6. InPlace'
  BY <1>1, <1>a DEF BackendInv, InPlace, Place, Copied, RegionCopied, EndpointCopied
<1>7. Moving'
  BY <1>3 DEF Moving, Inside
<1>8. Follows' /\ Straight'
  BY <1>1, <1>3 DEF BackendInv, Follows, Straight, Copied, RegionCopied, EndpointCopied
<1>9. Refused' /\ Vouched'
  BY <1>1, <1>3, <1>a DEF BackendInv, Refused, Vouched, Copied, RegionCopied, Inside, B!Answer
<1>10. ThroughVerified'
  BY <1>1, <1>3 DEF BackendInv, ThroughVerified
<1>11. B!PreflightIsRight'
  <2>1. B!Answer(client)' = B!Answer(client)
      BY <1>1 DEF B!Answer
  <2> QED
      BY <1>1, <1>3, <2>1 DEF BackendInv, B!PreflightIsRight, B!PreflightShields, B!RefusalIsTrue,
                         B!TurnedAwayForCause
<1>12. B!UrlsStayOurs'
  BY <1>1 DEF BackendInv, B!UrlsStayOurs, B!KeyFromUrl
<1> QED
  BY <1>3, <1>5, <1>6, <1>7, <1>8, <1>9, <1>10, <1>11, <1>12 DEF BackendInv

(* What a HeadBucket says of the region it is sent to. *)
LEMMA AnswersTell ==
  ASSUME Named, BackendInv, NEW r \in Regions
  PROVE  /\ B!Answer(r) = "200" <=> bucket.home = r /\ bucket.allowed
         /\ B!Answer(r) = "301" => bucket.home \in Regions
         /\ B!Answer(r) = "404" => bucket.home # r
<1>1. bucket.elsewhere[r] \in {"301", "403", "404"}
  BY DEF BackendInv, BackendShape
<1>2. CASE bucket.home = r
  BY <1>2 DEF B!Answer, Named, B!Nobody
<1>3. CASE bucket.home # r /\ bucket.home = B!Nobody /\ bucket.elsewhere[r] = "301"
  BY <1>3 DEF B!Answer
<1>4. CASE bucket.home # r /\ ~(bucket.home = B!Nobody /\ bucket.elsewhere[r] = "301")
  <2>1. B!Answer(r) = bucket.elsewhere[r]
      BY <1>4 DEF B!Answer
  <2>2. bucket.elsewhere[r] = "301" => bucket.home \in Regions
      BY <1>4 DEF BackendInv, BackendShape
  <2> QED
      BY <2>1, <2>2, <1>1, <1>4
<1> QED
  BY <1>2, <1>3, <1>4

(* What the probes of the other regions make of a refusal is true. *)
LEMMA ProbesTell ==
  ASSUME Named, BackendInv, NEW r \in Regions, NEW blips \in SUBSET Regions,
         NEW said, said = B!Probed(r, blips)
  PROVE  /\ said # B!NoError
         /\ said.kind = "lives_in" => said.region = bucket.home
         /\ said.kind = "missing" => bucket.home \in {B!Nobody, r}
<1> DEFINE others == Regions \ {r}
           heard(q) == IF q \in blips THEN "silent" ELSE B!Answer(q)
           match == {q \in others : heard(q) = "200"}
<1>c. \A S : B!Cardinality(S) = Cardinality(S)
  BY DEF B!Cardinality, Cardinality
<1>1. said = IF B!Cardinality(match) = 1
             THEN [kind |-> "lives_in", region |-> CHOOSE q \in match : TRUE]
             ELSE IF others # {} /\ \A q \in others : heard(q) = "404"
                  THEN [kind |-> "missing", region |-> {}]
                  ELSE [kind |-> "generic", region |-> {}]
  BY Zenon DEF B!Probed
<1>2. ASSUME NEW q \in match PROVE q = bucket.home
  <2>1. q \in Regions /\ B!Answer(q) = "200"
      OBVIOUS
  <2> QED
      BY <2>1, AnswersTell
<1>3. B!Cardinality(match) = 1 => (CHOOSE q \in match : TRUE) = bucket.home
  <2>1. B!Cardinality(match) = 1 => match # {}
      BY <1>c, FS_EmptySet
  <2> HIDE DEF match
  <2> QED
      BY <1>2, <2>1
<1>4. others # {} /\ (\A q \in others : heard(q) = "404") => bucket.home \in {B!Nobody, r}
  <2> SUFFICES ASSUME \A q \in others : heard(q) = "404", bucket.home \in others
               PROVE  FALSE
      BY DEF BackendInv, BackendShape
  <2>1. B!Answer(bucket.home) = "404"
      OBVIOUS
  <2> QED
      BY <2>1, AnswersTell
<1> HIDE DEF match, others, heard
<1> QED
  BY <1>1, <1>3, <1>4 DEF B!NoError

(* Where the client points the answer is one of these, and a place that is *)
(* not where it was told to point is the bucket's. *)
LEMMA ClientsPlace ==
  ASSUME Named, BackendInv
  PROVE  /\ region \in Regions /\ endpoint \in Regions /\ client \in Regions
         /\ Movable => config.region # bucket.home
         /\ \A r : Place(r) /\ r # config.region => Movable /\ r = bucket.home
         /\ client # config.region => client = bucket.home
         /\ B!Answer(client) # "301" /\ client = config.region => ~Movable
<1>1. \A r : Place(r) => r \in Regions
  BY DEF BackendInv, BackendShape, Place, Movable
<1>2. Place(region) /\ Place(endpoint) /\ Place(client)
  BY DEF BackendInv, InPlace
<1>3. Movable => config.region # bucket.home
  <2> SUFFICES ASSUME Movable PROVE B!Answer(bucket.home) # "301"
      BY DEF Movable
  <2> QED
      BY DEF B!Answer
<1> QED
  BY <1>1, <1>2, <1>3 DEF Place, Movable

(* How a HeadBucket ends. *)
LEMMA HeadOutcomes ==
  ASSUME BackendInv, NEW t \in Threads, B!HeadBucket(t)
  PROVE  \/ /\ B!Answer(client) = "200" /\ verified' = TRUE /\ lock' = B!Nobody
            /\ where' = [where EXCEPT ![t] = "go"] /\ refusal' = refusal /\ result' = result
         \/ /\ B!Answer(client) = "301" /\ config.b2 /\ verified' = verified /\ lock' = lock
            /\ where' = [where EXCEPT ![t] = "move"] /\ refusal' = refusal /\ result' = result
         \/ /\ verified' = verified /\ lock' = B!Nobody /\ refusal' = refusal
            /\ where' = [where EXCEPT ![t] = "idle"]
            /\ \E r \in {"error", "preflight", "partial"} :
                 /\ result' = [result EXCEPT ![t] = r]
                 /\ r = "preflight" => \/ faulty' > 0
                                       \/ /\ B!Answer(client) = "301"
                                          /\ ~config.b2 \/ bucket.home = region
         \/ /\ B!Answer(client) \in {"403", "404"} /\ verified' = verified /\ lock' = lock
            /\ where' = [where EXCEPT ![t] = "seal"] /\ result' = result
            /\ \/ refusal' = [kind |-> "generic", region |-> {}]
               \/ \E blips \in SUBSET Regions : refusal' = B!Probed(client, blips)
<1> DEFINE moves == config.b2 /\ bucket.home # region
<1>1. PICK answer \in {B!Answer(client), "503", "unreachable"} :
       /\ IF answer \in {"503", "unreachable"} THEN B!Fault ELSE UNCHANGED faulty
       /\ \/ answer = "200" /\ B!Verified /\ B!Goes(t, "go") /\ UNCHANGED <<refusal, result>>
          \/ /\ answer = "301" /\ moves /\ B!Goes(t, "move")
             /\ UNCHANGED <<verified, refusal, lock, result>>
          \/ /\ answer = "unreachable"
             /\ lock' = B!Nobody /\ B!Fails(t, "error") /\ UNCHANGED <<verified, refusal>>
          \/ /\ answer \in {"403", "404", "503"} \cup (IF moves THEN {} ELSE {"301"})
             /\ IF B!Sticky(answer)
                THEN /\ \E blips \in SUBSET Regions :
                          refusal' = IF config.b2 /\ answer = "403" THEN B!Probed(client, blips)
                                     ELSE [kind |-> "generic", region |-> {}]
                     /\ B!Goes(t, "seal") /\ UNCHANGED <<lock, result>>
                ELSE lock' = B!Nobody /\ B!Fails(t, "preflight") /\ UNCHANGED refusal
             /\ UNCHANGED verified
  BY Zenon DEF B!HeadBucket
<1>2. CASE answer = "200" /\ B!Verified /\ B!Goes(t, "go") /\ UNCHANGED <<refusal, result>>
  BY <1>2, <1>1 DEF B!Verified, B!Goes
<1>3. CASE /\ answer = "301" /\ moves /\ B!Goes(t, "move")
           /\ UNCHANGED <<verified, refusal, lock, result>>
  BY <1>3, <1>1 DEF B!Goes
<1>4. CASE lock' = B!Nobody /\ B!Fails(t, "error") /\ UNCHANGED <<verified, refusal>>
  BY <1>4 DEF B!Fails, B!Ends, B!Goes
<1>5. CASE B!Sticky(answer) /\ B!Goes(t, "seal") /\ UNCHANGED <<lock, result>> /\ UNCHANGED verified
           /\ \E blips \in SUBSET Regions :
                refusal' = IF config.b2 /\ answer = "403" THEN B!Probed(client, blips)
                           ELSE [kind |-> "generic", region |-> {}]
  <2>1. answer = B!Answer(client) /\ answer \in {"403", "404"}
      BY <1>1, <1>5 DEF B!Sticky
  <2>2. \/ refusal' = [kind |-> "generic", region |-> {}]
        \/ \E blips \in SUBSET Regions : refusal' = B!Probed(client, blips)
      BY <1>5
  <2> QED
      BY <1>5, <2>1, <2>2 DEF B!Goes
<1>6. CASE /\ answer \in {"403", "404", "503"} \cup (IF moves THEN {} ELSE {"301"}) /\ ~B!Sticky(answer)
           /\ lock' = B!Nobody /\ B!Fails(t, "preflight") /\ UNCHANGED refusal /\ UNCHANGED verified
  <2>1. answer = "503" \/ (answer = "301" /\ ~moves)
      BY <1>6 DEF B!Sticky
  <2>2. CASE answer = "503"
    <3>1. faulty' > 0
        BY <1>1, <2>2 DEF B!Fault, BackendInv, BackendShape
    <3> QED
        BY <1>6, <3>1 DEF B!Fails, B!Ends, B!Goes
  <2>3. CASE answer = "301" /\ ~moves
    <3>1. B!Answer(client) = "301" /\ (~config.b2 \/ bucket.home = region)
        BY <1>1, <2>3
    <3> QED
        BY <1>6, <3>1 DEF B!Fails, B!Ends, B!Goes
  <2> QED
      BY <2>1, <2>2, <2>3
<1> HIDE DEF moves
<1> QED
  BY <1>1, <1>2, <1>3, <1>4, <1>5, <1>6

(* What comes of a HeadBucket, under the lock. *)
LEMMA HeadKept ==
  ASSUME Named, BackendInv, NEW t \in Threads, B!HeadBucket(t)
  PROVE  BackendInv'
<1>1. /\ where[t] = "head" /\ bucket' = bucket /\ config' = config /\ region' = region
      /\ endpoint' = endpoint /\ client' = client /\ native' = native /\ mixed' = mixed
      /\ copy' = copy /\ op' = op /\ urls' = urls
  BY DEF B!HeadBucket, B!made
<1>f. faulty' \in Nat /\ (faulty > 0 => faulty' > 0)
  <2>1. faulty' = faulty \/ faulty' = faulty + 1
      BY DEF B!HeadBucket, B!Fault
  <2> QED
      BY <2>1 DEF BackendInv, BackendShape
<1>2. /\ lock = t /\ ~verified
      /\ \A u \in Threads \ {t} : where[u] \notin Inside
      /\ \A u \in Threads : where[u] # "check" /\ (where[u] = "go" => op[u] = "aget")
  BY <1>1, HolderIsAlone DEF Inside
<1>3. ~Amid /\ ~Vouching
  BY <1>1, <1>2 DEF Amid, Vouching, Inside
<1>4. /\ client \in Regions /\ (Movable => config.region # bucket.home)
      /\ client # config.region => client = bucket.home
      /\ B!Answer(client) # "301" /\ client = config.region => ~Movable
      /\ \A r : Place(r) /\ r # config.region => Movable /\ r = bucket.home
  BY ClientsPlace
<1>a. /\ \A q : B!Answer(q)' = B!Answer(q)
      /\ Movable' = Movable
      /\ \A q : Place(q)' = Place(q)
  BY <1>1, AnswersStay
<1>b. B!Answer(client)' = B!Answer(client)
  BY <1>1 DEF B!Answer
<1>u. B!UrlsStayOurs'
  BY <1>1 DEF BackendInv, B!UrlsStayOurs, B!KeyFromUrl
<1>p. InPlace'
  BY <1>1, <1>a DEF BackendInv, InPlace, Place, Copied, RegionCopied, EndpointCopied
<1>s. ASSUME NEW w \in {"go", "move", "idle", "seal"}, where' = [where EXCEPT ![t] = w],
             lock' = IF w \in Inside THEN t ELSE B!Nobody,
             result' \in [Threads -> Outcomes], verified' \in BOOLEAN
      PROVE  /\ where'[t] = w /\ \A u \in Threads \ {t} : where'[u] = where[u] /\ where'[u] \notin Inside
             /\ OneHolds' /\ ~Amid' /\ ~Vouching' /\ BackendShape' /\ Straight'
  <2>1. w \in Inside \cup Outside
      BY DEF Inside, Outside
  <2>2. /\ where'[t] = w /\ \A u \in Threads \ {t} : where'[u] = where[u] /\ where'[u] \notin Inside
        /\ where' \in [Threads -> Outside \cup Inside]
        /\ OneHolds' /\ ~Amid' /\ ~Vouching'
      BY <1>2, <1>s, <2>1, HolderMoves
  <2>3. BackendShape'
      BY <1>1, <1>f, <1>s, <2>2 DEF BackendInv, BackendShape
  <2>4. Straight'
      BY <1>1, <1>3, <2>2 DEF BackendInv, Straight, Copied, RegionCopied, EndpointCopied
  <2> QED
      BY <2>2, <2>3, <2>4
<1>g. CASE /\ B!Answer(client) = "200" /\ verified' = TRUE /\ lock' = B!Nobody
           /\ where' = [where EXCEPT ![t] = "go"] /\ refusal' = refusal /\ result' = result
  <2>1. client = bucket.home /\ refusal = B!NoError
      BY <1>g, <1>4, AnswersTell DEF BackendInv, Refused
  <2>2. /\ where'[t] = "go" /\ \A u \in Threads \ {t} : where'[u] = where[u] /\ where'[u] \notin Inside
        /\ OneHolds' /\ ~Amid' /\ ~Vouching' /\ BackendShape' /\ Straight'
      BY <1>g, <1>s DEF BackendInv, BackendShape, Inside
  <2>3. \A u \in Threads : where'[u] \notin Inside /\ where'[u] # "check"
      BY <1>2, <2>2 DEF Inside
  <2>4. Once' /\ Moving' /\ ThroughVerified'
      BY <1>2, <1>g, <2>1, <2>3 DEF Once, Moving, ThroughVerified, Inside
  <2>5. Follows' /\ Refused' /\ Vouched'
      BY <1>1, <1>g, <2>1, <2>3 DEF BackendInv, Follows, Refused, Vouched, Copied, EndpointCopied, Inside
  <2>6. B!PreflightIsRight'
      BY <1>1, <1>b, <1>f, <1>g, <2>1
         DEF BackendInv, B!PreflightIsRight, B!PreflightShields, B!RefusalIsTrue, B!TurnedAwayForCause
  <2> QED
      BY <1>p, <1>u, <2>2, <2>4, <2>5, <2>6 DEF BackendInv
<1>h. CASE /\ B!Answer(client) = "301" /\ config.b2 /\ verified' = verified /\ lock' = lock
           /\ where' = [where EXCEPT ![t] = "move"] /\ refusal' = refusal /\ result' = result
  <2>1. refusal = B!NoError /\ bucket.home \in Regions /\ client # bucket.home
    <3>1. client # bucket.home
        BY <1>h DEF B!Answer
    <3> QED
        BY <1>h, <1>4, <3>1, AnswersTell DEF BackendInv, Refused
  <2>r. Movable /\ client = config.region
      BY <1>h, <1>4, <2>1 DEF Movable
  <2>2. /\ where'[t] = "move" /\ \A u \in Threads \ {t} : where'[u] = where[u] /\ where'[u] \notin Inside
        /\ OneHolds' /\ ~Amid' /\ ~Vouching' /\ BackendShape' /\ Straight'
      BY <1>h, <1>2, <1>s DEF BackendInv, BackendShape, Inside
  <2>3. \A u \in Threads : /\ where'[u] # "check" /\ (where'[u] = "go" => op[u] = "aget")
                           /\ where'[u] \in Inside => u = t
      BY <1>2, <2>2
  <2>4. Once' /\ Moving' /\ ThroughVerified'
      BY <1>1, <1>2, <1>a, <1>h, <2>1, <2>r, <2>2, <2>3 DEF Once, Moving, ThroughVerified, Inside
  <2>5. Follows' /\ Refused' /\ Vouched'
      BY <1>1, <1>3, <1>h, <2>1, <2>2, <2>3
         DEF BackendInv, Follows, Refused, Vouched, Copied, EndpointCopied, Inside
  <2>6. B!PreflightIsRight'
      BY <1>1, <1>b, <1>f, <1>h, <2>3
         DEF BackendInv, B!PreflightIsRight, B!PreflightShields, B!RefusalIsTrue, B!TurnedAwayForCause
  <2> QED
      BY <1>p, <1>u, <2>2, <2>4, <2>5, <2>6 DEF BackendInv
<1>i. CASE /\ verified' = verified /\ lock' = B!Nobody /\ refusal' = refusal
           /\ where' = [where EXCEPT ![t] = "idle"]
           /\ \E r \in {"error", "preflight", "partial"} :
                /\ result' = [result EXCEPT ![t] = r]
                /\ r = "preflight" => \/ faulty' > 0
                                      \/ /\ B!Answer(client) = "301"
                                         /\ ~config.b2 \/ bucket.home = region
  <2>1. PICK r \in {"error", "preflight", "partial"} :
          /\ result' = [result EXCEPT ![t] = r]
          /\ r = "preflight" => \/ faulty' > 0
                                \/ /\ B!Answer(client) = "301"
                                   /\ ~config.b2 \/ bucket.home = region
      BY <1>i
  <2>2. /\ where'[t] = "idle" /\ \A u \in Threads \ {t} : where'[u] = where[u] /\ where'[u] \notin Inside
        /\ OneHolds' /\ ~Amid' /\ ~Vouching' /\ BackendShape' /\ Straight'
    <3>1. result' \in [Threads -> Outcomes]
        BY <2>1 DEF BackendInv, BackendShape, Outcomes
    <3>2. verified' \in BOOLEAN
        BY <1>i DEF BackendInv, BackendShape
    <3> QED
        BY <1>i, <1>s, <3>1, <3>2 DEF Inside
  <2>3. \A u \in Threads : /\ where'[u] \notin Inside /\ where'[u] # "check"
                           /\ where'[u] = "go" => op[u] = "aget"
      BY <1>2, <2>2 DEF Inside
  <2>4. Once' /\ Moving' /\ ThroughVerified'
      BY <1>1, <1>2, <1>i, <2>3 DEF Once, Moving, ThroughVerified, Inside
  <2>5. Follows' /\ Refused' /\ Vouched'
      BY <1>1, <1>3, <1>b, <1>i, <2>3
         DEF BackendInv, Follows, Refused, Vouched, Copied, EndpointCopied, Inside
  <2>m. B!Answer(client) = "301" /\ bucket.home = region => mixed
    <3>1. B!Answer(client) = "301" => client # bucket.home
        BY DEF B!Answer
    <3> QED
        BY <1>3, <3>1 DEF BackendInv, Straight
  <2>6. /\ \A u \in Threads : result'[u] = "redirect" => result[u] = "redirect"
        /\ \A u \in Threads : result'[u] = "preflight" => result[u] = "preflight" \/ r = "preflight"
      BY <2>1 DEF BackendInv, BackendShape
  <2>7. B!PreflightShields' /\ B!RefusalIsTrue'
      BY <1>1, <1>i, <2>3, <2>6
         DEF BackendInv, B!PreflightIsRight, B!PreflightShields, B!RefusalIsTrue
  <2>8. B!TurnedAwayForCause'
      BY <1>1, <1>b, <1>f, <1>i, <2>1, <2>m, <2>6
         DEF BackendInv, B!PreflightIsRight, B!TurnedAwayForCause
  <2> QED
      BY <1>p, <1>u, <2>2, <2>4, <2>5, <2>7, <2>8 DEF BackendInv, B!PreflightIsRight
<1>j. CASE /\ B!Answer(client) \in {"403", "404"} /\ verified' = verified /\ lock' = lock
           /\ where' = [where EXCEPT ![t] = "seal"] /\ result' = result
           /\ \/ refusal' = [kind |-> "generic", region |-> {}]
              \/ \E blips \in SUBSET Regions : refusal' = B!Probed(client, blips)
  <2>1. ~(bucket.allowed /\ bucket.home = client)
      BY <1>j, <1>4, AnswersTell
  <2>2. /\ where'[t] = "seal" /\ \A u \in Threads \ {t} : where'[u] = where[u] /\ where'[u] \notin Inside
        /\ OneHolds' /\ ~Amid' /\ ~Vouching' /\ BackendShape' /\ Straight'
      BY <1>j, <1>2, <1>s DEF BackendInv, BackendShape, Inside
  <2>r. /\ refusal' # B!NoError
        /\ refusal'.kind = "lives_in" => refusal'.region = bucket.home
        /\ refusal'.kind = "missing" => bucket.home \in {B!Nobody, client}
      <3>1. CASE refusal' = [kind |-> "generic", region |-> {}]
          BY <3>1 DEF B!NoError
      <3>2. CASE \E blips \in SUBSET Regions : refusal' = B!Probed(client, blips)
          BY <3>2, <1>4, ProbesTell
      <3> QED
          BY <1>j, <3>1, <3>2
  <2>c. Copied => copy.client = client
    <3>1. CASE client = config.region
      <4>1. ~Movable
          BY <1>j, <1>4, <3>1
      <4> QED
          BY <1>4, <3>1, <4>1 DEF BackendInv, InPlace
    <3>2. CASE client # config.region
        BY <1>2, <1>3, <3>2 DEF BackendInv, Follows
    <3> QED
        BY <3>1, <3>2
  <2>3. \A u \in Threads : /\ where'[u] # "check" /\ (where'[u] = "go" => op[u] = "aget")
                           /\ where'[u] \in Inside => u = t
      BY <1>2, <2>2
  <2>4. Once' /\ Moving' /\ ThroughVerified'
      BY <1>1, <1>2, <1>j, <2>2, <2>3 DEF Once, Moving, ThroughVerified, Inside
  <2>5. Follows' /\ Vouched'
      BY <1>1, <1>2, <1>3, <1>j, <2>2 DEF BackendInv, Follows, Vouched, Copied, EndpointCopied
  <2>6. Refused'
      BY <1>1, <1>b, <1>j, <2>c, <2>r DEF Refused, Copied
  <2>7. B!RefusalIsTrue'
      BY <1>1, <2>1, <2>r DEF B!RefusalIsTrue
  <2>8. B!PreflightShields'
      BY <1>1, <1>j, <2>3 DEF BackendInv, B!PreflightIsRight, B!PreflightShields
  <2>9. B!TurnedAwayForCause'
      BY <2>r DEF B!TurnedAwayForCause
  <2> QED
      BY <1>p, <1>u, <2>2, <2>4, <2>5, <2>6, <2>7, <2>8, <2>9 DEF BackendInv, B!PreflightIsRight
<1> QED
  BY HeadOutcomes, <1>g, <1>h, <1>i, <1>j

(* Region, endpoint and client are moved to where the bucket is, in turn;  *)
(* a copy under way is mixed from then on.                                 *)
LEMMA ReconfigureKept ==
  ASSUME Named, BackendInv, NEW t \in Threads, B!Reconfigure(t)
  PROVE  BackendInv'
<1>1. /\ bucket' = bucket /\ config' = config /\ native' = native /\ mixed' = mixed
      /\ verified' = verified /\ refusal' = refusal /\ lock' = lock
      /\ op' = op /\ result' = result /\ urls' = urls /\ faulty' = faulty
      /\ copy' = [copy EXCEPT !.mixed = copy.stage # "none"]
  BY DEF B!Reconfigure
<1>w. PICK w \in {"point", "swap", "vouch"} :
       /\ where' = [where EXCEPT ![t] = w]
       /\ \/ w = "point" /\ where[t] = "move" /\ region' = bucket.home /\ endpoint' = endpoint /\ client' = client
          \/ w = "swap" /\ where[t] = "point" /\ endpoint' = bucket.home /\ region' = region /\ client' = client
          \/ w = "vouch" /\ where[t] = "swap" /\ client' = bucket.home /\ region' = region /\ endpoint' = endpoint
  BY DEF B!Reconfigure, B!Goes
<1>2. /\ lock = t /\ ~verified
      /\ \A u \in Threads \ {t} : where[u] \notin Inside
      /\ \A u \in Threads : where[u] # "check" /\ (where[u] = "go" => op[u] = "aget")
  BY <1>w, HolderIsAlone DEF Inside
<1>3. /\ Movable /\ client = config.region /\ refusal = B!NoError
      /\ w = "swap" => region = bucket.home
      /\ w = "vouch" => region = bucket.home /\ endpoint = bucket.home
  BY <1>w DEF BackendInv, Moving
<1>4. /\ copy'.stage = copy.stage /\ copy'.client = copy.client /\ copy'.region = copy.region
      /\ copy'.endpoint = copy.endpoint /\ copy'.verified = copy.verified
      /\ Copied => copy'.mixed
      /\ Copied' = Copied /\ RegionCopied' = RegionCopied /\ EndpointCopied' = EndpointCopied
  BY <1>1 DEF BackendInv, BackendShape, Copied, RegionCopied, EndpointCopied
<1>5. /\ where'[t] = w /\ \A u \in Threads \ {t} : where'[u] = where[u] /\ where'[u] \notin Inside
      /\ where' \in [Threads -> Outside \cup Inside]
      /\ OneHolds'
      /\ Amid' <=> w \in {"point", "swap"}
      /\ Vouching' <=> w = "vouch"
  <2>1. w \in Inside
      BY DEF Inside
  <2> QED
      BY <1>1, <1>w, <1>2, <2>1, HolderMoves
<1>6. ~Vouching
  BY <1>w, <1>2 DEF Vouching, Inside
<1>a. /\ Movable' = Movable
      /\ \A q : Place(q)' = Place(q)
  BY <1>1, AnswersStay
<1>7. BackendShape'
  <2>1. copy' \in [stage : B!Stages, client : Regions \cup {B!Nobody}, region : Regions \cup {B!Nobody},
                endpoint : Regions \cup {B!Nobody}, verified : BOOLEAN, mixed : BOOLEAN]
      BY <1>1 DEF BackendInv, BackendShape
  <2> QED
      BY <1>1, <1>5, <2>1 DEF BackendInv, BackendShape
<1>8. InPlace'
  <2>1. Place(bucket.home)
      BY <1>3 DEF Place
  <2>2. (region' = region \/ region' = bucket.home) /\ (endpoint' = endpoint \/ endpoint' = bucket.home)
        /\ (client' = client \/ client' = bucket.home)
      BY <1>w
  <2>3. Place(region') /\ Place(endpoint') /\ Place(client')
      BY <2>1, <2>2 DEF BackendInv, InPlace
  <2>4. /\ Copied => Place(copy'.client)
        /\ RegionCopied => Place(copy'.region)
        /\ EndpointCopied => Place(copy'.endpoint)
      BY <1>4 DEF BackendInv, InPlace
  <2> QED
      BY <1>1, <1>4, <1>a, <2>3, <2>4 DEF InPlace, Place
<1>9. Moving'
  BY <1>1, <1>w, <1>3, <1>5, <1>a DEF Moving, Inside
<1>10. Follows'
  <2>1. /\ Copied /\ copy.client # config.region => copy.client = bucket.home
        /\ EndpointCopied => Copied
      BY DEF BackendInv, InPlace, Place, EndpointCopied, Copied
  <2> QED
      BY <1>1, <1>w, <1>3, <1>4, <1>5, <1>6, <2>1 DEF BackendInv, Follows
<1>11. Refused' /\ Vouched' /\ Once'
  BY <1>1, <1>2, <1>3, <1>4, <1>5 DEF BackendInv, Refused, Vouched, Once, Inside
<1>12. Straight'
  BY <1>w, <1>3, <1>4, <1>5 DEF Straight
<1>13. ThroughVerified'
  BY <1>1, <1>2, <1>5 DEF ThroughVerified
<1>14. B!PreflightIsRight'
  <2>1. config.b2
      BY <1>3 DEF Movable
  <2>2. B!PreflightShields'
      BY <1>1, <1>2, <1>5 DEF BackendInv, B!PreflightIsRight, B!PreflightShields
  <2>3. B!RefusalIsTrue'
      BY <1>1, <1>3 DEF B!RefusalIsTrue, B!NoError
  <2>4. B!TurnedAwayForCause'
      BY <1>1, <2>1 DEF BackendInv, B!PreflightIsRight, B!TurnedAwayForCause
  <2> QED
      BY <2>2, <2>3, <2>4 DEF B!PreflightIsRight
<1>15. B!UrlsStayOurs'
  BY <1>1, <1>3 DEF B!UrlsStayOurs, B!KeyFromUrl, Movable
<1> QED
  BY <1>5, <1>7, <1>8, <1>9, <1>10, <1>11, <1>12, <1>13, <1>14, <1>15 DEF BackendInv

(* The flag goes up last: when the client was moved, and when a refusal is *)
(* in place.                                                               *)
LEMMA LastKept ==
  ASSUME Named, BackendInv, NEW t \in Threads, B!Vouch(t) \/ B!Seal(t)
  PROVE  BackendInv'
<1>1. /\ bucket' = bucket /\ config' = config /\ region' = region /\ endpoint' = endpoint
      /\ client' = client /\ native' = native /\ mixed' = mixed /\ copy' = copy
      /\ refusal' = refusal /\ op' = op /\ urls' = urls /\ faulty' = faulty
      /\ verified' = TRUE /\ lock' = B!Nobody
  BY DEF B!Vouch, B!Seal, B!Verified, B!made
<1>w. PICK w \in {"go", "idle"} :
       /\ where' = [where EXCEPT ![t] = w]
       /\ \/ w = "go" /\ where[t] = "vouch" /\ result' = result
          \/ /\ w = "idle" /\ where[t] = "seal"
             /\ \E r \in {"preflight", "partial"} : result' = [result EXCEPT ![t] = r]
  BY DEF B!Vouch, B!Seal, B!Goes, B!Fails, B!Ends
<1>2. /\ lock = t /\ ~verified
      /\ \A u \in Threads \ {t} : where[u] \notin Inside
      /\ \A u \in Threads : where[u] # "check" /\ (where[u] = "go" => op[u] = "aget")
  BY <1>w, HolderIsAlone DEF Inside
<1>3. /\ w = "go" => refusal = B!NoError /\ client = bucket.home
      /\ w = "idle" => refusal # B!NoError
  BY <1>w DEF BackendInv, Moving, Refused
<1>5. /\ where'[t] = w /\ \A u \in Threads \ {t} : where'[u] = where[u] /\ where'[u] \notin Inside
      /\ where' \in [Threads -> Outside \cup Inside]
      /\ OneHolds' /\ ~Amid' /\ ~Vouching'
  <2>1. w \in Outside /\ w \notin Inside
      BY DEF Inside, Outside
  <2> QED
      BY <1>1, <1>w, <1>2, <2>1, HolderMoves
<1>6. \A u \in Threads : where'[u] \notin Inside /\ where'[u] # "check"
  BY <1>2, <1>5 DEF Inside
<1>m. ~Amid
  BY <1>w, <1>2 DEF Amid, Inside
<1>a. /\ B!Answer(client)' = B!Answer(client)
      /\ \A q : Place(q)' = Place(q)
  BY <1>1, AnswersStay DEF B!Answer
<1>r. /\ result' \in [Threads -> Outcomes]
      /\ \A u \in Threads : result'[u] = "redirect" => result[u] = "redirect"
      /\ w = "go" => result' = result
  <2>1. CASE w = "go"
      BY <1>w, <2>1 DEF BackendInv, BackendShape
  <2>2. CASE w = "idle"
      <3>1. PICK r \in {"preflight", "partial"} : result' = [result EXCEPT ![t] = r]
          BY <1>w, <2>2
      <3> QED
          BY <2>2, <3>1 DEF BackendInv, BackendShape, Outcomes
  <2> QED
      BY <2>1, <2>2
<1>7. BackendShape'
  BY <1>1, <1>5, <1>r DEF BackendInv, BackendShape
<1>8. InPlace'
  BY <1>1, <1>a DEF BackendInv, InPlace, Place, Copied, RegionCopied, EndpointCopied
<1>9. Moving' /\ Once'
  BY <1>6 DEF Moving, Once, Inside
<1>10. Follows' /\ Refused' /\ Vouched'
  BY <1>1, <1>3, <1>6, <1>a DEF BackendInv, Follows, Refused, Vouched, Copied, EndpointCopied, Inside
<1>11. Straight'
  BY <1>1, <1>5, <1>m DEF BackendInv, Straight, Copied, RegionCopied, EndpointCopied
<1>12. ThroughVerified'
  BY <1>1, <1>2, <1>3, <1>5, <1>6 DEF ThroughVerified
<1>13. B!PreflightShields'
  BY <1>1, <1>2, <1>3, <1>5, <1>r DEF BackendInv, B!PreflightIsRight, B!PreflightShields
<1>14. B!RefusalIsTrue'
  BY <1>1 DEF BackendInv, B!PreflightIsRight, B!RefusalIsTrue
<1>15. B!TurnedAwayForCause'
  BY <1>1, <1>3, <1>a, <1>r DEF BackendInv, B!PreflightIsRight, B!TurnedAwayForCause
<1>16. B!UrlsStayOurs'
  BY <1>1 DEF BackendInv, B!UrlsStayOurs, B!KeyFromUrl
<1> QED
  BY <1>5, <1>7, <1>8, <1>9, <1>10, <1>11, <1>12, <1>13, <1>14, <1>15, <1>16
     DEF BackendInv, B!PreflightIsRight

-----------------------------------------------------------------------------
(* from_sync() reads one attribute more. *)
LEMMA CopyKept ==
  ASSUME Named, BackendInv,
         \/ B!CopyClient
         \/ B!CopyNext("client", "verified", verified)
         \/ B!CopyNext("verified", "region", region)
         \/ B!CopyNext("region", "endpoint", endpoint)
  PROVE  BackendInv'
<1>1. Standing /\ where' = where /\ op' = op /\ result' = result /\ urls' = urls /\ faulty' = faulty
  BY DEF B!CopyClient, B!CopyNext, B!preflight, Standing
<1>2. \/ /\ copy' = [B!NoCopy EXCEPT !.stage = "client", !.client = endpoint, !.mixed = Amid]
      \/ copy.stage = "client" /\ copy' = [copy EXCEPT !.stage = "verified", !.verified = verified]
      \/ copy.stage = "verified" /\ copy' = [copy EXCEPT !.stage = "region", !.region = region]
      \/ copy.stage = "region" /\ copy' = [copy EXCEPT !.stage = "endpoint", !.endpoint = endpoint]
  BY DEF B!CopyClient, B!CopyNext, Amid
<1>3. region \in Regions /\ endpoint \in Regions /\ verified \in BOOLEAN /\ Amid \in BOOLEAN
  BY ClientsPlace DEF Amid, BackendInv, BackendShape
<1>4. /\ copy' \in [stage : B!Stages, client : Regions \cup {B!Nobody}, region : Regions \cup {B!Nobody},
                   endpoint : Regions \cup {B!Nobody}, verified : BOOLEAN, mixed : BOOLEAN]
      /\ \/ /\ copy'.stage = "client" /\ copy'.client = endpoint /\ copy'.mixed = Amid
            /\ copy'.verified = FALSE
         \/ /\ copy.stage = "client" /\ copy'.stage = "verified" /\ copy'.client = copy.client
            /\ copy'.mixed = copy.mixed /\ copy'.verified = verified
         \/ /\ copy.stage = "verified" /\ copy'.stage = "region" /\ copy'.client = copy.client
            /\ copy'.mixed = copy.mixed /\ copy'.verified = copy.verified /\ copy'.region = region
         \/ /\ copy.stage = "region" /\ copy'.stage = "endpoint" /\ copy'.client = copy.client
            /\ copy'.mixed = copy.mixed /\ copy'.verified = copy.verified
            /\ copy'.region = copy.region /\ copy'.endpoint = endpoint
  <2>0. copy \in [stage : B!Stages, client : Regions \cup {B!Nobody}, region : Regions \cup {B!Nobody},
                 endpoint : Regions \cup {B!Nobody}, verified : BOOLEAN, mixed : BOOLEAN]
      BY DEF BackendInv, BackendShape
  <2>1. CASE copy' = [B!NoCopy EXCEPT !.stage = "client", !.client = endpoint, !.mixed = Amid]
      BY <1>3, <2>1, Zenon DEF B!NoCopy, B!Stages
  <2>2. CASE copy.stage = "client" /\ copy' = [copy EXCEPT !.stage = "verified", !.verified = verified]
      BY <1>3, <2>0, <2>2, Zenon DEF B!Stages
  <2>3. CASE copy.stage = "verified" /\ copy' = [copy EXCEPT !.stage = "region", !.region = region]
      BY <1>3, <2>0, <2>3, Zenon DEF B!Stages
  <2>4. CASE copy.stage = "region" /\ copy' = [copy EXCEPT !.stage = "endpoint", !.endpoint = endpoint]
      BY <1>3, <2>0, <2>4, Zenon DEF B!Stages
  <2> QED
      BY <1>2, <2>1, <2>2, <2>3, <2>4
<1>a. /\ Movable' = Movable
      /\ \A q : B!Answer(q)' = B!Answer(q)
      /\ \A q : Place(q)' = Place(q)
  BY <1>1, AnswersStay DEF Standing
<1>5. BackendShape' /\ OneHolds' /\ Once' /\ ThroughVerified'
  BY <1>1, <1>4 DEF BackendInv, BackendShape, OneHolds, Once, ThroughVerified, Standing
<1>6. Moving'
  BY <1>1, <1>a DEF BackendInv, Moving, Standing
<1>7. InPlace'
  BY <1>1, <1>4, <1>a DEF BackendInv, InPlace, Place, Copied, RegionCopied, EndpointCopied, Standing
<1>8. (Amid' <=> Amid) /\ (Vouching' <=> Vouching)
  BY <1>1 DEF Amid, Vouching
<1>9. Follows'
  BY <1>1, <1>4, <1>8 DEF BackendInv, Follows, Copied, EndpointCopied, Standing
<1>10. Refused'
  <2>1. refusal # B!NoError => endpoint = client
    <3> SUFFICES ASSUME refusal # B!NoError PROVE endpoint = client
        OBVIOUS
    <3>1. B!Answer(client) # "301"
        BY DEF BackendInv, Refused
    <3>2. CASE client = config.region
        BY <3>1, <3>2, ClientsPlace DEF BackendInv, InPlace
    <3>3. CASE client # config.region
        BY <3>3 DEF BackendInv, Follows
    <3> QED
        BY <3>2, <3>3
  <2>2. Copied' /\ (copy'.client = endpoint \/ (Copied /\ copy'.client = copy.client))
      BY <1>4 DEF Copied
  <2>3. B!Answer(client)' = B!Answer(client)
      BY <1>1 DEF B!Answer, Standing
  <2> QED
      BY <1>1, <2>1, <2>2, <2>3 DEF BackendInv, Refused, Standing
<1>11. Vouched'
  BY <1>1, <1>4 DEF BackendInv, Vouched, Standing
<1>12. Straight'
  <2>1. CASE copy'.stage = "client" /\ copy'.client = endpoint /\ copy'.mixed = Amid
      BY <1>1, <1>8, <2>1 DEF BackendInv, Straight, Copied, RegionCopied, EndpointCopied, Standing
  <2>2. CASE copy'.client = copy.client /\ copy'.mixed = copy.mixed /\ Copied
      BY <1>1, <1>4, <1>8, <2>2 DEF BackendInv, Straight, Copied, RegionCopied, EndpointCopied, Standing
  <2> QED
      BY <1>4, <2>1, <2>2 DEF Copied
<1>13. B!PreflightIsRight'
  <2>1. B!Answer(client)' = B!Answer(client)
      BY <1>1 DEF B!Answer, Standing
  <2> QED
      BY <1>1, <2>1 DEF BackendInv, B!PreflightIsRight, B!PreflightShields, B!RefusalIsTrue,
                   B!TurnedAwayForCause, Standing
<1>14. B!UrlsStayOurs'
  BY <1>1 DEF BackendInv, B!UrlsStayOurs, B!KeyFromUrl, Standing
<1> QED
  BY <1>5, <1>6, <1>7, <1>9, <1>10, <1>11, <1>12, <1>13, <1>14 DEF BackendInv

(* Another process begins, or the program goes on with the copy. *)
LEMMA HandoverKept ==
  ASSUME Named, BackendInv, B!Restart \/ B!FromSync
  PROVE  BackendInv'
<1>1. /\ \A t \in Threads : where'[t] = "idle" /\ result'[t] = "none" /\ op'[t] = "none"
      /\ where' \in [Threads -> Outside \cup Inside] /\ op' \in [Threads -> Ops]
      /\ result' \in [Threads -> Outcomes]
      /\ copy' = B!NoCopy /\ lock' = B!Nobody /\ bucket' = bucket /\ config' = config
      /\ urls' = urls /\ faulty' = faulty
  BY DEF B!Restart, B!FromSync, B!Renewed, Outside, Ops, Outcomes
<1>2. \/ /\ region' = config.region /\ endpoint' = config.region /\ client' = config.region
         /\ verified' = FALSE /\ refusal' = B!NoError /\ mixed' = FALSE
      \/ /\ EndpointCopied /\ region' = copy.region /\ endpoint' = copy.endpoint /\ client' = copy.client
         /\ verified' = copy.verified /\ refusal' = refusal /\ mixed' = (mixed \/ copy.mixed)
  BY DEF B!Restart, B!FromSync, EndpointCopied
<1>3. EndpointCopied => Copied /\ RegionCopied
  BY DEF EndpointCopied, RegionCopied, Copied
<1>n. copy'.stage = "none" /\ copy'.verified = FALSE
  BY <1>1 DEF B!NoCopy
<1>c. ~Copied' /\ ~RegionCopied' /\ ~EndpointCopied'
  BY <1>n DEF Copied, RegionCopied, EndpointCopied
<1>a. /\ Movable' = Movable
      /\ \A q : B!Answer(q)' = B!Answer(q)
      /\ \A q : Place(q)' = Place(q)
  BY <1>1, AnswersStay
<1>4. BackendShape'
  <2>1. verified' \in BOOLEAN
      BY <1>2 DEF BackendInv, BackendShape
  <2>2. copy' \in [stage : B!Stages, client : Regions \cup {B!Nobody}, region : Regions \cup {B!Nobody},
                 endpoint : Regions \cup {B!Nobody}, verified : BOOLEAN, mixed : BOOLEAN]
      BY <1>1 DEF B!NoCopy, B!Stages
  <2> QED
      BY <1>1, <2>1, <2>2 DEF BackendInv, BackendShape
<1>5. OneHolds' /\ Once' /\ ThroughVerified' /\ Moving'
  BY <1>1 DEF OneHolds, Once, ThroughVerified, Moving, Inside, Named, B!Nobody
<1>6. InPlace'
  <2>1. Place(config.region)
      BY DEF Place
  <2>2. Place(region') /\ Place(endpoint') /\ Place(client')
      BY <1>2, <1>3, <2>1 DEF BackendInv, InPlace
  <2> QED
      BY <1>1, <1>c, <1>a, <2>2 DEF InPlace, Place
<1>7. Follows'
  BY <1>1, <1>2, <1>c DEF BackendInv, Follows
<1>r. refusal' # B!NoError => refusal' = refusal /\ client' = client
  BY <1>2, <1>3 DEF BackendInv, Refused
<1>8. Refused'
  <2>1. client' = client => B!Answer(client)' = B!Answer(client)
      BY <1>1 DEF B!Answer
  <2> QED
      BY <1>1, <1>c, <1>r, <2>1 DEF BackendInv, Refused
<1>9. Vouched'
  <2>1. verified' /\ refusal' = B!NoError => client' = bucket.home \/ mixed'
      BY <1>2, <1>3 DEF BackendInv, Vouched, Straight
  <2> QED
      BY <1>1, <1>n, <2>1 DEF Vouched
<1>10. Straight'
  <2>1. CASE region' = config.region /\ endpoint' = config.region /\ client' = config.region
      BY <1>c, <2>1 DEF Straight
  <2>2. CASE /\ EndpointCopied /\ region' = copy.region /\ endpoint' = copy.endpoint
             /\ client' = copy.client /\ mixed' = (mixed \/ copy.mixed)
    <3>1. ~mixed' => ~mixed /\ ~copy.mixed
        BY <2>2
    <3>2. ~mixed /\ ~copy.mixed => copy.region = copy.client /\ copy.endpoint = copy.client
        BY <1>3, <2>2 DEF BackendInv, Straight
    <3> QED
        BY <1>c, <2>2, <3>1, <3>2 DEF Straight
  <2> QED
      BY <1>2, <2>1, <2>2
<1>11. B!PreflightShields' /\ B!TurnedAwayForCause'
  <2>1. \A t \in Threads : result'[t] = "none" /\ where'[t] = "idle"
      BY <1>1
  <2> QED
      BY <2>1 DEF B!PreflightShields, B!TurnedAwayForCause
<1>12. B!RefusalIsTrue'
  <2>1. refusal' = B!NoError => refusal'.kind = "none"
      BY DEF B!NoError
  <2> QED
      BY <1>1, <1>r, <2>1 DEF BackendInv, B!PreflightIsRight, B!RefusalIsTrue
<1>13. B!UrlsStayOurs'
  <2>1. config.b2 \/ client' = client
      BY <1>2, <1>3 DEF BackendInv, InPlace, Place, Movable
  <2> QED
      BY <1>1, <2>1 DEF BackendInv, B!UrlsStayOurs, B!KeyFromUrl
<1> QED
  BY <1>4, <1>5, <1>6, <1>7, <1>8, <1>9, <1>10, <1>11, <1>12, <1>13 DEF BackendInv, B!PreflightIsRight

(* Nothing is verified or refused initially. *)
LEMMA BackendInit ==
  ASSUME Named, B!Init
  PROVE  BackendInv
<1>1. BackendShape
  BY DEF B!Init, BackendShape, Outside, Ops, Outcomes, B!NoCopy, B!Stages
<1>2. \A t \in Threads : where[t] = "idle" /\ result[t] = "none" /\ t # B!Nobody
  BY DEF B!Init, Named, B!Nobody
<1>3. /\ ~verified /\ refusal = B!NoError /\ lock = B!Nobody /\ urls = {}
      /\ region = config.region /\ endpoint = config.region /\ client = config.region
  BY DEF B!Init
<1>c. copy.stage = "none" /\ copy.verified = FALSE
  BY DEF B!Init, B!NoCopy
<1>4. OneHolds /\ Once /\ Moving /\ ThroughVerified
  BY <1>2, <1>3 DEF OneHolds, Once, Moving, ThroughVerified, Inside
<1>5. InPlace /\ Follows /\ Refused /\ Vouched /\ Straight
  BY <1>2, <1>3, <1>c DEF InPlace, Place, Follows, Refused, Vouched, Straight, Copied, RegionCopied,
         EndpointCopied
<1>6. B!PreflightIsRight /\ B!UrlsStayOurs
  BY <1>2, <1>3 DEF B!PreflightIsRight, B!PreflightShields, B!RefusalIsTrue, B!TurnedAwayForCause,
         B!UrlsStayOurs, B!NoError
<1> QED
  BY <1>1, <1>4, <1>5, <1>6 DEF BackendInv

(* A stutter changes nothing. *)
LEMMA BackendStill ==
  ASSUME BackendInv, UNCHANGED B!vars
  PROVE  BackendInv'
BY DEF B!vars, B!preflight, B!made, BackendInv, BackendShape, OneHolds, Once, InPlace, Place, Movable,
       Moving, Follows, Refused, Vouched, Straight, ThroughVerified, Copied, RegionCopied,
       EndpointCopied, Vouching, Amid, B!Answer,
       B!PreflightIsRight, B!PreflightShields, B!RefusalIsTrue, B!TurnedAwayForCause,
       B!UrlsStayOurs, B!KeyFromUrl

(* The backend, for any threads, regions, keys, pages, batches and faults. *)
THEOREM BackendInvariance ==
  ASSUME Named
  PROVE  /\ B!Spec => []BackendInv
         /\ MCSpec => []BackendInv
<1>1. B!Init => BackendInv
  BY BackendInit
<1>2. BackendInv /\ [B!Next]_B!vars => BackendInv'
  <2> SUFFICES ASSUME BackendInv, B!Next PROVE BackendInv'
      BY BackendStill
  <2>1. ASSUME NEW t \in Threads, B!Call(t) \/ B!Step(t) PROVE BackendInv'
      BY <2>1, CallKept, PreflightKept, AcquireKept, HeadKept, ReconfigureKept, LastKept,
         OperationKept DEF B!Step
  <2>2. ASSUME B!Restart \/ B!Copying PROVE BackendInv'
      BY <2>2, CopyKept, HandoverKept DEF B!Copying
  <2> QED
      BY <2>1, <2>2 DEF B!Next
<1> QED
  BY <1>1, <1>2, Machines, PTL DEF B!Spec, MCSpec

(* Nothing is sent to a region the bucket is not in, unless the backend    *)
(* was copied in the middle of a correction; nothing gets through once a   *)
(* refusal is kept, what is kept is true of the bucket, and nothing else   *)
(* is turned away without cause.                                           *)
THEOREM PreflightHolds ==
  ASSUME Named
  PROVE  /\ B!Spec => []B!PreflightIsRight
         /\ MCSpec => []PreflightIsRight
<1>1. BackendInv => B!PreflightIsRight
  BY DEF BackendInv
<1>2. B!PreflightIsRight => PreflightIsRight
  BY DEF PreflightIsRight
<1> QED
  BY <1>1, <1>2, BackendInvariance, PTL

(* A durable URL is recognised by every later backend of the bucket. *)
THEOREM UrlsAreKept ==
  ASSUME Named
  PROVE  /\ B!Spec => []B!UrlsStayOurs
         /\ MCSpec => []UrlsStayOurs
<1>1. BackendInv => B!UrlsStayOurs
  BY DEF BackendInv
<1>2. B!UrlsStayOurs => UrlsStayOurs
  BY DEF UrlsStayOurs
<1> QED
  BY <1>1, <1>2, BackendInvariance, PTL

-----------------------------------------------------------------------------
(* The walks over the bucket, page by page and batch by batch. *)

(* Keys are numbers and pages not empty. *)
Sizes == LastKey \in Nat /\ PageSize \in Nat \ {0}

Walk == [token : Nat, todo : SUBSET B!Keys, deleted : SUBSET B!Keys, errors : SUBSET B!Keys,
         steady : SUBSET B!Keys, listed : BOOLEAN]

WalkShape == walk \in [Threads -> Walk] /\ objects \subseteq B!Keys

(* A key that stays is accounted for, or in hand, or still to be listed. *)
OnItsWay ==
  \A t \in Threads : op[t] \in B!Walks /\ where[t] # "idle" =>
    \A k \in walk[t].steady :
      \/ k \in walk[t].todo \cup walk[t].deleted \cup walk[t].errors
      \/ op[t] # "delete_many" /\ ~walk[t].listed /\ walk[t].token < k /\ k \in objects

WalkInv == WalkShape /\ OnItsWay /\ B!WalkAccounts

(* A finite set of numbers has a least and a greatest one: those whose     *)
(* sets of numbers below, or above, contain no other such set.             *)
LEMMA LeastAndGreatest ==
  ASSUME NEW S \in SUBSET Nat, IsFiniteSet(S), S # {}
  PROVE  /\ \E m \in S : \A y \in S : m <= y
         /\ \E n \in S : \A y \in S : y <= n
<1> DEFINE below == [x \in S |-> {y \in S : y <= x}]
           above == [x \in S |-> {y \in S : x <= y}]
           R == StrictSubsetOrdering(S)
<1>1. IsWellFoundedOn(R, SUBSET S)
  BY FS_StrictSubsetOrderingWellFounded, FS_FiniteSubsetsOfFinite
<1>2. /\ {below[x] : x \in S} \subseteq SUBSET S /\ {below[x] : x \in S} # {}
      /\ {above[x] : x \in S} \subseteq SUBSET S /\ {above[x] : x \in S} # {}
  OBVIOUS
<1>3. PICK m \in S : \A y \in S : <<below[y], below[m]>> \notin R
  <2> HIDE DEF R, below, above
  <2>1. \E b \in {below[x] : x \in S} : \A c \in {below[x] : x \in S} : <<c, b>> \notin R
      BY <1>1, <1>2, WFMin
  <2> QED
      BY <2>1
<1>4. PICK n \in S : \A y \in S : <<above[y], above[n]>> \notin R
  <2> HIDE DEF R, below, above
  <2>1. \E b \in {above[x] : x \in S} : \A c \in {above[x] : x \in S} : <<c, b>> \notin R
      BY <1>1, <1>2, WFMin
  <2> QED
      BY <2>1
<1>5. \A y \in S : m <= y
  <2> SUFFICES ASSUME NEW y \in S, y < m PROVE FALSE
      OBVIOUS
  <2>1. /\ below[y] = {z \in S : z <= y} /\ below[m] = {z \in S : z <= m}
        /\ \A z \in S : z <= y => z <= m
        /\ m <= m /\ ~(m <= y)
      OBVIOUS
  <2>2. below[y] \subseteq below[m] /\ below[y] # below[m]
    <3> HIDE DEF below, above
    <3> QED
        BY <2>1
  <2> QED
      BY <1>2, <1>3, <2>2 DEF StrictSubsetOrdering
<1>6. \A y \in S : y <= n
  <2> SUFFICES ASSUME NEW y \in S, n < y PROVE FALSE
      OBVIOUS
  <2>1. /\ above[y] = {z \in S : y <= z} /\ above[n] = {z \in S : n <= z}
        /\ \A z \in S : y <= z => n <= z
        /\ n <= n /\ ~(y <= n)
      OBVIOUS
  <2>2. above[y] \subseteq above[n] /\ above[y] # above[n]
    <3> HIDE DEF below, above
    <3> QED
        BY <2>1
  <2> QED
      BY <1>2, <1>4, <2>2 DEF StrictSubsetOrdering
<1> QED
  BY <1>5, <1>6

(* A page holds the least of the keys, as many as fit, and a batch some of *)
(* what is to be deleted.                                                  *)
LEMMA PageIsFirst ==
  ASSUME Sizes, NEW S \in SUBSET B!Keys
  PROVE  /\ B!FirstKeys(S, PageSize) \subseteq S
         /\ B!FirstKeys(S, PageSize) # S =>
              /\ B!Max(B!FirstKeys(S, PageSize)) \in Nat
              /\ \A k \in S \ B!FirstKeys(S, PageSize) : B!Max(B!FirstKeys(S, PageSize)) < k
<1> DEFINE before == [x \in S |-> {j \in S : j < x}]
           page == {x \in S : Cardinality(before[x]) < PageSize}
<1>1. B!FirstKeys(S, PageSize) = page
  BY DEF B!FirstKeys, B!Cardinality, Cardinality
<1>2. S \in SUBSET Nat /\ \A s \in S : s <= LastKey
  BY DEF B!Keys, Sizes
<1>3. IsFiniteSet(S)
  BY <1>2, FS_BoundedSetOfNaturals DEF Sizes
<1>4. \A x \in S : IsFiniteSet(before[x]) /\ Cardinality(before[x]) \in Nat
  BY <1>3, FS_Subset, FS_CardinalityType
<1>5. \A p \in page, k \in S \ page : p < k
  <2> SUFFICES ASSUME NEW p \in page, NEW k \in S \ page, k <= p PROVE FALSE
      BY <1>2
  <2>1. /\ before[k] = {j \in S : j < k} /\ before[p] = {j \in S : j < p}
        /\ \A j \in S : j < k => j < p
      BY <1>2
  <2>3. before[k] \in SUBSET before[p]
    <3> HIDE DEF before
    <3> QED
        BY <2>1
  <2>2. Cardinality(before[k]) <= Cardinality(before[p])
      BY <1>4, <2>3, FS_Subset
  <2> QED
      BY <1>4, <2>2 DEF Sizes
<1>6. ASSUME page # S PROVE page # {}
  <2>1. PICK m \in S : \A y \in S : m <= y
      BY <1>2, <1>3, <1>6, LeastAndGreatest
  <2>2. before[m] = {j \in S : j < m} /\ \A j \in S : ~(j < m)
      BY <1>2, <2>1
  <2>3. before[m] = {}
    <3> HIDE DEF before
    <3> QED
        BY <2>2
  <2>4. Cardinality(before[m]) = 0 /\ 0 < PageSize
      BY <2>3, FS_EmptySet DEF Sizes
  <2> HIDE DEF before
  <2> QED
      BY <2>4
<1>7. ASSUME page # S PROVE B!Max(page) \in page
  <2>1. page \in SUBSET Nat /\ IsFiniteSet(page)
      BY <1>2, <1>3, FS_Subset
  <2>2. PICK n \in page : \A y \in page : y <= n
      BY <1>6, <1>7, <2>1, LeastAndGreatest
  <2>3. \A y \in page : n >= y
      BY <1>2, <2>2
  <2> HIDE DEF page
  <2> QED
      BY <2>3 DEF B!Max
<1> QED
  BY <1>1, <1>2, <1>5, <1>7

(* Keys may cease to be steady; nothing else of a walk changes then. *)
LEMMA LessSteady ==
  ASSUME NEW wk \in Walk, NEW X
  PROVE  LET less == [wk EXCEPT !.steady = @ \ X]
         IN  /\ less \in Walk /\ less.steady = wk.steady \ X
             /\ less.token = wk.token /\ less.todo = wk.todo /\ less.listed = wk.listed
             /\ less.deleted = wk.deleted /\ less.errors = wk.errors
BY DEF Walk

(* What a step of t does to the walks of the others when keys in X are put *)
(* or deleted, *)
OthersWalk(t, X) ==
  /\ \A u \in Threads \ {t} :
       /\ where'[u] = where[u] /\ op'[u] = op[u] /\ result'[u] = result[u]
       /\ walk'[u] = [walk[u] EXCEPT !.steady = @ \ X]
  /\ objects \ X \subseteq objects'

(* and what it leaves of its own. *)
OwnWalk(t) ==
  /\ op'[t] \in B!Walks /\ where'[t] # "idle" =>
       \A k \in walk'[t].steady :
         \/ k \in walk'[t].todo \cup walk'[t].deleted \cup walk'[t].errors
         \/ op'[t] # "delete_many" /\ ~walk'[t].listed /\ walk'[t].token < k /\ k \in objects'
  /\ op'[t] \in B!Walks /\ where'[t] = "idle" /\ result'[t] = "ok" =>
       walk'[t].steady \subseteq walk'[t].deleted \cup walk'[t].errors

(* Such a step keeps the invariant. *)
LEMMA WalkOn ==
  ASSUME WalkInv, NEW t \in Threads, NEW X, WalkShape', OthersWalk(t, X), OwnWalk(t)
  PROVE  WalkInv'
<1>0. \A u \in Threads \ {t} :
        /\ where'[u] = where[u] /\ op'[u] = op[u] /\ result'[u] = result[u]
        /\ walk'[u].token = walk[u].token /\ walk'[u].todo = walk[u].todo
        /\ walk'[u].deleted = walk[u].deleted /\ walk'[u].errors = walk[u].errors
        /\ walk'[u].listed = walk[u].listed /\ walk'[u].steady = walk[u].steady \ X
  <2> SUFFICES ASSUME NEW u \in Threads \ {t}
               PROVE  /\ where'[u] = where[u] /\ op'[u] = op[u] /\ result'[u] = result[u]
                      /\ walk'[u].token = walk[u].token /\ walk'[u].todo = walk[u].todo
                      /\ walk'[u].deleted = walk[u].deleted /\ walk'[u].errors = walk[u].errors
                      /\ walk'[u].listed = walk[u].listed /\ walk'[u].steady = walk[u].steady \ X
      OBVIOUS
  <2>1. walk[u] \in Walk
      BY DEF WalkInv, WalkShape
  <2>2. /\ where'[u] = where[u] /\ op'[u] = op[u] /\ result'[u] = result[u]
        /\ walk'[u] = [walk[u] EXCEPT !.steady = @ \ X]
      BY DEF OthersWalk
  <2> QED
      BY <2>1, <2>2, LessSteady
<1>1. OnItsWay'
  <2> SUFFICES ASSUME NEW u \in Threads, op'[u] \in B!Walks, where'[u] # "idle", NEW k \in walk'[u].steady
               PROVE  \/ k \in walk'[u].todo \cup walk'[u].deleted \cup walk'[u].errors
                      \/ op'[u] # "delete_many" /\ ~walk'[u].listed /\ walk'[u].token < k /\ k \in objects'
      BY DEF OnItsWay, B!Walks
  <2>1. CASE u = t
      BY <2>1 DEF OwnWalk
  <2>2. CASE u # t
    <3>1. k \in walk[u].steady /\ k \notin X
        BY <1>0, <2>2
    <3>2. \/ k \in walk[u].todo \cup walk[u].deleted \cup walk[u].errors
          \/ op[u] # "delete_many" /\ ~walk[u].listed /\ walk[u].token < k /\ k \in objects
        BY <1>0, <2>2, <3>1 DEF WalkInv, OnItsWay
    <3> QED
        BY <1>0, <2>2, <3>1, <3>2 DEF OthersWalk
  <2> QED
      BY <2>1, <2>2
<1>2. B!WalkAccounts'
  <2> SUFFICES ASSUME NEW u \in Threads, op'[u] \in B!Walks, where'[u] = "idle", result'[u] = "ok"
               PROVE  walk'[u].steady \subseteq walk'[u].deleted \cup walk'[u].errors
      BY DEF B!WalkAccounts, B!Walks
  <2>1. CASE u = t
      BY <2>1 DEF OwnWalk
  <2>2. CASE u # t
    <3>1. walk[u].steady \subseteq walk[u].deleted \cup walk[u].errors
        BY <1>0, <2>2 DEF WalkInv, B!WalkAccounts
    <3> QED
        BY <1>0, <2>2, <3>1
  <2> QED
      BY <2>1, <2>2
<1> QED
  BY <1>1, <1>2 DEF WalkInv

(* A step that puts and deletes nothing. *)
LEMMA NoneSteps ==
  ASSUME WalkInv, NEW t \in Threads, UNCHANGED objects,
         \A u \in Threads \ {t} :
           where'[u] = where[u] /\ op'[u] = op[u] /\ result'[u] = result[u] /\ walk'[u] = walk[u]
  PROVE  OthersWalk(t, {})
<1>1. \A u \in Threads : walk[u] = [walk[u] EXCEPT !.steady = @ \ {}]
  <2> SUFFICES ASSUME NEW u \in Threads PROVE walk[u] = [walk[u] EXCEPT !.steady = @ \ {}]
      OBVIOUS
  <2>1. walk[u] \in Walk /\ walk[u].steady \ {} = walk[u].steady
      BY DEF WalkInv, WalkShape
  <2> QED
      BY <2>1 DEF Walk
<1> QED
  BY <1>1 DEF OthersWalk

(* A step of one thread that is not about the walks. *)
LEMMA WalkContinues ==
  ASSUME BackendInv, WalkInv, NEW t \in Threads, where[t] # "idle",
         UNCHANGED walk, UNCHANGED objects, UNCHANGED op,
         \/ \E w : w # "idle" /\ B!Goes(t, w) /\ UNCHANGED result
         \/ \E r : B!Ends(t, r) /\ (op[t] \in B!Walks => r # "ok")
  PROVE  WalkInv'
<1>1. /\ \A u \in Threads \ {t} : where'[u] = where[u] /\ result'[u] = result[u]
      /\ where'[t] = "idle" /\ op[t] \in B!Walks => result'[t] # "ok"
  BY DEF BackendInv, BackendShape, B!Goes, B!Ends
<1>2. WalkShape'
  BY DEF WalkInv, WalkShape
<1>3. op[t] \in B!Walks =>
        \A k \in walk[t].steady :
          \/ k \in walk[t].todo \cup walk[t].deleted \cup walk[t].errors
          \/ op[t] # "delete_many" /\ ~walk[t].listed /\ walk[t].token < k /\ k \in objects
  BY DEF WalkInv, OnItsWay
<1>4. OwnWalk(t)
  BY <1>1, <1>3 DEF OwnWalk
<1>5. OthersWalk(t, {})
  BY <1>1, NoneSteps
<1> QED
  BY <1>2, <1>4, <1>5, WalkOn

(* The preflight and what is sent or signed for other operations. *)
LEMMA WalkWaits ==
  ASSUME BackendInv, WalkInv, NEW t \in Threads,
         \/ B!Peek(t) \/ B!Check(t) \/ B!Acquire(t) \/ B!HeadBucket(t) \/ B!Reconfigure(t)
         \/ B!Vouch(t)
         \/ B!Seal(t) \/ B!RequestFails(t) \/ B!MakeUrl(t) \/ B!ListFails(t)
  PROVE  WalkInv'
<1>1. where[t] # "idle" /\ UNCHANGED walk /\ UNCHANGED objects /\ UNCHANGED op
  BY DEF B!Peek, B!Check, B!Acquire, B!HeadBucket, B!Reconfigure, B!Vouch, B!Seal,
         B!RequestFails, B!MakeUrl, B!ListFails
<1>2. \/ \E w : w # "idle" /\ B!Goes(t, w) /\ UNCHANGED result
      \/ \E r : B!Ends(t, r) /\ (op[t] \in B!Walks => r # "ok")
  <2>1. CASE B!Peek(t)
      BY <2>1 DEF B!Peek
  <2>2. CASE B!Check(t)
      BY <2>2 DEF B!Check, B!Fails
  <2>3. CASE B!Acquire(t)
      BY <2>3 DEF B!Acquire, B!Fails
  <2>4. CASE B!HeadBucket(t)
    <3>1. \/ \E w \in {"go", "move", "seal"} : B!Goes(t, w) /\ UNCHANGED result
          \/ B!Fails(t, "error") \/ B!Fails(t, "preflight")
        BY <2>4 DEF B!HeadBucket
    <3> QED
        BY <3>1 DEF B!Fails
  <2>5. CASE B!Reconfigure(t) \/ B!Vouch(t) \/ B!Seal(t)
      BY <2>5 DEF B!Reconfigure, B!Vouch, B!Seal, B!Fails
  <2>6. CASE B!RequestFails(t)
      BY <2>6 DEF B!RequestFails
  <2>7. CASE B!MakeUrl(t)
      BY <2>7 DEF B!MakeUrl, B!Walks
  <2>8. CASE B!ListFails(t)
      BY <2>8 DEF B!ListFails
  <2> QED
      BY <2>1, <2>2, <2>3, <2>4, <2>5, <2>6, <2>7, <2>8
<1> QED
  BY <1>1, <1>2, WalkContinues

(* A walk begins with all keys before it. *)
LEMMA WalkBegins ==
  ASSUME Sizes, BackendInv, WalkInv, NEW t \in Threads, B!Call(t)
  PROVE  WalkInv'
<1>1. PICK o \in B!Gated \cup {"aget"} :
        /\ op' = [op EXCEPT ![t] = o]
        /\ where' = [where EXCEPT ![t] = IF o \in B!Gated THEN "peek" ELSE "go"]
        /\ walk' = [walk EXCEPT ![t] =
             IF o \in B!Walks
             THEN [B!NoWalk EXCEPT !.steady = objects,
                                   !.todo = IF o = "delete_many" THEN B!Keys ELSE {}]
             ELSE B!NoWalk]
  BY Zenon DEF B!Call, B!Goes
<1>2. result' = [result EXCEPT ![t] = "none"] /\ UNCHANGED objects
  BY DEF B!Call
<1> DEFINE wk == IF o \in B!Walks
                 THEN [B!NoWalk EXCEPT !.steady = objects,
                                       !.todo = IF o = "delete_many" THEN B!Keys ELSE {}]
                 ELSE B!NoWalk
<1>3. /\ wk \in Walk
      /\ o \in B!Walks => /\ wk.steady = objects /\ ~wk.listed /\ wk.token = 0
                          /\ o = "delete_many" => wk.todo = B!Keys
  BY DEF B!NoWalk, Walk, WalkInv, WalkShape
<1> HIDE DEF wk
<1>4. walk' = [walk EXCEPT ![t] = wk]
  BY <1>1 DEF wk
<1>5. WalkShape'
  BY <1>2, <1>3, <1>4 DEF WalkInv, WalkShape
<1>6. /\ walk'[t] = wk /\ op'[t] = o /\ where'[t] # "idle"
      /\ \A u \in Threads \ {t} :
           where'[u] = where[u] /\ op'[u] = op[u] /\ result'[u] = result[u] /\ walk'[u] = walk[u]
  BY <1>1, <1>2, <1>4 DEF BackendInv, BackendShape, WalkInv, WalkShape
<1>7. \A k \in objects : k \in B!Keys /\ 0 < k
  BY DEF WalkInv, WalkShape, B!Keys, Sizes
<1>8. OthersWalk(t, {})
  BY <1>2, <1>6, NoneSteps
<1>9. o \in B!Walks => \A k \in wk.steady :
         \/ k \in wk.todo \cup wk.deleted \cup wk.errors
         \/ o # "delete_many" /\ ~wk.listed /\ wk.token < k /\ k \in objects'
  BY <1>2, <1>3, <1>7
<1>10. OwnWalk(t)
  BY <1>6, <1>9 DEF OwnWalk
<1> QED
  BY <1>5, <1>8, <1>10, WalkOn

(* Another operation puts or deletes a key, or reads one. *)
LEMMA OthersRequest ==
  ASSUME BackendInv, WalkInv, NEW t \in Threads, B!Request(t)
  PROVE  WalkInv'
<1>1. PICK k \in B!Keys : B!Serve(t, k)
  BY DEF B!Request
<1>2. /\ where[t] = "go" /\ op[t] \notin B!Walks /\ UNCHANGED op
      /\ \A u \in Threads \ {t} : where'[u] = where[u] /\ result'[u] = result[u]
  BY <1>1 DEF B!Request, B!Serve, B!Ends, B!Goes, B!Walks, BackendInv, BackendShape
<1>3. CASE walk' = B!Unsteady(k)
  <2>1. \A u \in Threads : walk'[u] = [walk[u] EXCEPT !.steady = @ \ {k}]
      BY <1>3 DEF B!Unsteady
  <2>2. objects' \subseteq B!Keys /\ objects \ {k} \subseteq objects'
      BY <1>1 DEF B!Serve, WalkInv, WalkShape
  <2>3. \A u \in Threads : walk'[u] \in Walk
    <3> SUFFICES ASSUME NEW u \in Threads PROVE walk'[u] \in Walk
        OBVIOUS
    <3>1. walk[u] \in Walk /\ walk'[u] = [walk[u] EXCEPT !.steady = @ \ {k}]
        BY <2>1 DEF WalkInv, WalkShape
    <3> QED
        BY <3>1 DEF Walk
  <2>4. WalkShape'
      BY <1>3, <2>2, <2>3 DEF WalkShape, B!Unsteady
  <2> QED
      BY <1>2, <2>1, <2>2, <2>4, WalkOn DEF OthersWalk, OwnWalk
<1>4. CASE UNCHANGED walk /\ UNCHANGED objects /\ \E r : B!Ends(t, r)
  BY <1>2, <1>4, WalkContinues
<1> QED
  BY <1>1, <1>3, <1>4 DEF B!Serve

(* A page is listed: the keys on it are in hand, or told, and the token is *)
(* before all the others.                                                  *)
LEMMA WalkLists ==
  ASSUME Sizes, BackendInv, WalkInv, NEW t \in Threads, B!ListPage(t)
  PROVE  WalkInv'
<1> DEFINE after == {k \in objects : k > walk[t].token}
           page == B!FirstKeys(after, PageSize)
           more == page # after
           dry == op[t] = "dry_run"
<1>1. /\ where[t] = "go" /\ op[t] \in {"delete_prefix", "dry_run"} /\ walk[t].todo = {}
      /\ walk' = [walk EXCEPT
           ![t].token = IF more THEN B!Max(page) ELSE @,
           ![t].listed = ~more,
           ![t].todo = IF dry THEN {} ELSE page,
           ![t].deleted = IF dry THEN @ \cup page ELSE @]
      /\ IF more \/ (op[t] = "delete_prefix" /\ page # {})
         THEN B!Goes(t, "peek") /\ UNCHANGED result
         ELSE B!Ends(t, "ok")
      /\ UNCHANGED op /\ UNCHANGED objects
  BY DEF B!ListPage, B!InList
<1>2. /\ walk[t] \in Walk /\ objects \subseteq B!Keys /\ objects \subseteq Nat
  BY DEF WalkInv, WalkShape, B!Keys
<1>3. /\ page \subseteq after /\ after \subseteq objects
      /\ more => B!Max(page) \in Nat /\ \A k \in after \ page : B!Max(page) < k
  BY <1>2, PageIsFirst
<1> HIDE DEF after, page
<1>4. /\ walk'[t] \in Walk
      /\ walk'[t].steady = walk[t].steady /\ walk'[t].errors = walk[t].errors
      /\ walk'[t].listed = ~more
      /\ more => walk'[t].token = B!Max(page)
      /\ dry => walk'[t].todo = {} /\ walk'[t].deleted = walk[t].deleted \cup page
      /\ ~dry => walk'[t].todo = page /\ walk'[t].deleted = walk[t].deleted
      /\ \A u \in Threads \ {t} : walk'[u] = walk[u]
  BY ZenonT(40), <1>1, <1>2, <1>3 DEF WalkInv, WalkShape, Walk
<1>5. WalkShape'
  BY <1>1, <1>4 DEF WalkInv, WalkShape
<1>6. \A k \in walk[t].steady :
        k \in walk[t].deleted \cup walk[t].errors \/ k \in after
  <2>1. \A k \in walk[t].steady :
          \/ k \in walk[t].todo \cup walk[t].deleted \cup walk[t].errors
          \/ walk[t].token < k /\ k \in objects
      BY <1>1 DEF WalkInv, OnItsWay, B!Walks
  <2>2. \A k \in objects : walk[t].token < k => k \in after
      BY <1>2 DEF after, Walk
  <2> QED
      BY <1>1, <2>1, <2>2
<1>7. \A k \in walk'[t].steady :
        \/ k \in walk'[t].todo \cup walk'[t].deleted \cup walk'[t].errors
        \/ more /\ ~walk'[t].listed /\ walk'[t].token < k /\ k \in objects'
  BY <1>1, <1>3, <1>4, <1>6
<1>8. /\ \A u \in Threads \ {t} : where'[u] = where[u] /\ result'[u] = result[u]
      /\ where'[t] = "idle" => ~more /\ (dry \/ page = {})
  BY <1>1 DEF BackendInv, BackendShape, B!Goes, B!Ends
<1>9. where'[t] = "idle" => walk'[t].steady \subseteq walk'[t].deleted \cup walk'[t].errors
  BY <1>4, <1>7, <1>8
<1>10. OthersWalk(t, {})
  BY <1>1, <1>4, <1>8, NoneSteps
<1>11. OwnWalk(t)
  BY <1>1, <1>7, <1>9 DEF OwnWalk
<1> QED
  BY <1>5, <1>10, <1>11, WalkOn

(* A batch is deleted, or in part, or its answer lost: each of its keys is *)
(* told as deleted or as an error.                                         *)
LEMMA WalkDeletes ==
  ASSUME Sizes, BackendInv, WalkInv, NEW t \in Threads, B!DeleteBatch(t)
  PROVE  WalkInv'
<1> DEFINE batch == B!FirstKeys(walk[t].todo, BatchMax)
           rest == walk[t].todo \ batch
           over == rest = {} /\ (op[t] = "delete_many" \/ walk[t].listed)
<1>1. PICK gone \in SUBSET batch, refused \in SUBSET batch :
        /\ objects' = objects \ gone
        /\ gone \cup refused = batch
        /\ walk' = [s \in Threads |->
             IF s = t
             THEN [walk[t] EXCEPT !.todo = rest,
                                  !.deleted = @ \cup (batch \ refused),
                                  !.errors = @ \cup B!BatchErrors(batch, refused)]
             ELSE [walk[s] EXCEPT !.steady = @ \ gone]]
  BY DEF B!DeleteBatch
<1>2. /\ where[t] = "go" /\ op[t] \in B!Walks /\ UNCHANGED op
      /\ IF over THEN B!Ends(t, "ok")
         ELSE B!Goes(t, IF rest = {} THEN "peek" ELSE "go") /\ UNCHANGED result
  BY DEF B!DeleteBatch
<1>3. walk[t] \in Walk /\ batch \subseteq walk[t].todo /\ objects \subseteq B!Keys
  BY DEF WalkInv, WalkShape, B!FirstKeys
<1> HIDE DEF batch
<1>4. /\ walk'[t].todo = rest /\ walk'[t].deleted = walk[t].deleted \cup (batch \ refused)
      /\ walk'[t].errors = walk[t].errors \cup refused /\ walk'[t].steady = walk[t].steady
      /\ walk'[t].token = walk[t].token /\ walk'[t].listed = walk[t].listed
      /\ walk'[t] \in Walk
  BY <1>1, <1>3 DEF B!BatchErrors, Walk
<1>5. \A u \in Threads \ {t} : /\ walk'[u] = [walk[u] EXCEPT !.steady = @ \ gone]
                               /\ walk'[u] \in Walk
  BY <1>1, LessSteady DEF WalkInv, WalkShape
<1>6. WalkShape'
  BY <1>1, <1>3, <1>4, <1>5 DEF WalkShape
<1>7. \A k \in walk[t].steady :
        \/ k \in walk[t].todo \cup walk[t].deleted \cup walk[t].errors
        \/ op[t] # "delete_many" /\ ~walk[t].listed /\ walk[t].token < k /\ k \in objects
  BY <1>2 DEF WalkInv, OnItsWay
<1>8. \A k \in walk'[t].steady :
        \/ k \in walk'[t].todo \cup walk'[t].deleted \cup walk'[t].errors
        \/ op'[t] # "delete_many" /\ ~walk'[t].listed /\ walk'[t].token < k /\ k \in objects'
  BY <1>1, <1>2, <1>4, <1>7
<1>9. /\ \A u \in Threads \ {t} : where'[u] = where[u] /\ result'[u] = result[u]
      /\ where'[t] = "idle" => over
  BY <1>2 DEF BackendInv, BackendShape, B!Goes, B!Ends
<1>10. where'[t] = "idle" => walk'[t].steady \subseteq walk'[t].deleted \cup walk'[t].errors
  BY <1>2, <1>4, <1>8, <1>9
<1>11. OthersWalk(t, gone)
  BY <1>1, <1>2, <1>5, <1>9 DEF OthersWalk
<1>12. OwnWalk(t)
  BY <1>8, <1>10 DEF OwnWalk
<1> QED
  BY <1>6, <1>11, <1>12, WalkOn

(* A walk that was not cut short accounts for every key that was there all *)
(* along, whatever the sizes of pages and batches, whichever requests fail *)
(* and whatever other threads put and delete meanwhile.                    *)
THEOREM WalksAccount ==
  ASSUME Named, Sizes
  PROVE  /\ B!Spec => []B!WalkAccounts
         /\ MCSpec => []WalkAccounts
<1>1. B!Init => WalkInv
  <2> SUFFICES ASSUME B!Init PROVE WalkInv
      OBVIOUS
  <2>1. WalkShape
      BY DEF B!Init, B!NoWalk, Walk, WalkShape
  <2>2. \A t \in Threads : op[t] = "none"
      BY DEF B!Init
  <2> QED
      BY <2>1, <2>2 DEF WalkInv, OnItsWay, B!WalkAccounts, B!Walks
<1>2. BackendInv /\ WalkInv /\ [B!Next]_B!vars => WalkInv'
  <2> SUFFICES ASSUME BackendInv, WalkInv, [B!Next]_B!vars PROVE WalkInv'
      OBVIOUS
  <2>1. ASSUME NEW t \in Threads, B!Call(t) \/ B!Step(t) PROVE WalkInv'
      BY <2>1, WalkBegins, WalkWaits, OthersRequest, WalkLists, WalkDeletes DEF B!Step
  <2>2. CASE B!Restart \/ B!FromSync
    <3>1. /\ op' = [t \in Threads |-> "none"] /\ walk' = [t \in Threads |-> B!NoWalk]
          /\ UNCHANGED objects
        BY <2>2 DEF B!Restart, B!FromSync, B!Renewed
    <3>2. WalkShape'
        BY <3>1 DEF WalkInv, WalkShape, B!NoWalk, Walk
    <3>3. \A t \in Threads : op'[t] = "none"
        BY <3>1
    <3> QED
        BY <3>2, <3>3 DEF WalkInv, OnItsWay, B!WalkAccounts, B!Walks
  <2>3. CASE UNCHANGED B!vars
      BY <2>3 DEF B!vars, WalkInv, WalkShape, OnItsWay, B!WalkAccounts
  <2>4. CASE B!Copying /\ ~B!FromSync
    <3>1. UNCHANGED walk /\ UNCHANGED objects /\ UNCHANGED op /\ UNCHANGED where /\ UNCHANGED result
        BY <2>4 DEF B!Copying, B!CopyClient, B!CopyNext
    <3> QED
        BY <3>1 DEF WalkInv, WalkShape, OnItsWay, B!WalkAccounts
  <2> QED
      BY <2>1, <2>2, <2>3, <2>4 DEF B!Next
<1>3. WalkInv => B!WalkAccounts
  BY DEF WalkInv
<1>4. B!WalkAccounts => WalkAccounts
  BY DEF WalkAccounts
<1> QED
  BY <1>1, <1>2, <1>3, <1>4, BackendInvariance, Machines, PTL DEF B!Spec, MCSpec

-----------------------------------------------------------------------------
(* The tables of the Parquet sink. *)

(* The files that are dropped before a write, and those it writes. *)
Drops == {"drop_steps", "drop_assets", "drop_runs"}
Writes == {"steps", "assets", "sentinel"}

(* The places where the run has a sentinel. *)
Homes == {p \in Partitions : runs[p] # 0}

(* Where the version last asked for belongs. *)
Here == PartitionOf(latest)

(* The versions keep their assets; a write is of some version, and only a  *)
(* sink that was not opened yet has no index.                              *)
Versioned ==
  /\ \A v, w \in Versions : v <= w /\ content[v].assets => content[w].assets
  /\ latest = 0 => pc \in {"start", "idle"} /\ ~unindexed
  /\ index = NoIndex => pc = "start"

(* Every file was written by a version asked for so far, into its own      *)
(* partition, and one in the table assets by a version that has some.      *)
FilesInPlace ==
  \A p \in Partitions :
    /\ steps[p] <= latest /\ assets[p] <= latest /\ runs[p] <= latest
    /\ assets[p] # 0 => PartitionOf(assets[p]) = p /\ content[assets[p]].assets
    /\ runs[p] # 0 => PartitionOf(runs[p]) = p

(* What the call has written so far. *)
Progress ==
  /\ pc \in Drops => index \in Partitions /\ index # Here /\ runs[Here] = 0
  /\ pc \in {"assets", "sentinel"} => steps[Here] = latest
  /\ pc = "sentinel" => assets[Here] = AssetRows(latest)
  /\ pc = "index" => runs[Here] = latest

(* As long as the run was not moved under a lost index entry, the index    *)
(* knows the only home it has; the sentinel that is one step ahead of the  *)
(* index is in the partition of the latest version.                        *)
HomeKnown ==
  latest # 0 /\ ~moved =>
    /\ unindexed => Homes = {Here} /\ pc \notin Drops
    /\ ~unindexed /\ index = NoIndex => Homes \subseteq {Here}
    /\ ~unindexed /\ index # NoIndex /\ pc # "index" => Homes \subseteq {index}
    /\ pc \in Writes \cup {"index"} => Homes \subseteq {Here}

(* What was sunk is what was last asked for, until the next call.          *)
SunkIsLatest ==
  sunk # 0 =>
    /\ pc = "idle" /\ sunk = latest
    /\ index = Here /\ runs[Here] = latest
    /\ ~moved => Homes = {Here}

SunkInv ==
  /\ TypeOK
  /\ Versioned
  /\ FilesInPlace
  /\ SentinelMeansComplete
  /\ Progress
  /\ HomeKnown
  /\ SunkIsLatest

-----------------------------------------------------------------------------

(* Either nothing was sunk yet, or the first version in its partition. *)
LEMMA SunkInit == Init => SunkInv
<1> SUFFICES ASSUME Init PROVE SunkInv
    OBVIOUS
<1> USE ParquetAssumption
<1>1. 1 \in Versions /\ content \in [Versions -> Contents]
    BY DEF Init, Versions
<1>2. PartitionOf(1) \in Partitions /\ AssetRows(1) \in {0, 1}
    BY <1>1 DEF PartitionOf, AssetRows, Contents
<1>3. /\ \A p \in Partitions : steps[p] = IF latest = 1 /\ p = PartitionOf(1) THEN 1 ELSE 0
      /\ \A p \in Partitions : assets[p] = IF latest = 1 /\ p = PartitionOf(1) THEN AssetRows(1) ELSE 0
      /\ runs = steps
    BY DEF Init
<1>4. TypeOK
  <2>1. steps \in [Partitions -> 0..LastVersion] /\ runs \in [Partitions -> 0..LastVersion]
      BY <1>3 DEF Init
  <2>2. assets \in [Partitions -> 0..LastVersion]
      BY <1>2 DEF Init
  <2>3. /\ pc = "start" /\ latest \in 0..LastVersion /\ index \in Partitions \cup {NoEntry, NoIndex}
        /\ failures \in 0..MaxFailures /\ sunk \in 0..LastVersion
      BY DEF Init
  <2>4. {unindexed, moved} \subseteq BOOLEAN
      BY Zenon DEF Init
  <2> QED
      BY <1>1, <2>1, <2>2, <2>3, <2>4 DEF TypeOK
<1>5. Versioned
    BY DEF Init, Versioned, Versions
<1>6. FilesInPlace /\ SentinelMeansComplete
    BY <1>1, <1>2, <1>3 DEF Init, FilesInPlace, SentinelMeansComplete, AssetRows
<1>7. Progress /\ SunkIsLatest
    BY DEF Init, Progress, SunkIsLatest, Drops
<1>8. HomeKnown
    BY <1>3 DEF Init, HomeKnown, Homes, Here, Drops, Writes, NoIndex
<1> QED
    BY <1>4, <1>5, <1>6, <1>7, <1>8 DEF SunkInv

(* The sink is opened: an index that was built names the only home. *)
LEMMA BootstrapKeeps == ASSUME SunkInv, Bootstrap PROVE SunkInv'
<1> USE ParquetAssumption
<1>1. /\ pc = "start" /\ pc' = "idle"
      /\ UNCHANGED <<content, latest, steps, assets, runs, sunk, failures, unindexed, moved>>
    BY DEF Bootstrap, history
<1>2. \/ index # NoIndex /\ index' = index
      \/ index = NoIndex /\ index' = NoEntry /\ \A p \in Partitions : runs[p] = 0
      \/ index = NoIndex /\ index' \in Partitions /\ runs[index'] # 0
    BY DEF Bootstrap
<1>3. TypeOK'
    BY <1>1, <1>2 DEF SunkInv, TypeOK
<1>4. Versioned' /\ index' # NoIndex
    BY <1>1, <1>2 DEF SunkInv, Versioned, NoIndex, NoEntry
<1>5. FilesInPlace' /\ SentinelMeansComplete'
    BY <1>1 DEF SunkInv, FilesInPlace, SentinelMeansComplete, PartitionOf, AssetRows
<1>6. Progress' /\ SunkIsLatest'
    BY <1>1 DEF SunkInv, Progress, SunkIsLatest, Drops
<1>7. HomeKnown'
    BY <1>1, <1>2, <1>4 DEF SunkInv, HomeKnown, Homes, Here, PartitionOf, Drops, Writes
<1> QED
    BY <1>3, <1>4, <1>5, <1>6, <1>7 DEF SunkInv

(* A call begins. *)
LEMMA WriteRunKeeps == ASSUME SunkInv, NEW v \in Versions, WriteRun(v) PROVE SunkInv'
<1> USE ParquetAssumption
<1> DEFINE p == PartitionOf(v)
<1>1. /\ pc = "idle" /\ v >= latest /\ latest' = v /\ sunk' = 0
      /\ moved' = (moved \/ (unindexed /\ p # PartitionOf(latest)))
      /\ UNCHANGED <<content, steps, assets, runs, index, failures, unindexed>>
    BY DEF WriteRun
<1>2. \/ runs[p] = v /\ pc' = "index"
      \/ runs[p] # 0 /\ pc' = "steps"
      \/ runs[p] = 0 /\ StalePartition(p) /\ pc' = "drop_steps"
      \/ runs[p] = 0 /\ ~StalePartition(p) /\ pc' = "steps"
    BY DEF WriteRun
<1>3. p \in Partitions /\ Here' = p /\ v # 0 /\ v \in 0..LastVersion
    BY <1>1 DEF SunkInv, TypeOK, PartitionOf, Contents, Versions, Here
<1>4. TypeOK'
    BY <1>1, <1>2, <1>3 DEF SunkInv, TypeOK
<1>5. Versioned'
    BY <1>1, <1>2, <1>3 DEF SunkInv, Versioned
<1>6. FilesInPlace'
    BY <1>1, <1>3 DEF SunkInv, TypeOK, FilesInPlace, PartitionOf, Versions
<1>7. SentinelMeansComplete'
    BY <1>1, <1>3 DEF SunkInv, TypeOK, FilesInPlace, SentinelMeansComplete, PartitionOf, AssetRows
<1>8. Progress'
    BY <1>1, <1>2, <1>3 DEF SunkInv, Progress, Drops, StalePartition
<1>9. SunkIsLatest'
    BY <1>1 DEF SunkIsLatest
<1>10. HomeKnown'
  <2> SUFFICES ASSUME ~moved' PROVE HomeKnown'
      BY DEF HomeKnown
  <2>1. ~moved /\ (unindexed => latest # 0 /\ Here = p) /\ Homes' = Homes /\ index # NoIndex
      BY <1>1 DEF SunkInv, Versioned, Here, Homes
  <2>2. latest = 0 => Homes = {}
      BY DEF SunkInv, TypeOK, FilesInPlace, Homes
  <2>3. ~unindexed => Homes \subseteq {index}
      BY <1>1, <2>1, <2>2 DEF SunkInv, HomeKnown
  <2>4. unindexed => Homes = {p}
      BY <1>1, <2>1 DEF SunkInv, HomeKnown
  <2>5. runs[p] # 0 => Homes = {p}
      BY <1>3, <2>3, <2>4 DEF Homes
  <2>6. ~StalePartition(p) /\ ~unindexed => Homes \subseteq {p}
      BY <2>3 DEF StalePartition, Homes
  <2>7. unindexed => pc' \notin Drops
      BY <1>2, <1>3, <2>4 DEF Homes, Drops
  <2>8. pc' \in Writes \cup {"index"} => Homes \subseteq {p}
      BY <1>2, <1>3, <2>4, <2>5, <2>6 DEF Writes
  <2> QED
      BY <1>1, <1>3, <2>1, <2>3, <2>4, <2>7, <2>8 DEF HomeKnown
<1> QED
    BY <1>4, <1>5, <1>6, <1>7, <1>8, <1>9, <1>10 DEF SunkInv
(* Files of the old home are dropped, none of them of this version. *)
LEMMA DropStepsKeeps == ASSUME SunkInv, DropSteps PROVE SunkInv'
<1> USE ParquetAssumption
<1>1. /\ pc = "drop_steps" /\ pc' = "drop_assets"
      /\ steps' = [steps EXCEPT ![index] = 0]
      /\ UNCHANGED <<content, latest, assets, runs, index, sunk, failures, unindexed, moved>>
    BY DEF DropSteps, history
<1>2. index \in Partitions /\ index # Here /\ latest # 0
    BY <1>1 DEF SunkInv, Progress, Drops, Versioned
<1>3. TypeOK'
    BY <1>1, <1>2 DEF SunkInv, TypeOK
<1>4. \A p \in Partitions : steps'[p] = IF p = index THEN 0 ELSE steps[p]
    BY <1>1 DEF SunkInv, TypeOK
<1>5. Versioned' /\ FilesInPlace'
    BY <1>1, <1>4 DEF SunkInv, TypeOK, Versioned, FilesInPlace, PartitionOf
<1>6. SentinelMeansComplete'
    BY <1>1, <1>2, <1>4 DEF SunkInv, SentinelMeansComplete, PartitionOf, AssetRows, Here
<1>7. Progress' /\ SunkIsLatest'
    BY <1>1 DEF SunkInv, Progress, SunkIsLatest, Drops, Here, PartitionOf
<1>8. HomeKnown'
    BY <1>1 DEF SunkInv, HomeKnown, Homes, Here, PartitionOf, Drops, Writes
<1> QED
    BY <1>3, <1>5, <1>6, <1>7, <1>8 DEF SunkInv

(* The same of the table assets. *)
LEMMA DropAssetsKeeps == ASSUME SunkInv, DropAssets PROVE SunkInv'
<1> USE ParquetAssumption
<1>1. /\ pc = "drop_assets" /\ pc' = "drop_runs"
      /\ assets' = [assets EXCEPT ![index] = 0]
      /\ UNCHANGED <<content, latest, steps, runs, index, sunk, failures, unindexed, moved>>
    BY DEF DropAssets, history
<1>2. index \in Partitions /\ index # Here /\ latest # 0
    BY <1>1 DEF SunkInv, Progress, Drops, Versioned
<1>3. TypeOK'
    BY <1>1, <1>2 DEF SunkInv, TypeOK
<1>4. \A p \in Partitions : assets'[p] = IF p = index THEN 0 ELSE assets[p]
    BY <1>1 DEF SunkInv, TypeOK
<1>5. Versioned' /\ FilesInPlace'
    BY <1>1, <1>4 DEF SunkInv, TypeOK, Versioned, FilesInPlace, PartitionOf
<1>6. SentinelMeansComplete'
    BY <1>1, <1>2, <1>4 DEF SunkInv, SentinelMeansComplete, PartitionOf, AssetRows, Here
<1>7. Progress' /\ SunkIsLatest'
    BY <1>1 DEF SunkInv, Progress, SunkIsLatest, Drops, Here, PartitionOf
<1>8. HomeKnown'
    BY <1>1 DEF SunkInv, HomeKnown, Homes, Here, PartitionOf, Drops, Writes
<1> QED
    BY <1>3, <1>5, <1>6, <1>7, <1>8 DEF SunkInv

(* With its sentinel the old home is none any more: the run has no home. *)
LEMMA DropRunsKeeps == ASSUME SunkInv, DropRuns PROVE SunkInv'
<1> USE ParquetAssumption
<1>1. /\ pc = "drop_runs" /\ pc' = "steps"
      /\ runs' = [runs EXCEPT ![index] = 0]
      /\ UNCHANGED <<content, latest, steps, assets, index, sunk, failures, unindexed, moved>>
    BY DEF DropRuns, history
<1>2. index \in Partitions /\ latest # 0
    BY <1>1 DEF SunkInv, Progress, Drops, Versioned
<1>3. TypeOK'
    BY <1>1, <1>2 DEF SunkInv, TypeOK
<1>4. \A p \in Partitions : runs'[p] = IF p = index THEN 0 ELSE runs[p]
    BY <1>1 DEF SunkInv, TypeOK
<1>5. Versioned' /\ FilesInPlace'
    BY <1>1, <1>4 DEF SunkInv, TypeOK, Versioned, FilesInPlace, PartitionOf
<1>6. SentinelMeansComplete'
    BY <1>1, <1>2, <1>4 DEF SunkInv, SentinelMeansComplete, PartitionOf, AssetRows
<1>7. Progress' /\ SunkIsLatest'
    BY <1>1 DEF SunkInv, Progress, SunkIsLatest, Drops
<1>8. ~moved => ~unindexed /\ index # NoIndex /\ Homes \subseteq {index}
    BY <1>1, <1>2 DEF SunkInv, HomeKnown, Drops, Versioned
<1>9. ~moved => Homes' = {}
    BY <1>4, <1>8 DEF Homes
<1>10. HomeKnown'
    BY <1>1, <1>8, <1>9 DEF HomeKnown
<1> QED
    BY <1>3, <1>5, <1>6, <1>7, <1>10 DEF SunkInv

(* The step rows are written where the version belongs. *)
LEMMA WriteStepsKeeps == ASSUME SunkInv, WriteSteps PROVE SunkInv'
<1> USE ParquetAssumption
<1>1. /\ pc = "steps" /\ pc' = "assets"
      /\ steps' = [steps EXCEPT ![Here] = latest]
      /\ UNCHANGED <<content, latest, assets, runs, index, sunk, failures, unindexed, moved>>
    BY DEF WriteSteps, history, Here
<1>2. latest \in Versions /\ Here \in Partitions
    BY <1>1 DEF SunkInv, Versioned, TypeOK, Versions, Here, PartitionOf, Contents
<1>3. TypeOK'
    BY <1>1, <1>2 DEF SunkInv, TypeOK
<1>4. \A p \in Partitions : steps'[p] = IF p = Here THEN latest ELSE steps[p]
    BY <1>1 DEF SunkInv, TypeOK
<1>5. Versioned' /\ FilesInPlace'
    BY <1>1, <1>2, <1>4 DEF SunkInv, TypeOK, Versioned, FilesInPlace, PartitionOf
<1>6. SentinelMeansComplete'
    BY <1>1, <1>4 DEF SunkInv, SentinelMeansComplete, PartitionOf, AssetRows
<1>7. Progress' /\ SunkIsLatest'
    BY <1>1, <1>2, <1>4 DEF SunkInv, Progress, SunkIsLatest, Drops, Here, PartitionOf
<1>8. HomeKnown'
    BY <1>1 DEF SunkInv, HomeKnown, Homes, Here, PartitionOf, Drops, Writes
<1> QED
    BY <1>3, <1>5, <1>6, <1>7, <1>8 DEF SunkInv

(* A version without assets finds no file of an earlier one, which had none *)
(* either.                                                                 *)
LEMMA WriteAssetsKeeps == ASSUME SunkInv, WriteAssets PROVE SunkInv'
<1> USE ParquetAssumption
<1>1. /\ pc = "assets" /\ pc' = "sentinel"
      /\ assets' = [assets EXCEPT ![Here] = IF AssetRows(latest) = 0 THEN @ ELSE latest]
      /\ UNCHANGED <<content, latest, steps, runs, index, sunk, failures, unindexed, moved>>
    BY DEF WriteAssets, history, Here
<1>2. latest \in Versions /\ Here \in Partitions
    BY <1>1 DEF SunkInv, Versioned, TypeOK, Versions, Here, PartitionOf, Contents
<1>3. TypeOK'
    BY <1>1, <1>2 DEF SunkInv, TypeOK
<1>4. \A p \in Partitions :
        assets'[p] = IF p = Here /\ AssetRows(latest) # 0 THEN latest ELSE assets[p]
    BY <1>1 DEF SunkInv, TypeOK
<1>5. AssetRows(latest) = 0 => assets[Here] = 0
  <2>1. assets[Here] \in 0..LastVersion /\ assets[Here] <= latest
      BY <1>2 DEF SunkInv, TypeOK, FilesInPlace
  <2>2. assets[Here] # 0 => assets[Here] \in Versions /\ content[assets[Here]].assets
      BY <1>2, <2>1 DEF SunkInv, FilesInPlace, Versions
  <2>3. assets[Here] # 0 => content[latest].assets
      BY <1>2, <2>1, <2>2 DEF SunkInv, Versioned
  <2> QED
      BY <1>2, <2>3 DEF AssetRows, Versions
<1>6. AssetRows(latest) # 0 => content[latest].assets /\ AssetRows(latest) = latest
    BY DEF AssetRows
<1>7. assets'[Here] = AssetRows(latest)
    BY <1>2, <1>4, <1>5, <1>6
<1>8. Versioned'
    BY <1>1 DEF SunkInv, Versioned
<1>9. FilesInPlace'
    BY <1>1, <1>2, <1>4, <1>6 DEF SunkInv, TypeOK, FilesInPlace, PartitionOf, Here
<1>10. SentinelMeansComplete'
    BY <1>1, <1>4, <1>7 DEF SunkInv, SentinelMeansComplete, PartitionOf, AssetRows, Here
<1>11. Progress' /\ SunkIsLatest'
    BY <1>1, <1>7 DEF SunkInv, Progress, SunkIsLatest, Drops, Here, PartitionOf, AssetRows
<1>12. HomeKnown'
    BY <1>1 DEF SunkInv, HomeKnown, Homes, Here, PartitionOf, Drops, Writes
<1> QED
    BY <1>3, <1>8, <1>9, <1>10, <1>11, <1>12 DEF SunkInv

(* The sentinel comes last: the rows it vouches for are there. *)
LEMMA WriteSentinelKeeps == ASSUME SunkInv, WriteSentinel PROVE SunkInv'
<1> USE ParquetAssumption
<1>1. /\ pc = "sentinel" /\ pc' = "index"
      /\ runs' = [runs EXCEPT ![Here] = latest]
      /\ UNCHANGED <<content, latest, steps, assets, index, sunk, failures, unindexed, moved>>
    BY DEF WriteSentinel, history, Here
<1>2. latest \in Versions /\ latest # 0 /\ Here \in Partitions
    BY <1>1 DEF SunkInv, Versioned, TypeOK, Versions, Here, PartitionOf, Contents
<1>3. TypeOK'
    BY <1>1, <1>2 DEF SunkInv, TypeOK
<1>4. \A p \in Partitions : runs'[p] = IF p = Here THEN latest ELSE runs[p]
    BY <1>1 DEF SunkInv, TypeOK
<1>5. Versioned'
    BY <1>1 DEF SunkInv, Versioned
<1>6. FilesInPlace'
    BY <1>1, <1>2, <1>4 DEF SunkInv, TypeOK, FilesInPlace, PartitionOf, Here
<1>7. steps[Here] = latest /\ assets[Here] = AssetRows(latest)
    BY <1>1 DEF SunkInv, Progress
<1>8. SentinelMeansComplete'
    BY <1>1, <1>4, <1>7 DEF SunkInv, SentinelMeansComplete, PartitionOf, AssetRows, Here
<1>9. Progress' /\ SunkIsLatest'
    BY <1>1, <1>2, <1>4 DEF SunkInv, Progress, SunkIsLatest, Drops, Here, PartitionOf
<1>10. ~moved => Homes \subseteq {Here} /\ (unindexed => Homes = {Here}) /\ index # NoIndex
    BY <1>1, <1>2 DEF SunkInv, HomeKnown, Writes, Versioned
<1>11. ~moved => Homes' = {Here}
    BY <1>2, <1>4, <1>10 DEF Homes
<1>12. Here' = Here
    BY <1>1 DEF Here, PartitionOf
<1>13. HomeKnown'
    BY <1>1, <1>10, <1>11, <1>12 DEF HomeKnown, Drops
<1> QED
    BY <1>3, <1>5, <1>6, <1>8, <1>9, <1>13 DEF SunkInv

(* The index learns the home that the sentinel gave the run. *)
LEMMA WriteIndexKeeps == ASSUME SunkInv, WriteIndex PROVE SunkInv'
<1> USE ParquetAssumption
<1>1. /\ pc = "index" /\ pc' = "idle"
      /\ index' = Here /\ sunk' = latest /\ unindexed' = FALSE
      /\ UNCHANGED <<content, latest, steps, assets, runs, failures, moved>>
    BY DEF WriteIndex, Here
<1>2. latest \in Versions /\ latest # 0 /\ Here \in Partitions /\ Here' = Here
    BY <1>1 DEF SunkInv, Versioned, TypeOK, Versions, Here, PartitionOf, Contents
<1>3. TypeOK'
    BY <1>1, <1>2 DEF SunkInv, TypeOK
<1>4. Versioned'
    BY <1>1, <1>2 DEF SunkInv, Versioned
<1>5. FilesInPlace' /\ SentinelMeansComplete'
    BY <1>1 DEF SunkInv, FilesInPlace, SentinelMeansComplete, PartitionOf, AssetRows
<1>6. Progress'
    BY <1>1 DEF Progress, Drops
<1>7. runs[Here] = latest /\ Homes' = Homes
    BY <1>1 DEF SunkInv, Progress, Homes
<1>8. ~moved => Homes = {Here}
    BY <1>1, <1>2, <1>7 DEF SunkInv, HomeKnown, Homes
<1>9. SunkIsLatest' /\ HomeKnown'
    BY <1>1, <1>2, <1>7, <1>8 DEF SunkIsLatest, HomeKnown, Drops, Writes
<1> QED
    BY <1>3, <1>4, <1>5, <1>6, <1>9 DEF SunkInv

(* A write is cut short; a sentinel whose index entry is lost is noted. *)
LEMMA InterruptedKeeps == ASSUME SunkInv, Interrupted PROVE SunkInv'
<1> USE ParquetAssumption
<1>1. /\ pc \notin {"start", "idle"} /\ pc' \in {"idle", "start"}
      /\ failures < MaxFailures /\ failures' = failures + 1
      /\ unindexed' = (unindexed \/ (pc = "index" /\ index # Here))
      /\ UNCHANGED <<content, latest, steps, assets, runs, index, sunk, moved>>
    BY DEF Interrupted, Here
<1>2. latest \in Versions /\ latest # 0 /\ Here \in Partitions /\ Here' = Here
    BY <1>1 DEF SunkInv, Versioned, TypeOK, Versions, Here, PartitionOf, Contents
<1>3. TypeOK'
    BY <1>1 DEF SunkInv, TypeOK
<1>4. Versioned' /\ index # NoIndex
    BY <1>1, <1>2 DEF SunkInv, Versioned
<1>5. FilesInPlace' /\ SentinelMeansComplete'
    BY <1>1 DEF SunkInv, FilesInPlace, SentinelMeansComplete, PartitionOf, AssetRows
<1>6. Progress' /\ SunkIsLatest'
    BY <1>1 DEF SunkInv, Progress, SunkIsLatest, Drops
<1>7. pc = "index" => runs[Here] = latest
    BY DEF SunkInv, Progress
<1>8. Homes' = Homes /\ (~moved /\ pc = "index" => Homes = {Here})
    BY <1>1, <1>2, <1>7 DEF SunkInv, HomeKnown, Homes
<1>9. HomeKnown'
    BY <1>1, <1>2, <1>4, <1>8 DEF SunkInv, HomeKnown, Drops, Writes
<1> QED
    BY <1>3, <1>4, <1>5, <1>6, <1>9 DEF SunkInv

-----------------------------------------------------------------------------

(* The inductive invariant holds of every behaviour. *)
THEOREM SunkInvariance ==
  /\ Spec => []SunkInv
  /\ MCSpec => []SunkInv
<1>1. Init => SunkInv
    BY SunkInit
<1>2. SunkInv /\ [Next]_vars => SunkInv'
  <2> SUFFICES ASSUME SunkInv, [Next]_vars PROVE SunkInv'
      OBVIOUS
  <2>1. CASE UNCHANGED vars
      BY <2>1 DEF SunkInv, vars, TypeOK, Versioned, FilesInPlace, SentinelMeansComplete, Progress,
                  HomeKnown, SunkIsLatest, PartitionOf, AssetRows, Here, Homes
  <2>2. CASE Next
      BY <2>2, BootstrapKeeps, WriteRunKeeps, DropStepsKeeps, DropAssetsKeeps, DropRunsKeeps,
         WriteStepsKeeps, WriteAssetsKeeps, WriteSentinelKeeps, WriteIndexKeeps, InterruptedKeeps
         DEF Next
  <2> QED
      BY <2>1, <2>2
<1>3. MCInit => Init
    BY DEF MCInit
<1>4. [MCNext]_all => [Next]_vars
    BY DEF MCNext, all
<1> QED
    BY <1>1, <1>2, <1>3, <1>4, PTL DEF Spec, MCSpec

(* Files are never of a version that was not asked for, failures stay in   *)
(* their bound: the type of ParquetSink's state.                           *)
THEOREM TypeCorrectness == Spec => []TypeOK
<1>1. SunkInv => TypeOK
    BY DEF SunkInv
<1> QED
    BY <1>1, SunkInvariance, PTL

(* write_run() puts the sentinel after the rows it vouches for, and what    *)
(* returned is readable in one place, the run's own, however many versions *)
(* there are and wherever earlier writes were cut short.                   *)
THEOREM WriteSafety ==
  /\ Spec => []RunsAreWhole
  /\ MCSpec => []RunsAreWhole
<1>1. SunkInv => RunsAreWhole
  <2> SUFFICES ASSUME SunkInv PROVE RunsAreWhole
      OBVIOUS
  <2>1. SentinelMeansComplete
      BY DEF SunkInv
  <2>2. sunk # 0 => Here \in Partitions /\ PartitionOf(sunk) = Here
      BY DEF SunkInv, SunkIsLatest, TypeOK, Here, PartitionOf, Contents, Versions
  <2>3. OneHome
      BY <2>2 DEF SunkInv, SunkIsLatest, OneHome, Homes
  <2>4. RowsOfSunk
      BY <2>1, <2>2 DEF SunkInv, SunkIsLatest, RowsOfSunk, SentinelMeansComplete
  <2> QED
      BY <2>1, <2>3, <2>4 DEF RunsAreWhole
<1> QED
    BY <1>1, SunkInvariance, PTL

-----------------------------------------------------------------------------
(* MediaEmbed: for any media files, paths and manifests and any number of  *)
(* calls and faults.  First, what Without leaves of a sequence of chunks.  *)

(* A set of numbers that has 0, and the next of each it has, has them all. *)
LEMMA CountUp ==
  ASSUME NEW T, 0 \in T, \A n \in Nat : n \in T => n + 1 \in T
  PROVE  Nat \subseteq T
<1> DEFINE Out == {n \in Nat : n \notin T}
<1>1. Out \subseteq Nat
  OBVIOUS
<1>2. ASSUME Out # {} PROVE FALSE
  <2>1. PICK x \in Out : \A y \in Out : ~(<<y, x>> \in OpToRel(<, Nat))
    BY <1>1, <1>2, NatLessThanWellFounded, WFMin
  <2>2. x \in Nat /\ x # 0 /\ x - 1 \in Nat /\ x - 1 < x /\ (x - 1) + 1 = x
    OBVIOUS
  <2>3. <<x - 1, x>> \in OpToRel(<, Nat)
    BY <2>2, Zenon DEF OpToRel
  <2>4. x - 1 \in T
    BY <2>1, <2>2, <2>3
  <2> QED
    BY <2>1, <2>2, <2>4
<1> QED
  BY <1>2

(* A set with the empty sequence and, with each sequence that it has, the  *)
(* longer ones by one element, has them all.                               *)
LEMMA BuildUp ==
  ASSUME NEW S, NEW P, <<>> \in P, \A s \in Seq(S), c \in S : s \in P => Append(s, c) \in P
  PROVE  Seq(S) \subseteq P
<1> DEFINE T == {n \in Nat : \A s \in Seq(S) : Len(s) = n => s \in P}
<1>1. 0 \in T
  <2> SUFFICES ASSUME NEW s \in Seq(S), Len(s) = 0 PROVE s \in P
    OBVIOUS
  <2>1. s = <<>>
    OBVIOUS
  <2> QED
    BY <2>1
<1>2. ASSUME NEW n \in Nat, n \in T PROVE n + 1 \in T
  <2> SUFFICES ASSUME NEW s \in Seq(S), Len(s) = n + 1 PROVE s \in P
    OBVIOUS
  <2> DEFINE front == SubSeq(s, 1, n)
             last == s[n + 1]
  <2>1. front \in Seq(S) /\ Len(front) = n /\ last \in S
    OBVIOUS
  <2>2. s = Append(front, last)
    OBVIOUS
  <2>3. front \in P
    BY <1>2, <2>1
  <2> HIDE DEF front, last
  <2> QED
    BY <2>1, <2>2, <2>3
<1>3. Nat \subseteq T
  <2> HIDE DEF T
  <2> QED
    BY <1>1, <1>2, CountUp
<1> QED
  BY <1>3

(* The recursion of Without, up to the n-th chunk. *)
Turn(s, tags, f, n) ==
  IF n = 0 THEN <<>> ELSE IF s[n].tag \in tags THEN f[n - 1] ELSE Append(f[n - 1], s[n])

(* A function that is the recursion up to the k-th. *)
Unrolled(s, tags, f, k) == f = [n \in 0..k |-> Turn(s, tags, f, n)]

(* It can be unrolled. *)
LEMMA WithoutUnrolls ==
  ASSUME NEW s, NEW tags, Len(s) \in Nat
  PROVE  \E f : Unrolled(s, tags, f, Len(s)) /\ Without(s, tags) = f[Len(s)]
<1> DEFINE T == {k \in Nat : \E f : Unrolled(s, tags, f, k)}
<1>1. 0 \in T
  <2>1. Unrolled(s, tags, [n \in 0..0 |-> <<>>], 0)
    <3>1. \A n \in 0..0 : n = 0
      OBVIOUS
    <3> QED
      BY <3>1 DEF Unrolled, Turn
  <2> QED
    BY <2>1
<1>2. ASSUME NEW k \in Nat, k \in T PROVE k + 1 \in T
  <2>1. PICK f : Unrolled(s, tags, f, k)
    BY <1>2
  <2> DEFINE last == Turn(s, tags, f, k + 1)
             g == [n \in 0..(k + 1) |-> IF n = k + 1 THEN last ELSE f[n]]
  <2>2. \A n \in 0..(k + 1) : g[n] = Turn(s, tags, g, n)
    <3> SUFFICES ASSUME NEW n \in 0..(k + 1) PROVE g[n] = Turn(s, tags, g, n)
      OBVIOUS
    <3>1. CASE n = k + 1
      <4>1. n # 0 /\ n - 1 = k /\ k \in 0..(k + 1) /\ k # k + 1
        BY <3>1
      <4>2. g[n] = last /\ g[n - 1] = f[n - 1]
        BY <3>1, <4>1
      <4> HIDE DEF g
      <4> QED
        BY <3>1, <4>1, <4>2 DEF Turn
    <3>2. CASE n # k + 1
      <4>1. n \in 0..k /\ f[n] = Turn(s, tags, f, n) /\ g[n] = f[n]
        BY <2>1, <3>2 DEF Unrolled
      <4>2. n # 0 => n - 1 \in 0..(k + 1) /\ n - 1 # k + 1
        BY <3>2
      <4>3. n # 0 => g[n - 1] = f[n - 1]
        BY <4>2
      <4> HIDE DEF g
      <4> QED
        BY <4>1, <4>3 DEF Turn
    <3> QED
      BY <3>1, <3>2
  <2>3. g = [n \in 0..(k + 1) |-> g[n]]
    OBVIOUS
  <2>4. Unrolled(s, tags, g, k + 1)
    <3> HIDE DEF g
    <3> QED
      BY <2>2, <2>3 DEF Unrolled
  <2> HIDE DEF g
  <2> QED
    BY <2>4
<1>3. Len(s) \in T
  <2> HIDE DEF T
  <2>1. Nat \subseteq T
    BY <1>1, <1>2, CountUp
  <2> QED
    BY <2>1
<1> DEFINE f0 == CHOOSE f : Unrolled(s, tags, f, Len(s))
<1>4. Unrolled(s, tags, f0, Len(s))
  BY <1>3, Zenon
<1>5. Without(s, tags) = f0[Len(s)]
  BY Zenon DEF Without, Unrolled, Turn
<1> QED
  <2> HIDE DEF f0
  <2> QED
    BY <1>4, <1>5

(* Of no chunks it leaves none, and of one chunk more that one unless it   *)
(* has one of the tags.                                                    *)
LEMMA WithoutNone == ASSUME NEW tags PROVE Without(<<>>, tags) = <<>>
<1>1. Len(<<>>) = 0
  OBVIOUS
<1>2. PICK f : Unrolled(<<>>, tags, f, Len(<<>>)) /\ Without(<<>>, tags) = f[Len(<<>>)]
  BY <1>1, WithoutUnrolls
<1>3. f[0] = Turn(<<>>, tags, f, 0)
  BY <1>1, <1>2 DEF Unrolled
<1> QED
  BY <1>1, <1>2, <1>3 DEF Turn

(* Of a sequence and one chunk more. *)
LEMMA WithoutMore ==
  ASSUME NEW S, NEW s \in Seq(S), NEW c \in S, NEW tags
  PROVE  Without(Append(s, c), tags)
           = IF c.tag \in tags THEN Without(s, tags) ELSE Append(Without(s, tags), c)
<1> DEFINE more == Append(s, c)
           k == Len(s)
<1>1. k \in Nat /\ Len(more) = k + 1 /\ more[k + 1] = c /\ \A i \in 1..k : more[i] = s[i]
  OBVIOUS
<1> HIDE DEF more
<1>2. PICK f : Unrolled(s, tags, f, k) /\ Without(s, tags) = f[k]
  BY <1>1, WithoutUnrolls
<1>3. PICK g : Unrolled(more, tags, g, k + 1) /\ Without(more, tags) = g[k + 1]
  <2>1. \E g : Unrolled(more, tags, g, Len(more)) /\ Without(more, tags) = g[Len(more)]
    BY <1>1, WithoutUnrolls
  <2> QED
    BY <1>1, <2>1
<1> HIDE DEF k
<1> DEFINE T == {n \in Nat : n <= k => g[n] = f[n]}
<1>4. 0 \in T
  <2>0. 0 \in 0..k /\ 0 \in 0..(k + 1)
    BY <1>1
  <2>1. f[0] = Turn(s, tags, f, 0) /\ g[0] = Turn(more, tags, g, 0)
    BY <2>0, <1>2, <1>3 DEF Unrolled
  <2> QED
    BY <2>1 DEF Turn
<1>5. ASSUME NEW n \in Nat, n \in T PROVE n + 1 \in T
  <2> SUFFICES ASSUME n + 1 <= k PROVE g[n + 1] = f[n + 1]
    OBVIOUS
  <2>1. n + 1 \in 0..k /\ n + 1 \in 0..(k + 1) /\ n + 1 # 0 /\ (n + 1) - 1 = n /\ n + 1 \in 1..k
    BY <1>1
  <2>2. g[n] = f[n] /\ more[n + 1] = s[n + 1]
    BY <1>1, <1>5, <2>1
  <2>3. f[n + 1] = Turn(s, tags, f, n + 1) /\ g[n + 1] = Turn(more, tags, g, n + 1)
    BY <1>2, <1>3, <2>1 DEF Unrolled
  <2> QED
    BY <2>1, <2>2, <2>3 DEF Turn
<1>6. k \in T
  <2> HIDE DEF T
  <2> QED
    BY <1>1, <1>4, <1>5, CountUp
<1>7. g[k + 1] = Turn(more, tags, g, k + 1)
  BY <1>1, <1>3 DEF Unrolled
<1>8. g[k] = f[k] /\ k + 1 # 0 /\ (k + 1) - 1 = k
  BY <1>1, <1>6
<1> QED
  BY <1>1, <1>2, <1>3, <1>7, <1>8 DEF Turn, more

(* What is left are chunks of the sequence without the tags. *)
LEMMA WithoutType ==
  ASSUME NEW S, NEW tags, NEW s \in Seq(S)
  PROVE  Without(s, tags) \in Seq({c \in S : c.tag \notin tags}) /\ Without(s, tags) \in Seq(S)
<1> DEFINE L == {c \in S : c.tag \notin tags}
           P == {x \in Seq(S) : Without(x, tags) \in Seq(L)}
<1>1. <<>> \in P
  <2>1. Without(<<>>, tags) = <<>> /\ <<>> \in Seq(S) /\ <<>> \in Seq(L)
    BY WithoutNone
  <2> QED
    BY <2>1
<1>2. ASSUME NEW x \in Seq(S), NEW c \in S, x \in P PROVE Append(x, c) \in P
  <2>1. Without(Append(x, c), tags) = IF c.tag \in tags THEN Without(x, tags)
                                      ELSE Append(Without(x, tags), c)
    BY WithoutMore
  <2> QED
    BY <1>2, <2>1
<1>3. Seq(S) \subseteq P
  <2> HIDE DEF P
  <2> QED
    BY <1>1, <1>2, BuildUp
<1>4. Without(s, tags) \in Seq(L)
  BY <1>3
<1>5. Seq(L) \subseteq Seq(S)
  OBVIOUS
<1> QED
  BY <1>4, <1>5

(* One element more at the end of two sequences. *)
LEMMA AppendLast ==
  ASSUME NEW S
  PROVE  \A c \in S : \A s, t \in Seq(S) : Append(s \o t, c) = s \o Append(t, c)
OBVIOUS

(* One part after the other. *)
LEMMA WithoutConcat ==
  ASSUME NEW S, NEW tags, NEW s \in Seq(S), NEW t \in Seq(S)
  PROVE  Without(s \o t, tags) = Without(s, tags) \o Without(t, tags)
<1> DEFINE P == {x \in Seq(S) : Without(s \o x, tags) = Without(s, tags) \o Without(x, tags)}
<1>1. <<>> \in P
  <2>1. Without(<<>>, tags) = <<>> /\ Without(s, tags) \in Seq(S)
    BY WithoutNone, WithoutType
  <2>2. s \o <<>> = s /\ Without(s, tags) \o <<>> = Without(s, tags) /\ <<>> \in Seq(S)
    BY <2>1
  <2> QED
    BY <2>1, <2>2
<1>2. ASSUME NEW x \in Seq(S), NEW c \in S, x \in P PROVE Append(x, c) \in P
  <2>1. s \o Append(x, c) = Append(s \o x, c) /\ s \o x \in Seq(S)
    OBVIOUS
  <2>2. Without(Append(x, c), tags) = IF c.tag \in tags THEN Without(x, tags)
                                      ELSE Append(Without(x, tags), c)
    BY WithoutMore
  <2>3. Without(Append(s \o x, c), tags) = IF c.tag \in tags THEN Without(s \o x, tags)
                                           ELSE Append(Without(s \o x, tags), c)
    BY <2>1, WithoutMore
  <2>4. Without(s \o x, tags) = Without(s, tags) \o Without(x, tags)
    BY <1>2
  <2>5. Without(s, tags) \in Seq(S) /\ Without(x, tags) \in Seq(S)
    BY WithoutType
  <2>6. Append(Without(s, tags) \o Without(x, tags), c)
          = Without(s, tags) \o Append(Without(x, tags), c)
    <3>1. \A a, b \in Seq(S) : Append(a \o b, c) = a \o Append(b, c)
      BY AppendLast, Zenon
    <3> QED
      BY <2>5, <3>1, Zenon
  <2>7. Without(s \o Append(x, c), tags) = Without(s, tags) \o Without(Append(x, c), tags)
    BY <2>1, <2>2, <2>3, <2>4, <2>6
  <2> QED
    BY <2>7
<1>3. Seq(S) \subseteq P
  <2> HIDE DEF P
  <2> QED
    BY <1>1, <1>2, BuildUp
<1> QED
  BY <1>3

(* Taken away before or now. *)
LEMMA WithoutTwice ==
  ASSUME NEW S, NEW few, NEW tags, few \subseteq tags, NEW s \in Seq(S)
  PROVE  Without(Without(s, few), tags) = Without(s, tags)
<1> DEFINE P == {x \in Seq(S) : Without(Without(x, few), tags) = Without(x, tags)}
<1>1. <<>> \in P
  BY WithoutNone
<1>2. ASSUME NEW x \in Seq(S), NEW c \in S, x \in P PROVE Append(x, c) \in P
  <2>1. Without(x, few) \in Seq(S)
    BY WithoutType
  <2>2. Without(Append(x, c), few) = IF c.tag \in few THEN Without(x, few)
                                     ELSE Append(Without(x, few), c)
    BY WithoutMore
  <2>3. Without(Append(x, c), tags) = IF c.tag \in tags THEN Without(x, tags)
                                      ELSE Append(Without(x, tags), c)
    BY WithoutMore
  <2>4. Without(Append(Without(x, few), c), tags)
          = IF c.tag \in tags THEN Without(Without(x, few), tags)
            ELSE Append(Without(Without(x, few), tags), c)
    BY <2>1, WithoutMore
  <2>5. Without(Without(x, few), tags) = Without(x, tags)
    BY <1>2
  <2>6. Without(Without(Append(x, c), few), tags) = Without(Append(x, c), tags)
    BY <2>2, <2>3, <2>4, <2>5
  <2> QED
    BY <2>6
<1>3. Seq(S) \subseteq P
  <2> HIDE DEF P
  <2> QED
    BY <1>1, <1>2, BuildUp
<1> QED
  BY <1>3

(* Where there is nothing to take. *)
LEMMA WithoutAny ==
  ASSUME NEW S, NEW tags, NEW s \in Seq(S), \A i \in DOMAIN s : s[i].tag \notin tags
  PROVE  Without(s, tags) = s
<1> DEFINE L == {c \in S : c.tag \notin tags}
           P == {x \in Seq(L) : Without(x, tags) = x}
<1>1. <<>> \in P
  BY WithoutNone
<1>2. ASSUME NEW x \in Seq(L), NEW c \in L, x \in P PROVE Append(x, c) \in P
  <2>1. Without(Append(x, c), tags) = IF c.tag \in tags THEN Without(x, tags)
                                      ELSE Append(Without(x, tags), c)
    BY WithoutMore
  <2> QED
    BY <1>2, <2>1
<1>3. Seq(L) \subseteq P
  <2> HIDE DEF P, L
  <2> QED
    BY <1>1, <1>2, BuildUp
<1>4. s \in Seq(L)
  OBVIOUS
<1> QED
  BY <1>3, <1>4

(* A chunk of its own. *)
LEMMA WithoutOne ==
  ASSUME NEW S, NEW tags, NEW c \in S
  PROVE  Without(<<c>>, tags) = IF c.tag \in tags THEN <<>> ELSE <<c>>
<1>1. <<>> \in Seq(S) /\ Append(<<>>, c) = <<c>>
  OBVIOUS
<1>2. Without(Append(<<>>, c), tags) = IF c.tag \in tags THEN Without(<<>>, tags)
                                       ELSE Append(Without(<<>>, tags), c)
  BY <1>1, WithoutMore
<1> QED
  BY <1>1, <1>2, WithoutNone

(* The least of some numbers is one of them. *)
LEMMA FirstIsLeast ==
  ASSUME NEW places, places \subseteq Nat \ {0}
  PROVE  /\ places = {} <=> First(places) = 0
         /\ places # {} => First(places) \in places /\ \A i \in places : First(places) <= i
<1>1. places = {} => First(places) = 0
  BY DEF First
<1>2. ASSUME places # {}
      PROVE  First(places) \in places /\ \A i \in places : First(places) <= i
  <2>1. PICK x \in places : \A y \in places : ~(<<y, x>> \in OpToRel(<, Nat))
    BY <1>2, NatLessThanWellFounded, WFMin
  <2>2. \A y \in places : ~(y < x)
    <3> SUFFICES ASSUME NEW y \in places, y < x PROVE FALSE
      OBVIOUS
    <3>1. <<y, x>> \in OpToRel(<, Nat)
      BY Zenon DEF OpToRel
    <3> QED
      BY <2>1, <3>1
  <2>3. \A y \in places : x <= y
    BY <2>2
  <2> QED
    BY <1>2, <2>3 DEF First
<1> QED
  BY <1>1, <1>2

(* The formats as the embedder has them. *)
FormatsMeanTheSame ==
  /\ \A s, tags : E!Without(s, tags) = Without(s, tags)
  /\ \A h, f, m : E!EmbedWith(h, f, m) = EmbedWith(h, f, m)
  /\ \A h, f : E!ExtractWith(h, f) = ExtractWith(h, f)
  /\ \A f : E!Handler(f) = Handler(f)
  /\ \A s : E!Broken(s) = Broken(s)

(* They are the same. *)
LEMMA OneLibrary == FormatsMeanTheSame
<1>1. ASSUME NEW s, NEW tags PROVE E!Without(s, tags) = Without(s, tags)
  BY Zenon DEF E!Without, Without
<1>2. ASSUME NEW h, NEW f, NEW m PROVE E!EmbedWith(h, f, m) = EmbedWith(h, f, m)
  BY Zenon DEF E!EmbedWith, E!PngEmbed, E!JpegEmbed, E!WebpEmbed, E!WavEmbed, E!Mp4Embed, E!TagEmbed,
     E!Without, E!Find, E!First, E!FirstOpen, E!Before, E!From, E!Reached, E!Unreached, E!Broken,
     E!Holding, E!Raised, E!JpegHeader, E!JpegScan, E!WebpChunks,
     EmbedWith, PngEmbed, JpegEmbed, WebpEmbed, WavEmbed, Mp4Embed, TagEmbed,
     Without, Find, First, FirstOpen, Before, From, Reached, Unreached, Broken,
     Holding, Raised, JpegHeader, JpegScan, WebpChunks
<1>3. ASSUME NEW h, NEW f PROVE E!ExtractWith(h, f) = ExtractWith(h, f)
  BY Zenon DEF E!ExtractWith, E!PngExtract, E!JpegExtract, E!WebpExtract, E!WavExtract, E!Mp4Extract,
     E!TagExtract, E!Payload, E!FromPackets, E!Capped, E!AnySize,
     E!Find, E!First, E!FirstOpen, E!Before, E!From, E!Reached, E!Unreached, E!Broken,
     E!Holding, E!Raised, E!JpegHeader, E!JpegScan, E!WebpChunks,
     ExtractWith, PngExtract, JpegExtract, WebpExtract, WavExtract, Mp4Extract,
     TagExtract, Payload, FromPackets, Capped, AnySize,
     Find, First, FirstOpen, Before, From, Reached, Unreached, Broken,
     Holding, Raised, JpegHeader, JpegScan, WebpChunks
<1>4. ASSUME NEW f PROVE E!Handler(f) = Handler(f)
  BY Zenon DEF E!Handler, Handler
<1>5. ASSUME NEW s PROVE E!Broken(s) = Broken(s)
  BY Zenon DEF E!Broken, Broken
<1> QED
  BY <1>1, <1>2, <1>3, <1>4, <1>5, Zenon DEF FormatsMeanTheSame

(* A sequence cut before a place, or not at all. *)
LEMMA Cut ==
  ASSUME NEW S, NEW s \in Seq(S), NEW k \in 0..Len(s)
  PROVE  /\ Before(s, k) \in Seq(S) /\ From(s, k) \in Seq(S)
         /\ Before(s, k) \o From(s, k) = s
         /\ k # 0 => Len(Before(s, k)) = k - 1 /\ \A i \in 1..(k - 1) : Before(s, k)[i] = s[i]
<1>1. CASE k = 0
  BY <1>1 DEF Before, From
<1>2. CASE k # 0
  <2>1. Before(s, k) = SubSeq(s, 1, k - 1) /\ From(s, k) = SubSeq(s, k, Len(s))
    BY <1>2 DEF Before, From
  <2>2. /\ SubSeq(s, 1, k - 1) \in Seq(S) /\ SubSeq(s, k, Len(s)) \in Seq(S)
        /\ Len(SubSeq(s, 1, k - 1)) = k - 1
        /\ \A i \in 1..(k - 1) : SubSeq(s, 1, k - 1)[i] = s[i]
    BY <1>2
  <2>3. SubSeq(s, 1, k - 1) \o SubSeq(s, k, Len(s)) = s
    BY <1>2
  <2> QED
    BY <2>1, <2>2, <2>3
<1> QED
  BY <1>1, <1>2

(* The place of the first chunk with a tag. *)
LEMMA FindSays ==
  ASSUME NEW S, NEW s \in Seq(S), NEW tag
  PROVE  /\ Find(s, tag) \in 0..Len(s)
         /\ Find(s, tag) = 0 => \A i \in DOMAIN s : s[i].tag # tag
         /\ Find(s, tag) # 0 => /\ s[Find(s, tag)].tag = tag
                                /\ \A i \in 1..(Find(s, tag) - 1) : s[i].tag # tag
<1> DEFINE places == {i \in DOMAIN s : s[i].tag = tag}
<1>1. places \subseteq Nat \ {0} /\ places \subseteq 1..Len(s) /\ Len(s) \in Nat
  OBVIOUS
<1>2. /\ places = {} <=> First(places) = 0
      /\ places # {} => First(places) \in places /\ \A i \in places : First(places) <= i
  <2> HIDE DEF places
  <2> QED
    BY <1>1, FirstIsLeast
<1> DEFINE k == Find(s, tag)
<1>3. k = First(places)
  BY DEF Find
<1> HIDE DEF k
<1>4. /\ places = {} <=> k = 0
      /\ places # {} => k \in places /\ \A i \in places : k <= i
  <2> HIDE DEF places
  <2> QED
    BY <1>2, <1>3
<1>5. k \in 0..Len(s)
  <2> HIDE DEF places
  <2>1. places # {} => k \in 1..Len(s)
    BY <1>1, <1>4
  <2> QED
    BY <1>1, <1>4, <2>1
<1>6. k = 0 => \A i \in DOMAIN s : s[i].tag # tag
  BY <1>4
<1>7. k # 0 => s[k].tag = tag /\ \A i \in 1..(k - 1) : s[i].tag # tag
  <2> SUFFICES ASSUME k # 0 PROVE s[k].tag = tag /\ \A i \in 1..(k - 1) : s[i].tag # tag
    OBVIOUS
  <2>1. k \in places /\ k \in 1..Len(s)
    BY <1>4, <1>5
  <2>2. \A i \in 1..(k - 1) : i \in DOMAIN s /\ i \notin places
    BY <1>1, <1>4, <2>1
  <2> QED
    BY <2>1, <2>2
<1> QED
  BY <1>5, <1>6, <1>7 DEF k

(* It is where it is and where none is before it. *)
FirstWith(r, tag, k) ==
  k \in DOMAIN r /\ r[k].tag = tag /\ \A i \in DOMAIN r : i < k => r[i].tag # tag


(* Its chunk is the one a reader takes. *)
Shows(s, tag, x) == \E n : FirstWith(s, tag, n) /\ s[n] = x

(* Find finds the first. *)
LEMMA FoundAt ==
  ASSUME NEW S, NEW r \in Seq(S), NEW tag, NEW k, FirstWith(r, tag, k)
  PROVE  Find(r, tag) = k
<1> USE DEF FirstWith
<1> DEFINE j == Find(r, tag)
<1>1. /\ j \in 0..Len(r)
      /\ j = 0 => \A i \in DOMAIN r : r[i].tag # tag
      /\ j # 0 => r[j].tag = tag /\ \A i \in 1..(j - 1) : r[i].tag # tag
  BY FindSays
<1> HIDE DEF j
<1>2. k \in 1..Len(r) /\ Len(r) \in Nat
  OBVIOUS
<1>3. j # 0
  BY <1>1
<1>4. ~(j < k)
  BY <1>1, <1>2, <1>3
<1>5. ~(k < j)
  BY <1>1, <1>2, <1>3
<1>6. j = k
  BY <1>1, <1>2, <1>4, <1>5
<1> QED
  BY <1>6 DEF j

(* Two parts of one sequence. *)
Joined(a, b, c) == a \o b = c

(* In a file without open chunks the walkers reach everything. *)
LEMMA AllReached ==
  ASSUME NEW S, NEW s \in Seq(S), ~Broken(s)
  PROVE  Reached(s) = s /\ Unreached(s) = <<>>
<1>1. {i \in DOMAIN s : s[i].open} = {}
  BY DEF Broken
<1>2. FirstOpen(s) = 0
  BY <1>1 DEF FirstOpen, First
<1> QED
  BY <1>2 DEF Reached, Unreached, Before, From

(* They stop within the file. *)
LEMMA FirstOpenSays ==
  ASSUME NEW S, NEW s \in Seq(S)
  PROVE  FirstOpen(s) \in 0..Len(s)
<1> DEFINE places == {i \in DOMAIN s : s[i].open}
<1>1. places \subseteq Nat \ {0} /\ places \subseteq 1..Len(s) /\ Len(s) \in Nat
  OBVIOUS
<1> DEFINE k == FirstOpen(s)
<1>2. k = First(places)
  BY DEF FirstOpen
<1> HIDE DEF k, places
<1>3. places = {} => k = 0
  BY <1>1, <1>2, FirstIsLeast
<1>4. places # {} => k \in places
  BY <1>1, <1>2, FirstIsLeast
<1>5. places # {} => k \in 1..Len(s)
  BY <1>1, <1>4
<1>6. k \in 0..Len(s)
  BY <1>1, <1>3, <1>5
<1> QED
  BY <1>6 DEF k


-----------------------------------------------------------------------------
(* What each format's handler makes of a file. *)

(* The manifest that is found is the one of the first chunk with the tag. *)
LEMMA PayloadIs ==
  ASSUME NEW S, NEW r \in Seq(S), NEW tag, NEW k, FirstWith(r, tag, k),
         NEW sizes, SizeOf[r[k].manifest] \in sizes
  PROVE  Payload(r, tag, sizes) = r[k].manifest
<1>1. Find(r, tag) = k
  BY FoundAt
<1>2. k # 0
  BY DEF FirstWith
<1> QED
  BY <1>1, <1>2 DEF Payload

(* A chunk put behind the first one, and its kind taken from the rest. *)
BehindHead(c, x, tag) == <<Head(c), x>> \o Without(Tail(c), {tag})

(* Nothing else changes. *)
LEMMA SecondPut ==
  ASSUME NEW S, NEW c \in Seq(S), c # <<>>, NEW x \in S, NEW tag, x.tag = tag,
         NEW r, r = BehindHead(c, x, tag)
  PROVE  /\ r \in Seq(S) /\ r # <<>> /\ r[1] = c[1] /\ 2 \in DOMAIN r /\ r[2] = x
         /\ \A ours : tag \in ours => Without(r, ours) = Without(c, ours)
<1> DEFINE h == <<Head(c)>>
           t == Tail(c)
           y == <<x>>
           w == Without(t, {tag})
<1>1. h \in Seq(S) /\ t \in Seq(S) /\ y \in Seq(S) /\ h \o t = c /\ <<Head(c), x>> = h \o y
  OBVIOUS
<1>2. w \in Seq(S)
  BY <1>1, WithoutType
<1>3. r \in Seq(S) /\ r # <<>> /\ r[1] = c[1] /\ 2 \in DOMAIN r /\ r[2] = x
  <2> DEFINE q == <<Head(c), x>> \o w
  <2>1. q \in Seq(S) /\ q # <<>> /\ q[1] = c[1] /\ 2 \in DOMAIN q /\ q[2] = x
    <3> HIDE DEF w
    <3> QED
      BY <1>2
  <2>2. r = q
    BY DEF BehindHead
  <2> HIDE DEF q
  <2> QED
    BY <2>1, <2>2
<1>4. r = (h \o y) \o w
  BY <1>1 DEF BehindHead
<1>6. ASSUME NEW ours, tag \in ours PROVE Without(r, ours) = Without(c, ours)
  <2>1. Without(h \o y \o w, ours) = Without(h, ours) \o Without(w, ours)
    <3>0. Without(y, ours) = <<>>
      BY <1>6, WithoutOne
    <3> HIDE DEF h, w, y
    <3>1. h \o y \in Seq(S) /\ h \in Seq(S) /\ y \in Seq(S) /\ w \in Seq(S)
      BY <1>1, <1>2
    <3>2. Without(h \o y, ours) = Without(h, ours) \o Without(y, ours)
      BY <3>1, WithoutConcat
    <3>3. Without((h \o y) \o w, ours) = Without(h \o y, ours) \o Without(w, ours)
      BY <3>1, WithoutConcat
    <3>4. Without(h, ours) \o <<>> = Without(h, ours)
      BY <3>1, WithoutType
    <3> QED
      BY <3>0, <3>2, <3>3, <3>4
  <2>2. Without(w, ours) = Without(t, ours)
    <3> HIDE DEF t
    <3>1. {tag} \subseteq ours
      BY <1>6
    <3> QED
      BY <1>1, <3>1, WithoutTwice
  <2>3. Without(h \o t, ours) = Without(h, ours) \o Without(t, ours)
    <3> HIDE DEF h, t
    <3> QED
      BY <1>1, WithoutConcat, Zenon
  <2> HIDE DEF h, t, w, y
  <2> QED
    BY <1>1, <1>4, <2>1, <2>2, <2>3, Zenon
<1> QED
  BY <1>3, <1>6

(* A chunk put last, with its kind taken from the part that was reached. *)
AtEnd(a, b, x, tags) == Without(a, tags) \o b \o <<x>>

(* Nothing but the chunk and the tags that were taken changes. *)
LEMMA LastPut ==
  ASSUME NEW S, NEW a \in Seq(S), NEW b \in Seq(S), NEW x \in S, NEW tags, NEW tag, x.tag = tag,
         NEW c, Joined(a, b, c),
         NEW r, r = AtEnd(a, b, x, tags)
  PROVE  /\ r \in Seq(S) /\ r # <<>>
         /\ b = <<>> /\ tag \in tags => Shows(r, tag, x)
         /\ \A ours : tag \in ours /\ tags \subseteq ours => Without(r, ours) = Without(c, ours)
<1> DEFINE w == Without(a, tags)
           y == <<x>>
<1>1. w \in Seq(S) /\ y \in Seq(S)
  <2>1. w \in Seq(S)
    BY WithoutType
  <2> HIDE DEF w
  <2> QED
    BY <2>1
<1>0. r = (w \o b) \o y
  BY DEF AtEnd
<1>2. r \in Seq(S) /\ r # <<>> /\ w \o b \in Seq(S)
  <2> DEFINE q == (w \o b) \o y
  <2>1. q \in Seq(S) /\ q # <<>> /\ w \o b \in Seq(S)
    <3> HIDE DEF w
    <3> QED
      BY <1>1
  <2> HIDE DEF q
  <2> QED
    BY <1>0, <2>1 DEF q
<1>3. ASSUME NEW ours, tag \in ours, tags \subseteq ours
      PROVE  Without(r, ours) = Without(c, ours)
  <2>1. Without((w \o b) \o y, ours) = Without(w \o b, ours)
    <3> DEFINE u == w \o b
    <3>0. Without(y, ours) = <<>>
      BY <1>3, WithoutOne
    <3> HIDE DEF u, y
    <3>1. u \in Seq(S) /\ y \in Seq(S)
      BY <1>1, <1>2 DEF u
    <3>2. Without(u \o y, ours) = Without(u, ours) \o Without(y, ours)
      BY <3>1, WithoutConcat
    <3>3. Without(u, ours) \o <<>> = Without(u, ours)
      BY <3>1, WithoutType
    <3>4. Without(u \o y, ours) = Without(u, ours)
      BY <3>0, <3>2, <3>3
    <3> QED
      BY <3>4 DEF u
  <2>2. Without(w \o b, ours) = Without(w, ours) \o Without(b, ours)
    <3> HIDE DEF w
    <3> QED
      BY <1>1, WithoutConcat, Zenon
  <2>3. Without(w, ours) = Without(a, ours)
    BY <1>3, WithoutTwice
  <2>4. Without(a \o b, ours) = Without(a, ours) \o Without(b, ours)
    BY WithoutConcat, Zenon
  <2> HIDE DEF w, y
  <2> QED
    BY <1>0, <2>1, <2>2, <2>3, <2>4, Zenon DEF Joined
<1>4. ASSUME b = <<>>, tag \in tags PROVE Shows(r, tag, x)
  <2>1. w \in Seq({e \in S : e.tag \notin tags})
    BY WithoutType
  <2>2. w \o b = w
    <3> HIDE DEF w
    <3> QED
      BY <1>1, <1>4
  <2> DEFINE q == w \o y
             n == Len(w) + 1
  <2>3. n \in DOMAIN q /\ q[n] = x /\ \A i \in DOMAIN q : i < n => q[i].tag \notin tags
    <3> HIDE DEF w
    <3> QED
      BY <2>1
  <2>4. r = q
    BY <1>0, <2>2, Zenon
  <2> HIDE DEF q, n
  <2> QED
    BY <1>4, <2>3, <2>4 DEF Shows, FirstWith
<1> QED
  BY <1>2, <1>3, <1>4

(* Chunks that are all whole. *)
LEMMA WholeMeans ==
  ASSUME NEW S, \A x \in S : ~x.open, NEW s \in Seq(S)
  PROVE  ~Broken(s)
BY DEF Broken

(* PNG. *)
LEMMA PngIsFaithful ==
  ASSUME NEW S, NEW c \in Seq(S), c # <<>>, NEW m, Holding("own", m) \in S,
         NEW r, r = PngEmbed(c, m), r # Raised
  PROVE  /\ r \in Seq(S) /\ r # <<>>
         /\ \A ours : "own" \in ours => Without(r, ours) = Without(c, ours)
         /\ (\A y \in S : ~y.open) /\ SizeOf[m] \in Capped => PngExtract(r) = m
<1> DEFINE x == Holding("own", m)
<1>1. r = BehindHead(c, x, "own")
  BY DEF PngEmbed, BehindHead
<1>0. c[1].tag = "head"
  BY DEF PngEmbed
<1>2. x.tag = "own" /\ x.manifest = m /\ x \in S
  BY DEF Holding
<1> HIDE DEF x
<1>3. /\ r \in Seq(S) /\ r # <<>> /\ r[1] = c[1] /\ 2 \in DOMAIN r /\ r[2] = x
      /\ \A ours : "own" \in ours => Without(r, ours) = Without(c, ours)
  BY <1>1, <1>2, SecondPut
<1>4. ASSUME \A y \in S : ~y.open, SizeOf[m] \in Capped PROVE PngExtract(r) = m
  <2>1. \A i \in DOMAIN r : i < 2 => r[i].tag # "own"
    BY <1>0, <1>3
  <2>2. Find(r, "own") = 2 /\ Payload(r, "own", Capped) = m
    <3>1. FirstWith(r, "own", 2) /\ r[2].manifest = m
      BY <1>2, <1>3, <2>1 DEF FirstWith
    <3>2. Find(r, "own") = 2 /\ Payload(r, "own", Capped) = r[2].manifest
      BY <1>3, <1>4, <3>1, FoundAt, PayloadIs
    <3> QED
      BY <3>1, <3>2
  <2>3. Before(r, 2) \in Seq(S)
    BY <1>3, Cut
  <2>4. ~Broken(Before(r, 2))
    BY <2>3, <1>4, WholeMeans
  <2> QED
    BY <2>2, <2>4 DEF PngExtract
<1> QED
  BY <1>3, <1>4

(* The formats of mutagen. *)
LEMMA TagIsFaithful ==
  ASSUME NEW S, NEW c \in Seq(S), c # <<>>, NEW m, Holding("tag", m) \in S,
         NEW r, r = TagEmbed(c, m)
  PROVE  /\ r \in Seq(S) /\ r # <<>> /\ r[1] = c[1]
         /\ \A ours : "tag" \in ours => Without(r, ours) = Without(c, ours)
         /\ \A sizes : c[1].tag # "tag" /\ SizeOf[m] \in sizes => TagExtract(r, sizes) = m
<1> DEFINE x == Holding("tag", m)
<1>1. r = BehindHead(c, x, "tag")
  BY DEF TagEmbed, BehindHead
<1>2. x.tag = "tag" /\ x.manifest = m /\ x \in S
  BY DEF Holding
<1> HIDE DEF x
<1>3. /\ r \in Seq(S) /\ r # <<>> /\ r[1] = c[1] /\ 2 \in DOMAIN r /\ r[2] = x
      /\ \A ours : "tag" \in ours => Without(r, ours) = Without(c, ours)
  BY <1>1, <1>2, SecondPut
<1>4. ASSUME NEW sizes, c[1].tag # "tag", SizeOf[m] \in sizes PROVE TagExtract(r, sizes) = m
  <2>1. \A i \in DOMAIN r : i < 2 => r[i].tag # "tag"
    BY <1>3, <1>4
  <2>2. FirstWith(r, "tag", 2) /\ r[2].manifest = m
    BY <1>2, <1>3, <2>1 DEF FirstWith
  <2>3. Payload(r, "tag", sizes) = r[2].manifest
    BY <1>3, <1>4, <2>2, PayloadIs
  <2> QED
    BY <2>2, <2>3 DEF TagExtract
<1> QED
  BY <1>3, <1>4

(* A chunk put between two parts, with a reader that stops at a tag the    *)
(* first part and the chunk do not have.                                   *)
PutBetween(a, x, t) == a \o <<x>> \o t

(* A part without a tag. *)
Lacks(s, tag) == \A i \in DOMAIN s : s[i].tag # tag

(* The reader stops behind the chunk. *)
LEMMA MiddlePut ==
  ASSUME NEW S, NEW a \in Seq(S), NEW t \in Seq(S), NEW x \in S, NEW tag, NEW stop,
         x.tag = tag, tag # stop, Lacks(a, tag), Lacks(a, stop),
         NEW r, r = PutBetween(a, x, t)
  PROVE  /\ r \in Seq(S) /\ r # <<>>
         /\ Before(r, Find(r, stop)) \in Seq(S)
         /\ Shows(Before(r, Find(r, stop)), tag, x)
         /\ \A ours : tag \in ours => Joined(Without(a, ours), Without(t, ours), Without(r, ours))
<1> DEFINE n == Len(a) + 1
           k == Find(r, stop)
           h == Before(r, k)
<1>1. /\ r \in Seq(S) /\ r # <<>> /\ n \in DOMAIN r /\ r[n] = x
      /\ \A i \in DOMAIN r : i < n => r[i].tag # tag /\ r[i].tag # stop
  <2> DEFINE q == a \o <<x>> \o t
  <2>1. /\ q \in Seq(S) /\ q # <<>> /\ n \in DOMAIN q /\ q[n] = x
        /\ \A i \in DOMAIN q : i < n => i \in DOMAIN a /\ q[i] = a[i]
    OBVIOUS
  <2>2. r = q
    BY DEF PutBetween
  <2> HIDE DEF q
  <2> QED
    BY <2>1, <2>2 DEF Lacks
<1>2. n \in Nat \ {0} /\ Len(r) \in Nat /\ DOMAIN r = 1..Len(r)
  BY <1>1
<1> HIDE DEF n
<1>3. /\ k \in 0..Len(r)
      /\ k # 0 => r[k].tag = stop
  BY <1>1, FindSays
<1>4. k = 0 \/ n < k
  <2> SUFFICES ASSUME k # 0, ~(n < k) PROVE FALSE
    OBVIOUS
  <2>1. k \in DOMAIN r /\ r[k].tag = stop
    BY <1>2, <1>3
  <2> HIDE DEF k
  <2>2. k < n \/ k = n
    BY <1>2, <1>3
  <2> QED
    BY <1>1, <2>1, <2>2
<1>5. h \in Seq(S) /\ n \in DOMAIN h /\ \A i \in DOMAIN h : i \in DOMAIN r /\ h[i] = r[i]
  <2> HIDE DEF k
  <2>1. k = 0 => h = r
    BY DEF Before
  <2>2. h \in Seq(S) /\ (k # 0 => Len(h) = k - 1 /\ \A i \in 1..(k - 1) : h[i] = r[i])
    BY <1>1, <1>3, Cut
  <2> HIDE DEF h
  <2>3. CASE k = 0
    BY <1>1, <2>1, <2>3
  <2>4. CASE k # 0
    BY <1>2, <1>3, <1>4, <2>2, <2>4
  <2> QED
    BY <2>3, <2>4
<1>6. Shows(h, tag, x)
  <2> HIDE DEF h
  <2>1. FirstWith(h, tag, n) /\ h[n] = x
    BY <1>1, <1>5 DEF FirstWith
  <2> QED
    BY <2>1 DEF Shows
<1>7. ASSUME NEW ours, tag \in ours
      PROVE  Joined(Without(a, ours), Without(t, ours), Without(r, ours))
  <2> DEFINE y == <<x>>
  <2>0. Without(y, ours) = <<>> /\ y \in Seq(S)
    BY <1>7, WithoutOne
  <2>1. r = (a \o y) \o t
    BY DEF PutBetween
  <2> HIDE DEF y
  <2>2. a \o y \in Seq(S)
    BY <2>0
  <2>3. Without(a \o y, ours) = Without(a, ours) \o Without(y, ours)
    BY <2>0, WithoutConcat
  <2>4. Without((a \o y) \o t, ours) = Without(a \o y, ours) \o Without(t, ours)
    BY <2>2, WithoutConcat
  <2>5. Without(a, ours) \o <<>> = Without(a, ours)
    BY WithoutType
  <2>6. Without((a \o y) \o t, ours) = Without(a, ours) \o Without(t, ours)
    BY <2>0, <2>3, <2>4, <2>5
  <2> QED
    BY <2>1, <2>6, Zenon DEF Joined
<1> HIDE DEF h
<1> QED
  BY <1>1, <1>5, <1>6, <1>7, Zenon DEF h, k

(* A part without a tag of its own and of what was kept of it. *)
LEMMA StillLacks ==
  ASSUME NEW S, NEW s \in Seq(S), NEW tags, NEW tag, tag \in tags \/ Lacks(s, tag)
  PROVE  Lacks(Without(s, tags), tag)
<1> DEFINE w == Without(s, tags)
<1>1. CASE tag \in tags
  <2>1. w \in Seq({c \in S : c.tag \notin tags})
    BY WithoutType
  <2> HIDE DEF w
  <2>2. Lacks(w, tag)
    BY <1>1, <2>1 DEF Lacks
  <2> QED
    BY <2>2 DEF w
<1>2. CASE Lacks(s, tag)
  <2> DEFINE L == {c \in S : c.tag # tag}
  <2>1. s \in Seq(L)
    BY <1>2 DEF Lacks
  <2>2. w \in Seq(L)
    <3> HIDE DEF L
    <3> QED
      BY <2>1, WithoutType
  <2> HIDE DEF w
  <2>3. Lacks(w, tag)
    BY <2>2 DEF Lacks
  <2> QED
    BY <2>3 DEF w
<1> QED
  BY <1>1, <1>2

(* The parts before and from the first chunk with a tag. *)
LEMMA Parted ==
  ASSUME NEW S, NEW s \in Seq(S), NEW tag
  PROVE  /\ Before(s, Find(s, tag)) \in Seq(S) /\ From(s, Find(s, tag)) \in Seq(S)
         /\ Joined(Before(s, Find(s, tag)), From(s, Find(s, tag)), s)
         /\ Lacks(Before(s, Find(s, tag)), tag)
<1> DEFINE k == Find(s, tag)
           b == Before(s, k)
<1>1. /\ k \in 0..Len(s)
      /\ k = 0 => \A i \in DOMAIN s : s[i].tag # tag
      /\ k # 0 => \A i \in 1..(k - 1) : s[i].tag # tag
  BY FindSays
<1> HIDE DEF k
<1>2. /\ b \in Seq(S) /\ From(s, k) \in Seq(S) /\ b \o From(s, k) = s
      /\ k # 0 => Len(b) = k - 1 /\ \A i \in 1..(k - 1) : b[i] = s[i]
  BY <1>1, Cut
<1>3. k = 0 => b = s
  BY DEF Before
<1> HIDE DEF b
<1>4. CASE k = 0
  <2>1. Lacks(b, tag)
    BY <1>1, <1>3, <1>4 DEF Lacks
  <2> QED
    BY <1>2, <2>1 DEF b, k, Joined
<1>5. CASE k # 0
  <2>1. Lacks(b, tag)
    BY <1>1, <1>2, <1>5 DEF Lacks
  <2> QED
    BY <1>2, <2>1 DEF b, k, Joined
<1> QED
  BY <1>4, <1>5

(* The packet of a header is read. *)
LEMMA PacketIsRead ==
  ASSUME NEW S, \A y \in S : ~y.open, NEW h \in Seq(S), NEW x, Shows(h, "own", x),
         SizeOf[x.manifest] \in Capped
  PROVE  FromPackets(h) = x.manifest /\ ~Broken(Before(h, Find(h, "own")))
<1>1. PICK n : FirstWith(h, "own", n) /\ h[n] = x
  BY DEF Shows
<1>2. Find(h, "own") = n /\ n # 0 /\ n \in 0..Len(h) /\ Len(h) \in Nat
  <2>1. n \in DOMAIN h
    BY <1>1 DEF FirstWith
  <2>2. Find(h, "own") = n
    BY <1>1, FoundAt
  <2> QED
    BY <2>1, <2>2
<1>3. Payload(h, "own", Capped) = x.manifest
  BY <1>1, PayloadIs
<1>4. ~Broken(Before(h, n))
  <2>1. Before(h, n) \in Seq(S)
    BY <1>2, Cut
  <2> QED
    BY <2>1, WholeMeans
<1> QED
  BY <1>2, <1>3, <1>4 DEF FromPackets

(* WebP. *)
LEMMA WebpIsFaithful ==
  ASSUME NEW S, NEW c \in Seq(S), NEW m, Holding("own", m) \in S,
         NEW r, r = WebpEmbed(c, m), r # Raised
  PROVE  /\ r \in Seq(S) /\ r # <<>>
         /\ \A ours : "own" \in ours => Without(r, ours) = Without(c, ours)
         /\ (\A y \in S : ~y.open) /\ SizeOf[m] \in Capped => WebpExtract(r) = m
<1> DEFINE x == Holding("own", m)
           riff == Before(c, Find(c, "tail"))
           rest == From(c, Find(c, "tail"))
           a == Without(riff, {"own"})
<1>1. r = PutBetween(a, x, rest)
  BY DEF WebpEmbed, WebpChunks, PutBetween
<1>2. x.tag = "own" /\ x.manifest = m /\ x \in S
  BY DEF Holding
<1> HIDE DEF x
<1>3. riff \in Seq(S) /\ rest \in Seq(S) /\ Joined(riff, rest, c) /\ Lacks(riff, "tail")
  BY Parted
<1> HIDE DEF riff, rest
<1>4. a \in Seq(S) /\ Lacks(a, "own") /\ Lacks(a, "tail")
  BY <1>3, WithoutType, StillLacks
<1> HIDE DEF a
<1> DEFINE h == Before(r, Find(r, "tail"))
<1>5. /\ r \in Seq(S) /\ r # <<>>
      /\ h \in Seq(S) /\ Shows(h, "own", x)
      /\ \A ours : "own" \in ours =>
           Joined(Without(a, ours), Without(rest, ours), Without(r, ours))
  <2>1. r \in Seq(S) /\ r # <<>> /\ h \in Seq(S)
    BY <1>1, <1>2, <1>3, <1>4, MiddlePut
  <2>2. Shows(h, "own", x)
    BY <1>1, <1>2, <1>3, <1>4, MiddlePut
  <2>3. \A ours : "own" \in ours =>
          Joined(Without(a, ours), Without(rest, ours), Without(r, ours))
    BY <1>1, <1>2, <1>3, <1>4, MiddlePut
  <2> QED
    BY <2>1, <2>2, <2>3
<1>6. WebpChunks(r) = h
  BY DEF WebpChunks
<1> HIDE DEF h
<1>7. ASSUME NEW ours, "own" \in ours PROVE Without(r, ours) = Without(c, ours)
  <2>1. Without(a, ours) = Without(riff, ours)
    <3>1. {"own"} \subseteq ours
      BY <1>7
    <3> QED
      BY <1>3, <3>1, WithoutTwice DEF a
  <2>2. Without(riff \o rest, ours) = Without(riff, ours) \o Without(rest, ours)
    BY <1>3, WithoutConcat, Zenon
  <2> QED
    BY <1>3, <1>5, <1>7, <2>1, <2>2, Zenon DEF Joined
<1>8. ASSUME \A y \in S : ~y.open, SizeOf[m] \in Capped PROVE WebpExtract(r) = m
  <2>1. FromPackets(h) = m /\ ~Broken(Before(h, Find(h, "own")))
    BY <1>2, <1>5, <1>8, PacketIsRead
  <2> QED
    BY <1>6, <2>1 DEF WebpExtract
<1> QED
  BY <1>5, <1>7, <1>8

(* JPEG: behind the segments that come first. *)
LEMMA JpegIsFaithful ==
  ASSUME NEW S, NEW c \in Seq(S), NEW m, Holding("own", m) \in S,
         NEW r, r = JpegEmbed(c, m), r # Raised
  PROVE  /\ r \in Seq(S) /\ r # <<>>
         /\ \A ours : "own" \in ours => Without(r, ours) = Without(c, ours)
         /\ (\A y \in S : ~y.open) /\ SizeOf[m] \in Capped => JpegExtract(r) = m
<1> DEFINE x == Holding("own", m)
           header == Before(c, Find(c, "body"))
           scan == From(c, Find(c, "body"))
           kept == Without(header, {"own"})
           places == {i \in DOMAIN kept : kept[i].tag # "head"}
           k == First(places)
           a == Before(kept, k)
           b == From(kept, k)
           t == b \o scan
<1>1. r = ((a \o <<x>>) \o b) \o scan
  BY DEF JpegEmbed, JpegHeader, JpegScan
<1>2. x.tag = "own" /\ x.manifest = m /\ x \in S /\ <<x>> \in Seq(S)
  BY DEF Holding
<1> HIDE DEF x
<1>3. header \in Seq(S) /\ scan \in Seq(S) /\ Joined(header, scan, c) /\ Lacks(header, "body")
  BY Parted
<1> HIDE DEF header, scan
<1>4. kept \in Seq(S) /\ Lacks(kept, "own") /\ Lacks(kept, "body")
  BY <1>3, WithoutType, StillLacks
<1> HIDE DEF kept
<1>5. k \in 0..Len(kept)
  <2>1. places \subseteq Nat \ {0} /\ places \subseteq 1..Len(kept) /\ Len(kept) \in Nat
    BY <1>4
  <2> HIDE DEF places
  <2>2. places = {} => k = 0
    BY <2>1, FirstIsLeast
  <2>3. places # {} => k \in places
    BY <2>1, FirstIsLeast
  <2> HIDE DEF k
  <2>4. places # {} => k \in 1..Len(kept)
    BY <2>1, <2>3
  <2>5. Len(kept) \in Nat
    BY <2>1
  <2> HIDE DEF places
  <2> QED
    BY <2>2, <2>4, <2>5
<1> HIDE DEF k
<1>6. /\ a \in Seq(S) /\ b \in Seq(S) /\ a \o b = kept
      /\ k # 0 => Len(a) = k - 1 /\ \A i \in 1..(k - 1) : a[i] = kept[i]
      /\ k = 0 => a = kept
  <2>1. /\ a \in Seq(S) /\ b \in Seq(S) /\ a \o b = kept
        /\ k # 0 => Len(a) = k - 1 /\ \A i \in 1..(k - 1) : a[i] = kept[i]
    BY <1>4, <1>5, Cut
  <2>2. k = 0 => a = kept
    BY DEF Before
  <2> QED
    BY <2>1, <2>2
<1> HIDE DEF a, b
<1>7. Lacks(a, "own") /\ Lacks(a, "body")
  <2>1. ASSUME NEW i \in DOMAIN a PROVE i \in DOMAIN kept /\ a[i] = kept[i]
    BY <1>4, <1>5, <1>6, <2>1
  <2> QED
    BY <1>4, <2>1 DEF Lacks
<1>8. t \in Seq(S) /\ r = PutBetween(a, x, t)
  <2> DEFINE y == <<x>>
  <2>1. t \in Seq(S)
    BY <1>3, <1>6
  <2>2. y \in Seq(S)
    BY <1>2
  <2>3. r = ((a \o y) \o b) \o scan
    BY <1>1
  <2>4. ((a \o y) \o b) \o scan = (a \o y) \o (b \o scan)
    <3> HIDE DEF y
    <3>1. a \o y \in Seq(S)
      BY <1>6, <2>2
    <3> DEFINE u == a \o y
    <3> HIDE DEF u
    <3>2. u \in Seq(S)
      BY <3>1 DEF u
    <3>3. (u \o b) \o scan = u \o (b \o scan)
      BY <1>3, <1>6, <3>2
    <3> QED
      BY <3>3 DEF u
  <2> QED
    BY <2>1, <2>3, <2>4, Zenon DEF PutBetween
<1> DEFINE h == Before(r, Find(r, "body"))
<1>9. /\ r \in Seq(S) /\ r # <<>>
      /\ h \in Seq(S) /\ Shows(h, "own", x)
      /\ \A ours : "own" \in ours =>
           Joined(Without(a, ours), Without(t, ours), Without(r, ours))
  <2> HIDE DEF t
  <2>1. r \in Seq(S) /\ r # <<>> /\ h \in Seq(S)
    BY <1>2, <1>6, <1>7, <1>8, MiddlePut
  <2>2. Shows(h, "own", x)
    BY <1>2, <1>6, <1>7, <1>8, MiddlePut
  <2>3. \A ours : "own" \in ours =>
          Joined(Without(a, ours), Without(t, ours), Without(r, ours))
    BY <1>2, <1>6, <1>7, <1>8, MiddlePut
  <2> QED
    BY <2>1, <2>2, <2>3
<1>10. JpegHeader(r) = h
  BY DEF JpegHeader
<1> HIDE DEF h
<1>11. ASSUME NEW ours, "own" \in ours PROVE Without(r, ours) = Without(c, ours)
  <2>1. Without(kept, ours) = Without(header, ours)
    <3>1. {"own"} \subseteq ours
      BY <1>11
    <3> QED
      BY <1>3, <3>1, WithoutTwice DEF kept
  <2>2. Without(header \o scan, ours) = Without(header, ours) \o Without(scan, ours)
    BY <1>3, WithoutConcat, Zenon
  <2>3. Without(t, ours) = Without(b, ours) \o Without(scan, ours)
    BY <1>3, <1>6, WithoutConcat
  <2>4. Without(kept, ours) = Without(a, ours) \o Without(b, ours)
    <3>1. Without(a \o b, ours) = Without(a, ours) \o Without(b, ours)
      BY <1>6, WithoutConcat
    <3> QED
      BY <1>6, <3>1
  <2>5. Without(r, ours) = Without(a, ours) \o Without(t, ours)
    <3> HIDE DEF t
    <3> QED
      BY <1>9, <1>11 DEF Joined
  <2>6. Without(a, ours) \o (Without(b, ours) \o Without(scan, ours))
          = (Without(a, ours) \o Without(b, ours)) \o Without(scan, ours)
    <3> DEFINE p == Without(a, ours)
               q == Without(b, ours)
               s == Without(scan, ours)
    <3>1. p \in Seq(S) /\ q \in Seq(S) /\ s \in Seq(S)
      BY <1>3, <1>6, WithoutType
    <3> HIDE DEF p, q, s
    <3>2. p \o (q \o s) = (p \o q) \o s
      BY <3>1
    <3> QED
      BY <3>2 DEF p, q, s
  <2> HIDE DEF t
  <2> QED
    BY <1>3, <2>1, <2>2, <2>3, <2>4, <2>5, <2>6, Zenon DEF Joined
<1>12. ASSUME \A y \in S : ~y.open, SizeOf[m] \in Capped PROVE JpegExtract(r) = m
  <2>1. FromPackets(h) = m /\ ~Broken(Before(h, Find(h, "own")))
    BY <1>2, <1>9, <1>12, PacketIsRead
  <2> QED
    BY <1>10, <2>1 DEF JpegExtract
<1> QED
  BY <1>9, <1>11, <1>12

(* The lenient walkers: the part they reach and the part they copy. *)
LEMMA Walked ==
  ASSUME NEW S, NEW c \in Seq(S)
  PROVE  Reached(c) \in Seq(S) /\ Unreached(c) \in Seq(S) /\ Joined(Reached(c), Unreached(c), c)
<1>1. FirstOpen(c) \in 0..Len(c)
  BY FirstOpenSays
<1> QED
  BY <1>1, Cut DEF Reached, Unreached, Joined

(* WAV. *)
LEMMA WavIsFaithful ==
  ASSUME NEW S, NEW c \in Seq(S), NEW m, Holding("own", m) \in S,
         NEW r, r = WavEmbed(c, m)
  PROVE  /\ r \in Seq(S) /\ r # <<>>
         /\ \A ours : {"own", "info", "tail"} \subseteq ours => Without(r, ours) = Without(c, ours)
         /\ (\A y \in S : ~y.open) /\ SizeOf[m] \in Capped => WavExtract(r) = m
<1> DEFINE x == Holding("own", m)
           a == Reached(c)
           b == Unreached(c)
           tags == {"own", "info", "tail"}
<1>1. r = AtEnd(a, b, x, tags)
  BY DEF WavEmbed, AtEnd
<1>2. x.tag = "own" /\ x.manifest = m /\ x \in S
  BY DEF Holding
<1> HIDE DEF x
<1>3. a \in Seq(S) /\ b \in Seq(S) /\ Joined(a, b, c)
  BY Walked
<1>4. ~Broken(c) => b = <<>>
  BY AllReached
<1> HIDE DEF a, b
<1>5. ("own" \in tags) /\ \A ours : tags \subseteq ours => "own" \in ours
  OBVIOUS
<1>6. /\ r \in Seq(S) /\ r # <<>> /\ (b = <<>> => Shows(r, "own", x))
      /\ \A ours : tags \subseteq ours => Without(r, ours) = Without(c, ours)
  <2> HIDE DEF tags
  <2>1. r \in Seq(S) /\ r # <<>>
    BY <1>1, <1>2, <1>3, LastPut
  <2>2. b = <<>> => Shows(r, "own", x)
    BY <1>1, <1>2, <1>3, <1>5, LastPut
  <2>3. \A ours : tags \subseteq ours => Without(r, ours) = Without(c, ours)
    BY <1>1, <1>2, <1>3, <1>5, LastPut
  <2> QED
    BY <2>1, <2>2, <2>3
<1>8. ASSUME \A y \in S : ~y.open, SizeOf[m] \in Capped PROVE WavExtract(r) = m
  <2>1. ~Broken(c) /\ ~Broken(r)
    BY <1>6, <1>8, WholeMeans
  <2>2. Reached(r) = r
    BY <1>6, <2>1, AllReached
  <2>3. Payload(r, "own", Capped) = m
    BY <1>2, <1>4, <1>6, <1>8, <2>1, PayloadIs DEF Shows
  <2> QED
    BY <2>2, <2>3 DEF WavExtract
<1> QED
  BY <1>6, <1>8

(* One sequence starts with another. *)
Starts(p, s) == Len(p) <= Len(s) /\ \A i \in DOMAIN p : s[i] = p[i]

(* What a file starts with stays when a chunk is put at its end. *)
LEMMA StartStays ==
  ASSUME NEW S, NEW a \in Seq(S), NEW b \in Seq(S), NEW c, Joined(a, b, c), NEW tags,
         NEW p \in Seq(S), \A i \in DOMAIN p : p[i].tag \notin tags, Starts(p, c),
         NEW x \in S, NEW r, r = AtEnd(a, b, x, tags)
  PROVE  Starts(p, r)
<1> DEFINE w == Without(a, tags)
           q == (w \o b) \o <<x>>
<1>0. r = q
  BY DEF AtEnd
<1>1. w \in Seq(S)
  BY WithoutType
<1>2. /\ Len(p) \in Nat /\ Len(a) \in Nat /\ \A i \in DOMAIN p : i \in Nat
      /\ \A i \in DOMAIN a : c[i] = a[i]
      /\ Len(c) = Len(a) + Len(b)
  <2> DEFINE u == a \o b
  <2>1. (\A i \in DOMAIN a : u[i] = a[i]) /\ Len(u) = Len(a) + Len(b)
    OBVIOUS
  <2>2. u = c
    BY DEF Joined
  <2>3. Len(p) \in Nat /\ Len(a) \in Nat /\ \A i \in DOMAIN p : i \in Nat
    OBVIOUS
  <2> HIDE DEF u
  <2> QED
    BY <2>1, <2>2, <2>3
<1>3. CASE Len(a) <= Len(p)
  <2>1. \A i \in DOMAIN a : i \in DOMAIN p /\ a[i] = p[i]
    BY <1>2, <1>3 DEF Starts
  <2>2. w = a
    BY <2>1, WithoutAny
  <2>3. Len(w \o b) = Len(c) /\ \A i \in DOMAIN c : (w \o b)[i] = c[i]
    BY <2>2 DEF Joined
  <2>4. Len(q) = Len(c) + 1 /\ \A i \in DOMAIN c : q[i] = c[i]
    <3> HIDE DEF w
    <3> DEFINE u == w \o b
    <3>1. u \in Seq(S) /\ c = u /\ Len(c) \in Nat
      BY <1>1, <2>2 DEF Joined
    <3> HIDE DEF u
    <3> QED
      BY <3>1 DEF u
  <2>5. \A i \in DOMAIN p : i \in DOMAIN c
    BY <1>2 DEF Starts, Joined
  <2> HIDE DEF q
  <2>6. Len(c) \in Nat
    BY DEF Joined
  <2> QED
    BY <1>0, <1>2, <2>4, <2>5, <2>6 DEF Starts
<1>4. CASE ~(Len(a) <= Len(p))
  <2> DEFINE a2 == SubSeq(a, Len(p) + 1, Len(a))
             w2 == Without(a2, tags)
  <2>1. \A i \in DOMAIN p : a[i] = p[i] /\ i \in DOMAIN a
    BY <1>2, <1>4 DEF Starts
  <2>2. a2 \in Seq(S) /\ a = p \o a2
    BY <1>2, <1>4, <2>1
  <2> HIDE DEF a2
  <2>3. w = Without(p, tags) \o w2
    <3>1. Without(p \o a2, tags) = Without(p, tags) \o Without(a2, tags)
      BY <2>2, WithoutConcat
    <3> QED
      BY <2>2, <3>1
  <2>4. Without(p, tags) = p
    BY WithoutAny
  <2>5. w2 \in Seq(S)
    BY <2>2, WithoutType
  <2> HIDE DEF w2
  <2>6. w = p \o w2
    BY <2>3, <2>4
  <2> DEFINE u == ((p \o w2) \o b) \o <<x>>
  <2>7. Len(p) <= Len(u) /\ \A i \in DOMAIN p : u[i] = p[i]
    BY <2>5
  <2>8. u = q
    BY <2>6
  <2> HIDE DEF u, q
  <2> QED
    BY <1>0, <2>7, <2>8 DEF Starts
<1> QED
  BY <1>3, <1>4

(* MP4, with what its file starts with. *)
LEMMA Mp4IsFaithful ==
  ASSUME NEW S, NEW c \in Seq(S), NEW m, Holding("own", m) \in S,
         NEW r, r = Mp4Embed(c, m)
  PROVE  /\ r \in Seq(S) /\ r # <<>>
         /\ \A ours : {"own", "tail"} \subseteq ours => Without(r, ours) = Without(c, ours)
         /\ \A p \in Seq(S) :
              Lacks(p, "own") /\ Lacks(p, "tail") /\ Starts(p, c) => Starts(p, r)
         /\ (\A y \in S : ~y.open) /\ SizeOf[m] \in Capped => Mp4Extract(r) = m
<1> DEFINE x == Holding("own", m)
           a == Reached(c)
           b == Unreached(c)
           tags == {"own", "tail"}
<1>1. r = AtEnd(a, b, x, tags)
  BY DEF Mp4Embed, AtEnd
<1>2. x.tag = "own" /\ x.manifest = m /\ x \in S
  BY DEF Holding
<1> HIDE DEF x
<1>3. a \in Seq(S) /\ b \in Seq(S) /\ Joined(a, b, c)
  BY Walked
<1>4. ~Broken(c) => b = <<>>
  BY AllReached
<1> HIDE DEF a, b
<1>5. ("own" \in tags) /\ \A ours : tags \subseteq ours => "own" \in ours
  OBVIOUS
<1>6. /\ r \in Seq(S) /\ r # <<>> /\ (b = <<>> => Shows(r, "own", x))
      /\ \A ours : tags \subseteq ours => Without(r, ours) = Without(c, ours)
  <2> HIDE DEF tags
  <2>1. r \in Seq(S) /\ r # <<>>
    BY <1>1, <1>2, <1>3, LastPut
  <2>2. b = <<>> => Shows(r, "own", x)
    BY <1>1, <1>2, <1>3, <1>5, LastPut
  <2>3. \A ours : tags \subseteq ours => Without(r, ours) = Without(c, ours)
    BY <1>1, <1>2, <1>3, <1>5, LastPut
  <2> QED
    BY <2>1, <2>2, <2>3
<1>7. ASSUME NEW p \in Seq(S), Lacks(p, "own"), Lacks(p, "tail"), Starts(p, c) PROVE Starts(p, r)
  <2>1. \A i \in DOMAIN p : p[i].tag \notin tags
    BY <1>7 DEF Lacks
  <2> HIDE DEF tags
  <2> QED
    BY <1>1, <1>2, <1>3, <1>7, <2>1, StartStays
<1>8. ASSUME \A y \in S : ~y.open, SizeOf[m] \in Capped PROVE Mp4Extract(r) = m
  <2>1. ~Broken(c) /\ ~Broken(r)
    BY <1>6, <1>8, WholeMeans
  <2>2. Reached(r) = r
    BY <1>6, <2>1, AllReached
  <2>3. Payload(r, "own", Capped) = m
    BY <1>2, <1>4, <1>6, <1>8, <2>1, PayloadIs DEF Shows
  <2> QED
    BY <2>2, <2>3 DEF Mp4Extract
<1> QED
  BY <1>6, <1>7, <1>8

(* The handlers that leave the place to mutagen. *)
TagWriters == {"aac", "flac", "mp3"}

(* A handler made r of the file f: the media stays. *)
Faithful(S, f, handler, r) ==
  /\ r \in Seq(S) /\ r # <<>>
  /\ \A ours : {"own", "tag", "tail"} \subseteq ours /\ (f.format = "wav" => "info" \in ours)
       => Without(r, ours) = Without(f.chunks, ours)
  /\ handler = "mp4" => \A p \in Seq(S) :
       Lacks(p, "own") /\ Lacks(p, "tail") /\ Starts(p, f.chunks) => Starts(p, r)
  /\ handler \in TagWriters => r[1] = f.chunks[1]

(* The handler then reads the manifest. *)
ReadsAs(handler, f, r, m) == ExtractWith(handler, [format |-> f.format, chunks |-> r]) = m

(* Every handler is faithful, and reads what it wrote in whole chunks. *)
LEMMA EveryHandler ==
  ASSUME NEW S, NEW f, f.chunks \in Seq(S), f.chunks # <<>>, NEW m,
         Holding("own", m) \in S, Holding("tag", m) \in S,
         NEW handler, handler = "wav" => f.format \in {"wav", "rf64"},
         NEW r, r = EmbedWith(handler, f, m), r # Raised
  PROVE  /\ Faithful(S, f, handler, r)
         /\ (\A y \in S : ~y.open) /\ SizeOf[m] \in Capped
              /\ (handler \in TagWriters => f.chunks[1].tag # "tag")
              => ReadsAs(handler, f, r, m)
<1> DEFINE c == f.chunks
           g == [format |-> f.format, chunks |-> r]
           whole == \A y \in S : ~y.open
           fits == SizeOf[m] \in Capped
<1>0. g.chunks = r /\ g.format = f.format
  OBVIOUS
<1> HIDE DEF g
<1>1. CASE handler = "png"
  <2>1. r = PngEmbed(c, m) /\ ExtractWith(handler, g) = PngExtract(r)
    BY <1>0, <1>1 DEF EmbedWith, ExtractWith
  <2>2. /\ r \in Seq(S) /\ r # <<>>
        /\ \A ours : "own" \in ours => Without(r, ours) = Without(c, ours)
        /\ whole /\ fits => PngExtract(r) = m
    BY <2>1, PngIsFaithful
  <2>3. Faithful(S, f, handler, r)
    BY <1>1, <2>2 DEF Faithful, TagWriters
  <2> QED
    BY <2>1, <2>2, <2>3 DEF ReadsAs, g
<1>2. CASE handler = "jpeg"
  <2>1. r = JpegEmbed(c, m) /\ ExtractWith(handler, g) = JpegExtract(r)
    BY <1>0, <1>2 DEF EmbedWith, ExtractWith
  <2>2. /\ r \in Seq(S) /\ r # <<>>
        /\ \A ours : "own" \in ours => Without(r, ours) = Without(c, ours)
        /\ whole /\ fits => JpegExtract(r) = m
    BY <2>1, JpegIsFaithful
  <2>3. Faithful(S, f, handler, r)
    BY <1>2, <2>2 DEF Faithful, TagWriters
  <2> QED
    BY <2>1, <2>2, <2>3 DEF ReadsAs, g
<1>3. CASE handler = "webp"
  <2>1. r = WebpEmbed(c, m) /\ ExtractWith(handler, g) = WebpExtract(r)
    BY <1>0, <1>3 DEF EmbedWith, ExtractWith
  <2>2. /\ r \in Seq(S) /\ r # <<>>
        /\ \A ours : "own" \in ours => Without(r, ours) = Without(c, ours)
        /\ whole /\ fits => WebpExtract(r) = m
    BY <2>1, WebpIsFaithful
  <2>3. Faithful(S, f, handler, r)
    BY <1>3, <2>2 DEF Faithful, TagWriters
  <2> QED
    BY <2>1, <2>2, <2>3 DEF ReadsAs, g
<1>4. CASE handler = "wav"
  <2>1. r = WavEmbed(c, m) /\ ExtractWith(handler, g) = WavExtract(r) /\ f.format = "wav"
    BY <1>0, <1>4 DEF EmbedWith, ExtractWith
  <2>2. /\ r \in Seq(S) /\ r # <<>>
        /\ \A ours : {"own", "info", "tail"} \subseteq ours => Without(r, ours) = Without(c, ours)
        /\ whole /\ fits => WavExtract(r) = m
    BY <2>1, WavIsFaithful
  <2>3. Faithful(S, f, handler, r)
    BY <1>4, <2>1, <2>2 DEF Faithful, TagWriters
  <2> QED
    BY <2>1, <2>2, <2>3 DEF ReadsAs, g
<1>5. CASE handler = "mp4"
  <2>1. r = Mp4Embed(c, m) /\ ExtractWith(handler, g) = Mp4Extract(r)
    BY <1>0, <1>5 DEF EmbedWith, ExtractWith
  <2>2. /\ r \in Seq(S) /\ r # <<>>
        /\ \A ours : {"own", "tail"} \subseteq ours => Without(r, ours) = Without(c, ours)
        /\ \A p \in Seq(S) : Lacks(p, "own") /\ Lacks(p, "tail") /\ Starts(p, c) => Starts(p, r)
        /\ whole /\ fits => Mp4Extract(r) = m
    BY <2>1, Mp4IsFaithful
  <2>3. Faithful(S, f, handler, r)
    BY <1>5, <2>2 DEF Faithful, TagWriters
  <2> QED
    BY <2>1, <2>2, <2>3 DEF ReadsAs, g
<1>6. CASE handler \in TagWriters
  <2>1. r = TagEmbed(c, m)
    BY <1>6 DEF EmbedWith, TagWriters
  <2>2. \E sizes : Capped \subseteq sizes /\ ExtractWith(handler, g) = TagExtract(r, sizes)
    <3>1. handler = "mp3" => ExtractWith(handler, g) = TagExtract(r, AnySize)
      BY <1>0 DEF ExtractWith
    <3>2. handler \in {"aac", "flac"} => ExtractWith(handler, g) = TagExtract(r, Capped)
      BY <1>0 DEF ExtractWith
    <3>3. Capped \subseteq AnySize
      BY DEF AnySize
    <3> QED
      BY <1>6, <3>1, <3>2, <3>3 DEF TagWriters
  <2>3. /\ r \in Seq(S) /\ r # <<>> /\ r[1] = c[1]
        /\ \A ours : "tag" \in ours => Without(r, ours) = Without(c, ours)
        /\ \A sizes : c[1].tag # "tag" /\ SizeOf[m] \in sizes => TagExtract(r, sizes) = m
    BY <2>1, TagIsFaithful
  <2>4. Faithful(S, f, handler, r)
    BY <1>6, <2>3 DEF Faithful, TagWriters
  <2> QED
    BY <1>6, <2>2, <2>3, <2>4 DEF ReadsAs, g
<1>7. CASE handler \notin {"png", "jpeg", "webp", "wav", "mp4"} \cup TagWriters
  BY <1>7 DEF EmbedWith, TagWriters
<1> QED
  BY <1>1, <1>2, <1>3, <1>4, <1>5, <1>6, <1>7

-----------------------------------------------------------------------------
(* The machine: chunks and files, *)
MediaChunks == [tag : Tags, manifest : {{}} \cup Manifests, open : BOOLEAN]
WholeChunks == {c \in MediaChunks : ~c.open}
MediaRecords == [format : STRING \cup {"none"}, chunks : Seq(MediaChunks)]

(* the chunks that may come and go, and what an MP4 keeps in its place. *)
OurTags == {"own", "tag", "tail"} \cup IF first.format = "wav" THEN {"info"} ELSE {}
Essence == Without(first.chunks, {"tail"})

(* A file that is there is the first one, but for what came and went. *)
Descends(f) ==
  /\ f.format = first.format /\ f.chunks # <<>>
  /\ ~Broken(first.chunks) => f.chunks \in Seq(WholeChunks)
  /\ Without(f.chunks, OurTags) = Without(first.chunks, OurTags)
  /\ first.format = "mp4" => Starts(Essence, f.chunks)
  /\ first.format \in TagWriters => f.chunks[1].tag # "tag"

(* The machine is well typed. *)
EmbedTypes ==
  /\ first \in Files
  /\ media \in [Paths -> MediaRecords]
  /\ DOMAIN sidecar = Paths /\ DOMAIN told = Paths
  /\ stage \in {"idle", "fill_inline", "move_inline", "fill_copy", "move_copy", "fill_side", "move_side"}

(* The running call is one that embed() takes. *)
CallIsGood ==
  stage # "idle" =>
    /\ embed.source \in Paths /\ embed.output \in Paths /\ embed.manifest \in Manifests
    /\ embed.mode \in {"full", "pointer"}
    /\ embed.mime = "none" \/ (embed.mime = "aac" /\ first.format = "m4a")
    /\ media[embed.source] # E!NoFile

(* All files do. *)
FilesDescend == \A p \in Paths : media[p] # E!NoFile => Descends(media[p])

(* What was told of a path is so. *)
ToldIsSo(p) ==
  LET is == told[p]
  IN  /\ is.kind = "inline" /\ is.mime = "none" /\ ~Broken(first.chunks) /\ SizeOf[is.manifest] \in Capped
         => is.manifest \in Manifests /\ ReadsAs(Handler(first.format), first, media[p].chunks, is.manifest)
            /\ media[p] # E!NoFile
      /\ is.kind = "sidecar" => sidecar[p] = [kind |-> "full", manifest |-> is.manifest]
      /\ is.kind = "pointer" => sidecar[p] = [kind |-> "pointer", manifest |-> is.manifest]

(* The invariant: a call that is about to move has something to move. *)
EmbedInv ==
  /\ EmbedTypes
  /\ CallIsGood
  /\ stage = "move_inline" => E!Embedded # Raised
  /\ FilesDescend
  /\ \A p \in Paths : ToldIsSo(p)

(* The files the assumption admits. *)
LEMMA FilesAreGood ==
  ASSUME NEW f \in Files
  PROVE  /\ f \in MediaRecords /\ f.chunks \in Seq(MediaChunks) /\ f.chunks # <<>>
         /\ f.chunks[1].tag = "head"
         /\ ~Broken(f.chunks) => f.chunks \in Seq(WholeChunks)
         /\ Without(f.chunks, {"tail"}) \in Seq(MediaChunks)
         /\ Lacks(Without(f.chunks, {"tail"}), "tail")
         /\ f.format = "mp4" => /\ Lacks(Without(f.chunks, {"tail"}), "own")
                                /\ Starts(Without(f.chunks, {"tail"}), f.chunks)
<1> DEFINE c == f.chunks
           b == Without(c, {"tail"})
           n == Len(c)
           front == SubSeq(c, 1, n - 1)
           last == c[n]
<1>1. /\ f \in MediaRecords /\ c # <<>> /\ Head(c).tag = "head"
      /\ \A i \in DOMAIN c : c[i].tag = "tail" => i = Len(c)
      /\ f.format = "mp4" => \A i \in DOMAIN c : c[i].tag # "own"
  BY FilesAreMedia DEF MediaRecords, MediaChunks
<1>2. c \in Seq(MediaChunks)
  BY <1>1 DEF MediaRecords
<1> HIDE DEF c
<1>3. c[1].tag = "head"
  BY <1>1, <1>2
<1>4. ~Broken(c) => c \in Seq(WholeChunks)
  BY <1>2 DEF Broken, WholeChunks
<1>5. b \in Seq(MediaChunks)
  BY <1>2, WithoutType
<1>6. Lacks(b, "tail")
  BY <1>2, StillLacks
<1>7. (f.format = "mp4") => Lacks(b, "own")
  <2>1. (f.format = "mp4") => Lacks(c, "own")
    BY <1>1 DEF Lacks
  <2> QED
    BY <1>2, <2>1, StillLacks
<1>8. Starts(b, c)
  <2>1. front \in Seq(MediaChunks) /\ last \in MediaChunks /\ c = Append(front, last)
    BY <1>1, <1>2
  <2>2. \A i \in DOMAIN front : front[i].tag \notin {"tail"}
    BY <1>1, <1>2
  <2>3. Len(front) <= Len(c) /\ \A i \in DOMAIN front : c[i] = front[i]
    BY <1>1, <1>2
  <2> HIDE DEF front, last
  <2>4. Without(front, {"tail"}) = front
    BY <2>1, <2>2, WithoutAny
  <2>5. Without(Append(front, last), {"tail"})
          = IF last.tag \in {"tail"} THEN Without(front, {"tail"})
            ELSE Append(Without(front, {"tail"}), last)
    BY <2>1, WithoutMore
  <2>6. b = front \/ b = c
    BY <2>1, <2>4, <2>5
  <2>7. CASE b = front
    BY <2>3, <2>7 DEF Starts
  <2>8. CASE b = c
    <3> HIDE DEF b
    <3> QED
      BY <1>2, <2>8 DEF Starts
  <2> QED
    BY <2>6, <2>7, <2>8
<1> QED
  BY <1>1, <1>2, <1>3, <1>4, <1>5, <1>6, <1>7, <1>8 DEF c

(* Whole chunks are chunks. *)
LEMMA WholeAreMedia ==
  /\ WholeChunks \subseteq MediaChunks /\ Seq(WholeChunks) \subseteq Seq(MediaChunks)
  /\ \A y \in WholeChunks : ~y.open
<1>1. WholeChunks \subseteq MediaChunks /\ \A y \in WholeChunks : ~y.open
  BY DEF WholeChunks
<1> QED
  BY <1>1

(* The chunk a handler puts is whole. *)
LEMMA HeldIsWhole ==
  ASSUME NEW m \in Manifests, NEW tag \in Tags
  PROVE  Holding(tag, m) \in WholeChunks
<1> DEFINE h == Holding(tag, m)
<1>1. h.open = FALSE
  BY Zenon DEF Holding
<1>2. h \in MediaChunks
  <2>1. m \in {{}} \cup Manifests /\ FALSE \in BOOLEAN
    OBVIOUS
  <2> QED
    BY <2>1, Zenon DEF Holding, MediaChunks
<1> HIDE DEF h
<1>3. h \in WholeChunks
  BY <1>1, <1>2, Zenon DEF WholeChunks
<1> QED
  BY <1>3 DEF h

(* What the running call makes of its source. *)
LEMMA Embedding ==
  ASSUME EmbedTypes, CallIsGood, FilesDescend, stage # "idle", E!Embedded # Raised
  PROVE  /\ E!Embedded \in Seq(MediaChunks)
         /\ Descends([format |-> first.format, chunks |-> E!Embedded])
         /\ embed.mime = "none" /\ ~Broken(first.chunks) /\ SizeOf[embed.manifest] \in Capped
              => ReadsAs(Handler(first.format), first, E!Embedded, embed.manifest)
<1> DEFINE f == media[embed.source]
           m == embed.manifest
           handler == E!TheHandler
           r == E!Embedded
           g == [format |-> first.format, chunks |-> r]
<1>1. /\ Descends(f) /\ f.format = first.format /\ f.chunks \in Seq(MediaChunks) /\ f.chunks # <<>>
      /\ m \in Manifests
  BY DEF EmbedTypes, CallIsGood, FilesDescend, Descends, MediaRecords
<1>2. /\ handler = IF embed.mime = "none" THEN Handler(first.format) ELSE embed.mime
      /\ r = EmbedWith(handler, f, m)
  <2>1. E!TheHandler = IF embed.mime = "none" THEN E!Handler(f.format) ELSE embed.mime
    BY DEF E!TheHandler
  <2>2. E!Embedded = E!EmbedWith(E!TheHandler, f, m)
    BY DEF E!Embedded
  <2>3. E!Handler(f.format) = Handler(f.format)
    BY OneLibrary DEF FormatsMeanTheSame
  <2>4. E!EmbedWith(E!TheHandler, f, m) = EmbedWith(E!TheHandler, f, m)
    BY OneLibrary DEF FormatsMeanTheSame
  <2> QED
    BY <1>1, <2>1, <2>2, <2>3, <2>4
<1> HIDE DEF f, m, handler, r
<1>3. Holding("own", m) \in WholeChunks /\ Holding("tag", m) \in WholeChunks
  <2>1. m \in Manifests /\ "own" \in Tags /\ "tag" \in Tags
    BY <1>1 DEF Tags
  <2> QED
    BY <2>1, HeldIsWhole, Zenon
<1>4. /\ handler = "wav" => f.format \in {"wav", "rf64"}
      /\ first.format = "mp4" => handler = "mp4"
      /\ first.format \in TagWriters => handler \in TagWriters
      /\ embed.mime = "none" => handler = Handler(first.format)
      /\ embed.mime = "none" /\ handler \in TagWriters => first.format \in TagWriters
  BY <1>1, <1>2 DEF Handler, CallIsGood, TagWriters
<1>5. Faithful(MediaChunks, f, handler, r)
  BY <1>1, <1>2, <1>3, <1>4, WholeAreMedia, EveryHandler DEF r
<1>6. ~Broken(first.chunks) =>
        /\ Faithful(WholeChunks, f, handler, r)
        /\ SizeOf[m] \in Capped /\ (handler \in TagWriters => f.chunks[1].tag # "tag")
             => ReadsAs(handler, f, r, m)
  <2>1. ~Broken(first.chunks) => f.chunks \in Seq(WholeChunks)
    BY <1>1 DEF Descends
  <2> QED
    BY <1>1, <1>2, <1>3, <1>4, <2>1, WholeAreMedia, EveryHandler DEF r
<1>7. r \in Seq(MediaChunks) /\ r # <<>>
  BY <1>5 DEF Faithful
<1>8. g.format = first.format /\ g.chunks = r
  OBVIOUS
<1> HIDE DEF g
<1>9. Descends(g)
  <2>1. ~Broken(first.chunks) => r \in Seq(WholeChunks)
    BY <1>6 DEF Faithful
  <2>2. Without(r, OurTags) = Without(first.chunks, OurTags)
    <3>1. {"own", "tag", "tail"} \subseteq OurTags /\ (f.format = "wav" => "info" \in OurTags)
      BY <1>1 DEF OurTags
    <3>2. Without(r, OurTags) = Without(f.chunks, OurTags)
      BY <1>5, <3>1 DEF Faithful
    <3> QED
      BY <1>1, <3>2 DEF Descends
  <2>3. ASSUME first.format = "mp4" PROVE Starts(Essence, r)
    <3>1. Essence \in Seq(MediaChunks) /\ Lacks(Essence, "tail") /\ Lacks(Essence, "own")
      BY <2>3, FilesAreGood DEF EmbedTypes, Essence
    <3>2. Starts(Essence, f.chunks)
      BY <1>1, <2>3 DEF Descends
    <3> QED
      BY <1>4, <1>5, <2>3, <3>1, <3>2 DEF Faithful
  <2>4. first.format \in TagWriters => r[1].tag # "tag"
    BY <1>1, <1>4, <1>5 DEF Faithful, Descends
  <2> QED
    BY <1>7, <1>8, <2>1, <2>2, <2>3, <2>4 DEF Descends
<1>10. ASSUME embed.mime = "none", ~Broken(first.chunks), SizeOf[m] \in Capped
       PROVE  ReadsAs(Handler(first.format), first, r, m)
  <2>1. handler \in TagWriters => f.chunks[1].tag # "tag"
    BY <1>1, <1>4, <1>10 DEF Descends
  <2>2. ReadsAs(handler, f, r, m)
    BY <1>6, <1>10, <2>1
  <2> QED
    BY <1>1, <1>4, <1>10, <2>2 DEF ReadsAs
<1> QED
  BY <1>7, <1>9, <1>10 DEF r, m, g

(* At first the invariant holds. *)
LEMMA EmbedInit == E!Init => EmbedInv
<1> SUFFICES ASSUME E!Init PROVE EmbedInv
  OBVIOUS
<1>1. /\ first \in Files /\ stage = "idle" /\ sidecar = [p \in Paths |-> E!Absent]
      /\ told = [p \in Paths |-> E!Nothing]
  BY DEF E!Init
<1>2. PICK p0 \in Paths : media = [q \in Paths |-> IF q = p0 THEN first ELSE E!NoFile]
  BY DEF E!Init
<1>3. first \in MediaRecords /\ E!NoFile \in MediaRecords
  <2>1. <<>> \in Seq(MediaChunks)
    OBVIOUS
  <2>2. E!NoFile \in MediaRecords
    BY <2>1 DEF MediaRecords, E!NoFile
  <2> QED
    BY <1>1, <2>2, FilesAreGood
<1>4. EmbedTypes
  <2>1. media \in [Paths -> MediaRecords]
    BY <1>2, <1>3
  <2> QED
    BY <1>1, <2>1 DEF EmbedTypes
<1>5. Descends(first)
  BY <1>1, FilesAreGood DEF Descends, Essence, TagWriters
<1>6. FilesDescend
  BY <1>2, <1>5 DEF FilesDescend
<1>7. \A p \in Paths : ToldIsSo(p)
  <2>1. \A p \in Paths : told[p].kind = "none"
    BY <1>1 DEF E!Nothing
  <2> QED
    BY <2>1 DEF ToldIsSo
<1> QED
  BY <1>1, <1>4, <1>6, <1>7 DEF EmbedInv, CallIsGood

(* What a step leaves as it was. *)
LEMMA EmbedFrame ==
  ASSUME EmbedInv, UNCHANGED <<media, sidecar, first, told>>
  PROVE  FilesDescend' /\ \A p \in Paths : ToldIsSo(p)'
<1>1. \A p \in Paths : ToldIsSo(p)
  BY DEF EmbedInv
<1>2. \A p \in Paths : ToldIsSo(p)'
  BY <1>1 DEF ToldIsSo
<1>3. FilesDescend
  BY DEF EmbedInv
<1>4. FilesDescend'
  BY <1>3 DEF FilesDescend, Descends, OurTags, Essence
<1> QED
  BY <1>2, <1>4

(* A step of another machine leaves it all. *)
LEMMA EmbedStill ==
  ASSUME EmbedInv, UNCHANGED E!vars
  PROVE  EmbedInv'
<1>1. UNCHANGED <<media, sidecar, first, told, stage, embed>>
  BY DEF E!vars
<1>2. FilesDescend' /\ \A p \in Paths : ToldIsSo(p)'
  BY <1>1, EmbedFrame
<1>3. EmbedTypes' /\ CallIsGood' /\ (stage = "move_inline" => E!Embedded # Raised)'
  BY <1>1 DEF EmbedInv, EmbedTypes, CallIsGood, E!Embedded, E!TheHandler
<1> QED
  BY <1>2, <1>3 DEF EmbedInv

(* embed() is called. *)
LEMMA EmbedCalled ==
  ASSUME EmbedInv, E!Embed
  PROVE  EmbedInv'
<1>1. UNCHANGED <<media, sidecar, first, told>>
  BY DEF E!Embed
<1>2. FilesDescend' /\ \A p \in Paths : ToldIsSo(p)'
  BY <1>1, EmbedFrame
<1>0. PICK p \in Paths, q \in Paths, m \in Manifests, mode \in {"full", "pointer"} :
        \E mime \in {"none"} \cup IF media[p].format = "m4a" THEN {"aac"} ELSE {} :
        /\ media[p] # E!NoFile
        /\ embed' = [source |-> p, output |-> q, manifest |-> m, mode |-> mode, mime |-> mime]
        /\ stage' = IF mode = "pointer" THEN IF p = q THEN "fill_side" ELSE "fill_copy"
                    ELSE "fill_inline"
  BY Zenon DEF E!Embed
<1>3. PICK mime \in {"none"} \cup IF media[p].format = "m4a" THEN {"aac"} ELSE {} :
        /\ media[p] # E!NoFile
        /\ embed' = [source |-> p, output |-> q, manifest |-> m, mode |-> mode, mime |-> mime]
        /\ stage' = IF mode = "pointer" THEN IF p = q THEN "fill_side" ELSE "fill_copy"
                    ELSE "fill_inline"
  BY <1>0
<1>4. media[p].format = first.format
  BY <1>3 DEF EmbedInv, FilesDescend, Descends
<1>5. stage' \in {"fill_side", "fill_copy", "fill_inline"}
  BY <1>3
<1>6. EmbedTypes'
  BY <1>1, <1>5 DEF EmbedInv, EmbedTypes
<1>7. mime = "none" \/ (mime = "aac" /\ first.format = "m4a")
  BY <1>4
<1>8. /\ embed'.source = p /\ embed'.output = q /\ embed'.manifest = m /\ embed'.mode = mode
      /\ embed'.mime = mime
  BY <1>3
<1>9. CallIsGood'
  BY <1>1, <1>3, <1>7, <1>8 DEF CallIsGood
<1> QED
  BY <1>2, <1>5, <1>6, <1>9 DEF EmbedInv

(* Steps that only go on. *)
LEMMA EmbedGoesOn ==
  ASSUME EmbedInv, stage # "idle", UNCHANGED <<media, sidecar, embed, told, first>>,
         stage' \in {"move_inline", "fill_copy", "move_copy", "fill_side", "move_side"},
         stage' = "move_inline" => E!Embedded # Raised
  PROVE  EmbedInv'
<1>1. FilesDescend' /\ \A p \in Paths : ToldIsSo(p)'
  BY EmbedFrame
<1>2. EmbedTypes' /\ CallIsGood'
  BY DEF EmbedInv, EmbedTypes, CallIsGood
<1>3. (stage = "move_inline" => E!Embedded # Raised)'
  BY DEF E!Embedded, E!TheHandler
<1> QED
  BY <1>1, <1>2, <1>3 DEF EmbedInv

(* Steps that give up. *)
LEMMA EmbedGivesUp ==
  ASSUME EmbedInv, UNCHANGED <<media, sidecar, told, first>>, stage' = "idle"
  PROVE  EmbedInv'
<1>1. FilesDescend' /\ \A p \in Paths : ToldIsSo(p)'
  BY EmbedFrame
<1>2. EmbedTypes' /\ CallIsGood'
  BY DEF EmbedInv, EmbedTypes, CallIsGood
<1> QED
  BY <1>1, <1>2 DEF EmbedInv

(* The inline file is moved over the output. *)
LEMMA EmbedMoves ==
  ASSUME EmbedInv, E!MoveInline
  PROVE  EmbedInv'
<1> DEFINE q == embed.output
           g == [format |-> media[embed.source].format, chunks |-> E!Embedded]
           e == [kind |-> "inline", manifest |-> embed.manifest, mime |-> embed.mime]
<1>1. /\ stage = "move_inline" /\ stage' = "idle" /\ UNCHANGED <<sidecar, first>>
      /\ media' = [media EXCEPT ![q] = g] /\ told' = [told EXCEPT ![q] = e]
  BY DEF E!MoveInline, E!Returns
<1>2. EmbedTypes /\ CallIsGood /\ FilesDescend /\ E!Embedded # Raised /\ stage # "idle"
  BY <1>1 DEF EmbedInv
<1>3. q \in Paths /\ embed.source \in Paths /\ embed.manifest \in Manifests
      /\ media[embed.source] # E!NoFile
  BY <1>2 DEF CallIsGood
<1>4. media[embed.source].format = first.format
  BY <1>2, <1>3 DEF FilesDescend, Descends
<1>5. /\ E!Embedded \in Seq(MediaChunks) /\ Descends(g)
      /\ embed.mime = "none" /\ ~Broken(first.chunks) /\ SizeOf[embed.manifest] \in Capped
           => ReadsAs(Handler(first.format), first, E!Embedded, embed.manifest)
  BY <1>2, <1>4, Embedding
<1>6. g \in MediaRecords /\ g.chunks = E!Embedded /\ g # E!NoFile
  <2>1. first.format \in STRING \cup {"none"}
    BY <1>2, FilesAreGood DEF EmbedTypes, MediaRecords
  <2>2. g.chunks = E!Embedded /\ E!NoFile.chunks = <<>>
    BY DEF E!NoFile
  <2>3. E!Embedded # <<>>
    BY <1>2 DEF Raised
  <2>4. g \in MediaRecords
    BY <1>4, <1>5, <2>1 DEF MediaRecords
  <2> QED
    BY <2>2, <2>3, <2>4
<1> HIDE DEF g, q
<1>7. EmbedTypes'
  <2>1. media' \in [Paths -> MediaRecords] /\ DOMAIN told' = Paths
    BY <1>1, <1>2, <1>3, <1>6 DEF EmbedTypes
  <2> QED
    BY <1>1, <1>2, <2>1 DEF EmbedTypes
<1>8. \A p \in Paths : p # q => media'[p] = media[p] /\ told'[p] = told[p]
  BY <1>1, <1>2 DEF EmbedTypes
<1>9. media'[q] = g /\ told'[q] = e
  BY <1>1, <1>2, <1>3 DEF EmbedTypes
<1>10. FilesDescend'
  <2>1. ASSUME NEW p \in Paths, media'[p] # E!NoFile PROVE Descends(media'[p])
    <3>1. CASE p = q
      BY <1>5, <1>9, <3>1
    <3>2. CASE p # q
      BY <1>2, <1>8, <2>1, <3>2 DEF FilesDescend
    <3> QED
      BY <3>1, <3>2
  <2>2. ASSUME NEW f, Descends(f) PROVE (first' = first) =>
          /\ f.format = first'.format /\ f.chunks # <<>>
          /\ ~Broken(first'.chunks) => f.chunks \in Seq(WholeChunks)
          /\ Without(f.chunks, OurTags') = Without(first'.chunks, OurTags')
          /\ first'.format = "mp4" => Starts(Essence', f.chunks)
          /\ first'.format \in TagWriters => f.chunks[1].tag # "tag"
    BY <2>2 DEF Descends, OurTags, Essence
  <2> QED
    BY <1>1, <2>1, <2>2 DEF FilesDescend, Descends
<1>11. ASSUME NEW p \in Paths PROVE ToldIsSo(p)'
  <2>1. CASE p = q
    <3>1. /\ told'[p].kind = "inline" /\ told'[p].mime = embed.mime
          /\ told'[p].manifest = embed.manifest
      BY <1>9, <2>1
    <3> QED
      BY <1>1, <1>3, <1>5, <1>6, <1>9, <2>1, <3>1 DEF ToldIsSo
  <2>2. CASE p # q
    BY <1>1, <1>8, <2>2 DEF EmbedInv, ToldIsSo
  <2> QED
    BY <2>1, <2>2
<1> QED
  BY <1>1, <1>7, <1>10, <1>11 DEF EmbedInv, CallIsGood

(* The copy is moved over another output. *)
LEMMA EmbedCopies ==
  ASSUME EmbedInv, E!MoveCopy
  PROVE  EmbedInv'
<1> DEFINE q == embed.output
           g == media[embed.source]
<1>1. /\ stage = "move_copy" /\ stage' = "fill_side" /\ UNCHANGED <<sidecar, first, embed>>
      /\ media' = [media EXCEPT ![q] = g] /\ told' = [told EXCEPT ![q] = E!Nothing]
  BY DEF E!MoveCopy
<1>2. EmbedTypes /\ CallIsGood /\ FilesDescend /\ stage # "idle"
  BY <1>1 DEF EmbedInv
<1>3. q \in Paths /\ embed.source \in Paths /\ g # E!NoFile
  BY <1>2 DEF CallIsGood
<1>4. Descends(g) /\ g \in MediaRecords
  BY <1>2, <1>3 DEF FilesDescend, EmbedTypes
<1> HIDE DEF g, q
<1>7. EmbedTypes'
  <2>1. media' \in [Paths -> MediaRecords] /\ DOMAIN told' = Paths
    BY <1>1, <1>2, <1>3, <1>4 DEF EmbedTypes
  <2> QED
    BY <1>1, <1>2, <2>1 DEF EmbedTypes
<1>8. \A p \in Paths : p # q => media'[p] = media[p] /\ told'[p] = told[p]
  BY <1>1, <1>2 DEF EmbedTypes
<1>9. media'[q] = g /\ told'[q] = E!Nothing
  BY <1>1, <1>2, <1>3 DEF EmbedTypes
<1>10. FilesDescend'
  <2>1. ASSUME NEW p \in Paths, media'[p] # E!NoFile PROVE Descends(media'[p])
    <3>1. CASE p = q
      BY <1>4, <1>9, <3>1
    <3>2. CASE p # q
      BY <1>2, <1>8, <2>1, <3>2 DEF FilesDescend
    <3> QED
      BY <3>1, <3>2
  <2>2. ASSUME NEW f, Descends(f) PROVE (first' = first) =>
          /\ f.format = first'.format /\ f.chunks # <<>>
          /\ ~Broken(first'.chunks) => f.chunks \in Seq(WholeChunks)
          /\ Without(f.chunks, OurTags') = Without(first'.chunks, OurTags')
          /\ first'.format = "mp4" => Starts(Essence', f.chunks)
          /\ first'.format \in TagWriters => f.chunks[1].tag # "tag"
    BY <2>2 DEF Descends, OurTags, Essence
  <2> QED
    BY <1>1, <2>1, <2>2 DEF FilesDescend, Descends
<1>11. ASSUME NEW p \in Paths PROVE ToldIsSo(p)'
  <2>1. CASE p = q
    <3>1. told'[p].kind = "none"
      BY <1>9, <2>1 DEF E!Nothing
    <3> QED
      BY <3>1 DEF ToldIsSo
  <2>2. CASE p # q
    BY <1>1, <1>8, <2>2 DEF EmbedInv, ToldIsSo
  <2> QED
    BY <2>1, <2>2
<1>12. CallIsGood'
  <2>1. media'[embed.source] # E!NoFile
    <3>1. CASE embed.source = q
      BY <1>3, <1>9, <3>1
    <3>2. CASE embed.source # q
      BY <1>2, <1>3, <1>8, <3>2 DEF CallIsGood
    <3> QED
      BY <3>1, <3>2
  <2> QED
    BY <1>1, <1>2, <2>1 DEF CallIsGood
<1> QED
  BY <1>1, <1>7, <1>10, <1>11, <1>12 DEF EmbedInv

(* The sidecar is moved in place. *)
LEMMA EmbedSides ==
  ASSUME EmbedInv, E!MoveSide
  PROVE  EmbedInv'
<1> DEFINE q == embed.output
           s == [kind |-> embed.mode, manifest |-> embed.manifest]
           e == [kind |-> IF embed.mode = "pointer" THEN "pointer" ELSE "sidecar",
                 manifest |-> embed.manifest, mime |-> embed.mime]
<1>1. /\ stage = "move_side" /\ stage' = "idle" /\ UNCHANGED <<media, first>>
      /\ sidecar' = [sidecar EXCEPT ![q] = s] /\ told' = [told EXCEPT ![q] = e]
  BY DEF E!MoveSide, E!Returns
<1>2. EmbedTypes /\ CallIsGood /\ FilesDescend /\ stage # "idle"
  BY <1>1 DEF EmbedInv
<1>3. q \in Paths /\ embed.mode \in {"full", "pointer"}
  BY <1>2 DEF CallIsGood
<1> HIDE DEF q
<1>7. EmbedTypes'
  <2>1. DOMAIN sidecar' = Paths /\ DOMAIN told' = Paths
    BY <1>1, <1>2, <1>3 DEF EmbedTypes
  <2> QED
    BY <1>1, <1>2, <2>1 DEF EmbedTypes
<1>8. \A p \in Paths : p # q => sidecar'[p] = sidecar[p] /\ told'[p] = told[p]
  BY <1>1, <1>2 DEF EmbedTypes
<1>9. sidecar'[q] = s /\ told'[q] = e
  BY <1>1, <1>2, <1>3 DEF EmbedTypes
<1>10. FilesDescend'
  BY <1>1, <1>2 DEF FilesDescend, Descends, OurTags, Essence
<1>11. ASSUME NEW p \in Paths PROVE ToldIsSo(p)'
  <2>1. CASE p = q
    <3>1. /\ told'[p].manifest = embed.manifest
          /\ told'[p].kind = IF embed.mode = "pointer" THEN "pointer" ELSE "sidecar"
          /\ sidecar'[p] = [kind |-> embed.mode, manifest |-> embed.manifest]
      BY <1>9, <2>1
    <3> QED
      BY <1>3, <3>1 DEF ToldIsSo
  <2>2. CASE p # q
    BY <1>1, <1>8, <2>2 DEF EmbedInv, ToldIsSo
  <2> QED
    BY <2>1, <2>2
<1> QED
  BY <1>1, <1>7, <1>10, <1>11 DEF EmbedInv, CallIsGood

(* The invariant holds in the embedder, and where it runs in MCStores. *)
THEOREM EmbedInvariance ==
  /\ E!Spec => []EmbedInv
  /\ MCSpec => []EmbedInv
<1>1. E!Init => EmbedInv
  BY EmbedInit
<1>2. EmbedInv /\ [E!Next]_E!vars => EmbedInv'
  <2> SUFFICES ASSUME EmbedInv, E!Next PROVE EmbedInv'
    BY EmbedStill
  <2>1. CASE E!Embed
    BY <2>1, EmbedCalled
  <2>2. CASE E!FillInline
    <3>1. /\ stage = "fill_inline" /\ UNCHANGED <<media, sidecar, embed, told, first>>
          /\ stage' = IF E!Embedded = E!Raised THEN E!Fallback ELSE "move_inline"
      BY <2>2 DEF E!FillInline
    <3>2. E!Fallback \in {"fill_side", "fill_copy"} /\ E!Raised = Raised
      BY DEF E!Fallback, E!Raised, Raised
    <3> QED
      BY <3>1, <3>2, EmbedGoesOn
  <2>3. CASE E!MoveInline
    BY <2>3, EmbedMoves
  <2>4. CASE E!FillCopy
    BY <2>4, EmbedGoesOn DEF E!FillCopy
  <2>5. CASE E!MoveCopy
    BY <2>5, EmbedCopies
  <2>6. CASE E!FillSide
    BY <2>6, EmbedGoesOn DEF E!FillSide
  <2>7. CASE E!MoveSide
    BY <2>7, EmbedSides
  <2>8. CASE E!WriteFails
    <3>1. stage # "idle" /\ UNCHANGED <<media, sidecar, first>>
      BY <2>8 DEF E!WriteFails
    <3>2. CASE stage \in {"fill_inline", "move_inline"}
      <4>1. stage' \in {"fill_side", "fill_copy"} /\ UNCHANGED <<embed, told>>
        BY <2>8, <3>2 DEF E!WriteFails, E!Fallback
      <4> QED
        BY <3>1, <4>1, EmbedGoesOn
    <3>3. CASE stage \notin {"fill_inline", "move_inline"}
      BY <2>8, <3>1, <3>3, EmbedGivesUp DEF E!WriteFails, E!Raises
    <3> QED
      BY <3>2, <3>3
  <2>9. CASE E!Dies
    BY <2>9, EmbedGivesUp DEF E!Dies, E!Raises
  <2> QED
    BY <2>1, <2>2, <2>3, <2>4, <2>5, <2>6, <2>7, <2>8, <2>9 DEF E!Next
<1>3. MCInit => E!Init
  BY DEF MCInit
<1>4. [MCNext]_all => [E!Next]_E!vars
  BY DEF MCNext, all, mediaVars, E!vars
<1> QED
  BY <1>1, <1>2, <1>3, <1>4, PTL DEF E!Spec, MCSpec

(* Whatever fails or dies half-way, a file keeps its media, in order, an   *)
(* MP4 where it was; and where embed() said that the manifest is, a reader *)
(* finds it.                                                               *)
THEOREM EmbeddingIsFaithful ==
  /\ E!Spec => [](E!MediaKept /\ E!ReadsBack)
  /\ MCSpec => []EmbedIsFaithful
<1>1. ASSUME EmbedInv PROVE E!MediaKept
  <2> SUFFICES ASSUME NEW p \in Paths, media[p] # E!NoFile
               PROVE  /\ E!Without(media[p].chunks, OurTags) = E!Without(first.chunks, OurTags)
                      /\ first.format = "mp4" =>
                           E!IsPrefix(E!Without(first.chunks, {"tail"}), media[p].chunks)
    BY DEF E!MediaKept, OurTags
  <2> DEFINE c == media[p].chunks
  <2>1. /\ Descends(media[p]) /\ c \in Seq(MediaChunks)
    BY <1>1 DEF EmbedInv, EmbedTypes, FilesDescend, MediaRecords
  <2>2. \A s, tags : E!Without(s, tags) = Without(s, tags)
    BY OneLibrary DEF FormatsMeanTheSame
  <2>3. E!Without(c, OurTags) = E!Without(first.chunks, OurTags)
    BY <2>1, <2>2 DEF Descends
  <2> HIDE DEF c
  <2>4. ASSUME first.format = "mp4" PROVE E!IsPrefix(Essence, c)
    <3>1. Essence \in Seq(MediaChunks)
      BY <1>1, FilesAreGood DEF EmbedInv, EmbedTypes, Essence
    <3>2. Starts(Essence, c)
      BY <2>1, <2>4 DEF Descends, c
    <3> DEFINE b == Essence
    <3> HIDE DEF b
    <3>3. b \in Seq(MediaChunks) /\ Starts(b, c)
      BY <3>1, <3>2 DEF b
    <3>4. SubSeq(b, 1, Len(b)) = SubSeq(c, 1, Len(b)) /\ Len(b) <= Len(c)
      BY <2>1, <3>3 DEF Starts
    <3> QED
      BY <3>4 DEF E!IsPrefix, b
  <2> QED
    BY <2>2, <2>3, <2>4 DEF c, Essence
<1>2. ASSUME EmbedInv PROVE E!ReadsBack
  <2> SUFFICES ASSUME NEW p \in Paths
               PROVE  /\ told[p].kind = "inline" /\ told[p].mime = "none" /\ ~E!Broken(first.chunks)
                           /\ SizeOf[told[p].manifest] \in E!Capped
                         => E!ExtractManifest(p) = told[p].manifest
                      /\ told[p].kind = "sidecar" /\ SizeOf[told[p].manifest] \in E!Capped
                         => E!SidecarExtract(p) = told[p].manifest
                      /\ told[p].kind = "pointer"
                         => sidecar[p] = [kind |-> "pointer", manifest |-> told[p].manifest]
    BY DEF E!ReadsBack
  <2>1. ToldIsSo(p)
    BY <1>2 DEF EmbedInv
  <2>2. E!Capped = Capped /\ E!Broken(first.chunks) = Broken(first.chunks)
    BY OneLibrary DEF FormatsMeanTheSame, E!Capped, Capped
  <2>3. ASSUME told[p].kind = "inline", told[p].mime = "none", ~Broken(first.chunks),
               SizeOf[told[p].manifest] \in Capped
        PROVE  E!ExtractManifest(p) = told[p].manifest
    <3>1. /\ told[p].manifest \in Manifests /\ media[p] # E!NoFile
          /\ ReadsAs(Handler(first.format), first, media[p].chunks, told[p].manifest)
      BY <2>1, <2>3 DEF ToldIsSo
    <3>2. media[p] \in MediaRecords /\ media[p].format = first.format
      BY <1>2, <3>1 DEF EmbedInv, EmbedTypes, FilesDescend, Descends
    <3>3. media[p] = [format |-> first.format, chunks |-> media[p].chunks]
      BY <3>2 DEF MediaRecords
    <3>4. ExtractWith(Handler(media[p].format), media[p]) = told[p].manifest
      BY <3>1, <3>2, <3>3 DEF ReadsAs
    <3>5. E!ExtractWith(E!Handler(media[p].format), media[p])
            = ExtractWith(Handler(media[p].format), media[p])
      BY OneLibrary, Zenon DEF FormatsMeanTheSame
    <3>6. told[p].manifest # E!Raised
      BY <3>1, ManifestsAreSome DEF Raised, E!Raised
    <3> QED
      BY <3>4, <3>5, <3>6 DEF E!ExtractManifest
  <2>4. ASSUME told[p].kind = "sidecar", SizeOf[told[p].manifest] \in Capped
        PROVE  E!SidecarExtract(p) = told[p].manifest
    <3>1. sidecar[p] = [kind |-> "full", manifest |-> told[p].manifest]
      BY <2>1, <2>4 DEF ToldIsSo
    <3>2. sidecar[p].kind = "full" /\ sidecar[p].manifest = told[p].manifest
      BY <3>1
    <3> QED
      BY <2>2, <2>4, <3>2 DEF E!SidecarExtract
  <2>5. told[p].kind = "pointer" => sidecar[p] = [kind |-> "pointer", manifest |-> told[p].manifest]
    BY <2>1 DEF ToldIsSo
  <2> QED
    BY <2>2, <2>3, <2>4, <2>5
<1>3. EmbedInv => EmbedIsFaithful
  BY <1>1, <1>2 DEF EmbedIsFaithful
<1> QED
  BY <1>1, <1>2, <1>3, EmbedInvariance, PTL
=============================================================================
