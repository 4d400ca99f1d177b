----------------------------- MODULE AssetStore -----------------------------
(***************************************************************************)
(* ObjectStorageSink.put_asset() by several threads or processes over one  *)
(* bucket: AssetTransfer brings the bytes in under a content-addressed     *)
(* key, directly or by way of a temporary key (pipelined_transfer), and    *)
(* the asset index then ties the asset to its manifest, under a tenant's   *)
(* key and under the older key without one.  Every request to the bucket   *)
(* is a step; any may fail, and a writer may die between two.              *)
(*                                                                         *)
(* The bytes of an asset are its own for good; keys, bytes and digests are *)
(* named by the asset they come from.                                      *)
(***************************************************************************)
EXTENDS Naturals

CONSTANTS
  Writers,
  Assets,
  Indexed,    \* bound: the assets that are put with a manifest_uri
  Manifests,
  Tenants,
  Bytes,      \* [Assets -> Assets], what the source of each serves: two may be alike
  TenantOf,   \* [Manifests -> Tenants]
  MaxFaults   \* bound: requests that fail

Nothing == [tenant |-> {}, manifest |-> {}]
AnAsset == CHOOSE a \in Assets : TRUE
Entry(m) == [tenant |-> TenantOf[m], manifest |-> m]

VARIABLES
  pipelined, \* AssetTransfer._pipelined_transfer
  final,     \* the objects under content keys: digest to bytes, {} when absent
  temp,      \* the objects under temporary keys
  index,     \* <<tenant, asset>> to index entry
  legacy,    \* asset to index entry of the key without tenant
  pc,        \* where each writer is
  asset, manifest, \* its put_asset()
  read,      \* the bytes it read from the source
  met,       \* history: it ran together with a writer of the same asset
  sure,      \* history: <<asset, manifest>> pairs whose put_asset() returned, met by no other
  excused,   \* history: a writer died, or could not delete in its error path
  faults

vars == <<pipelined, final, temp, index, legacy, pc, asset, manifest, read, met, sure, excused, faults>>
blame == <<excused, faults>>
objects == <<final, temp, index, legacy>>
call == <<asset, manifest, read>>

Stages == {"download", "seek_final", "drop_temp", "copy", "put_final",
           "seek_index", "read_index", "put_index", "seek_legacy", "read_legacy", "put_legacy",
           "undo_index", "clean"}

Entries == [tenant : Tenants \cup {{}}, manifest : Manifests \cup {{}}]

TypeOK ==
  /\ pipelined \in BOOLEAN
  /\ final \in [Assets -> Assets \cup {{}}]
  /\ temp \in [Assets -> Assets \cup {{}}]
  /\ index \in [Tenants \X Assets -> Entries]
  /\ legacy \in [Assets -> Entries]
  /\ pc \in [Writers -> Stages \cup {"idle"}]
  /\ asset \in [Writers -> Assets]
  /\ manifest \in [Writers -> Manifests \cup {{}}]
  /\ read \in [Writers -> Assets \cup {{}}]
  /\ met \subseteq Writers
  /\ sure \subseteq Assets \X Manifests
  /\ excused \in BOOLEAN
  /\ faults \in 0..MaxFaults

(* The older index may hold entries from before there were tenants. *)
Init ==
  /\ pipelined \in BOOLEAN
  /\ final = [a \in Assets |-> {}]
  /\ temp = [a \in Assets |-> {}]
  /\ index = [ta \in Tenants \X Assets |-> Nothing]
  /\ legacy \in [Assets -> {Nothing} \cup {[tenant |-> {}, manifest |-> m] : m \in Manifests}]
  /\ \A a \in Assets \ Indexed : legacy[a] = Nothing
  /\ pc = [w \in Writers |-> "idle"]
  /\ asset = [w \in Writers |-> AnAsset]
  /\ manifest = [w \in Writers |-> {}]
  /\ read = [w \in Writers |-> {}]
  /\ met = {}
  /\ sure = {}
  /\ excused = FALSE
  /\ faults = 0

At(w, where) == pc[w] = where
Busy(w) == pc[w] # "idle"

Own(w) == <<TenantOf[manifest[w]], asset[w]>>

TempKey_Shared(w) == CHOOSE a \in Assets : TRUE

TempKey(w) == asset[w]

(* The call goes on at its next request. *)
Goes(w, where) ==
  /\ pc' = [pc EXCEPT ![w] = where]
  /\ UNCHANGED <<pipelined, call, met>>

(* The call is over, by a return, an exception or the death of the writer. *)
Ends(w) ==
  /\ pc' = [pc EXCEPT ![w] = "idle"]
  /\ asset' = [asset EXCEPT ![w] = AnAsset]
  /\ manifest' = [manifest EXCEPT ![w] = {}]
  /\ read' = [read EXCEPT ![w] = {}]
  /\ met' = met \ {w}
  /\ UNCHANGED pipelined

Raises(w) == Ends(w) /\ UNCHANGED sure

Returns(w) ==
  /\ Ends(w)
  /\ sure' = IF w \in met THEN sure ELSE sure \cup {<<asset[w], manifest[w]>>}

(* The bytes are in: put_asset() is over unless there is a manifest. *)
Stored(w) ==
  IF manifest[w] = {} THEN Ends(w) ELSE Goes(w, "seek_index")

PutAsset(w) ==
  /\ At(w, "idle")
  /\ pc' = [pc EXCEPT ![w] = "download"]
  /\ \E a \in Assets : \E m \in IF a \in Indexed THEN Manifests ELSE {{}} :
       /\ asset' = [asset EXCEPT ![w] = a]
       /\ manifest' = [manifest EXCEPT ![w] = m]
       /\ met' = LET others == {v \in Writers : Busy(v) /\ asset[v] = a}
                 IN  IF others = {} THEN met ELSE met \cup others \cup {w}
  /\ UNCHANGED <<pipelined, objects, read, sure, blame>>

-----------------------------------------------------------------------------
(* AssetTransfer.transfer() *)

(* Spooled, the bytes are read before anything is stored; pipelined, they  *)
(* are read while they are uploaded to the temporary key.                  *)
Download(w) ==
  /\ At(w, "download")
  /\ read' = [read EXCEPT ![w] = Bytes[asset[w]]]
  /\ temp' = IF pipelined THEN [temp EXCEPT ![TempKey(w)] = Bytes[asset[w]]] ELSE temp
  /\ pc' = [pc EXCEPT ![w] = "seek_final"]
  /\ UNCHANGED <<pipelined, final, index, legacy, asset, manifest, met, sure, blame>>

SeekFinal(w) ==
  /\ At(w, "seek_final")
  /\ IF final[read[w]] # {}
     THEN IF pipelined THEN Goes(w, "drop_temp") ELSE Stored(w)
     ELSE Goes(w, IF pipelined THEN "copy" ELSE "put_final")
  /\ UNCHANGED <<objects, sure, blame>>

PutFinal(w) ==
  /\ At(w, "put_final")
  /\ final' = [final EXCEPT ![read[w]] = read[w]]
  /\ Stored(w)
  /\ UNCHANGED <<temp, index, legacy, sure, blame>>

(* The copy takes what is under the temporary key now, if anything is. *)
CopyTemp(w) ==
  /\ At(w, "copy")
  /\ IF temp[TempKey(w)] # {}
     THEN final' = [final EXCEPT ![read[w]] = temp[TempKey(w)]] /\ Goes(w, "drop_temp")
     ELSE Goes(w, "clean") /\ UNCHANGED final
  /\ UNCHANGED <<temp, index, legacy, sure, blame>>

DropTemp(w) ==
  /\ At(w, "drop_temp")
  /\ temp' = [temp EXCEPT ![TempKey(w)] = {}]
  /\ Stored(w)
  /\ UNCHANGED <<final, index, legacy, sure, blame>>

(* The error path deletes the temporary object, then raises. *)
Clean(w) ==
  /\ At(w, "clean")
  /\ temp' = [temp EXCEPT ![TempKey(w)] = {}]
  /\ Raises(w)
  /\ UNCHANGED <<final, index, legacy, blame>>

-----------------------------------------------------------------------------
(* _write_asset_index() *)

SeekIndex(w) ==
  /\ At(w, "seek_index")
  /\ Goes(w, IF index[Own(w)] # Nothing THEN "read_index" ELSE "put_index")
  /\ UNCHANGED <<objects, sure, blame>>

ReadIndex_Overwrites(w) ==
  /\ At(w, "read_index")
  /\ IF index[Own(w)] = Entry(manifest[w]) THEN Returns(w)
     ELSE Goes(w, "put_index") /\ UNCHANGED sure
  /\ UNCHANGED <<objects, blame>>

(* An index that says something else is an error, never changed; one that  *)
(* is gone by now cannot be read.                                          *)
ReadIndex(w) ==
  /\ At(w, "read_index")
  /\ IF index[Own(w)] = Entry(manifest[w]) THEN Returns(w) ELSE Raises(w)
  /\ UNCHANGED <<objects, blame>>

PutIndex(w) ==
  /\ At(w, "put_index")
  /\ index' = [index EXCEPT ![Own(w)] = Entry(manifest[w])]
  /\ Goes(w, "seek_legacy")
  /\ UNCHANGED <<final, temp, legacy, sure, blame>>

SeekLegacy(w) ==
  /\ At(w, "seek_legacy")
  /\ Goes(w, IF legacy[asset[w]] # Nothing THEN "read_legacy" ELSE "put_legacy")
  /\ UNCHANGED <<objects, sure, blame>>

ReadLegacy(w) ==
  LET old == legacy[asset[w]]
  IN  /\ At(w, "read_legacy")
      /\ IF old.tenant \in {{}, TenantOf[manifest[w]]} /\ old.manifest = manifest[w]
         THEN Returns(w)
         ELSE Goes(w, "undo_index") /\ UNCHANGED sure
      /\ UNCHANGED <<objects, blame>>

UndoIndex(w) ==
  /\ At(w, "undo_index")
  /\ index' = [index EXCEPT ![Own(w)] = Nothing]
  /\ Raises(w)
  /\ UNCHANGED <<final, temp, legacy, blame>>

PutLegacy(w) ==
  /\ At(w, "put_legacy")
  /\ legacy' = [legacy EXCEPT ![asset[w]] = Entry(manifest[w])]
  /\ Returns(w)
  /\ UNCHANGED <<final, temp, index, blame>>

-----------------------------------------------------------------------------
Fault == faults < MaxFaults /\ faults' = faults + 1

(* A request that fails raises; when there may be a temporary object the   *)
(* error path deletes it first.                                            *)
RequestFails(w) ==
  /\ Busy(w)
  /\ Fault
  /\ IF pipelined /\ pc[w] \in {"download", "seek_final", "copy", "drop_temp"}
     THEN Goes(w, "clean") /\ UNCHANGED sure
     ELSE Raises(w)
  /\ excused' = (excused \/ At(w, "clean"))
  /\ UNCHANGED objects

Dies(w) ==
  /\ Busy(w)
  /\ Fault
  /\ Raises(w)
  /\ excused' = TRUE
  /\ UNCHANGED objects

Next ==
  \E w \in Writers :
    \/ PutAsset(w) \/ Download(w) \/ SeekFinal(w) \/ PutFinal(w)
    \/ CopyTemp(w) \/ DropTemp(w) \/ Clean(w)
    \/ SeekIndex(w) \/ ReadIndex(w) \/ PutIndex(w) \/ SeekLegacy(w) \/ ReadLegacy(w)
    \/ UndoIndex(w) \/ PutLegacy(w)
    \/ RequestFails(w) \/ Dies(w)

Spec == Init /\ [][Next]_vars

-----------------------------------------------------------------------------
(* read_manifest_for_asset(): the tenant's entry, else the older one if it *)
(* is not another tenant's.                                                *)
Lookup(tenant, a) ==
  LET entry == IF index[<<tenant, a>>] # Nothing THEN index[<<tenant, a>>] ELSE legacy[a]
  IN  IF entry.tenant \in {{}, tenant} THEN entry.manifest ELSE {}

(* A content key never holds other bytes than those it is named for,       *)
(* whoever uploads, copies and deletes at the same time.                   *)
CasIsContent == \A d \in Assets : final[d] \in {{}, d}

(* Temporary objects are all gone when the writers are, whatever request   *)
(* failed, unless one died or failed to delete in its error path; and a    *)
(* copy finds its temporary object gone only when another writer of the    *)
(* same asset used the same key.                                           *)
TempIsTidy ==
  /\ ~excused /\ (\A w \in Writers : ~Busy(w)) => \A a \in Assets : temp[a] = {}
  /\ \A w \in Writers : At(w, "clean") => faults > 0 \/ w \in met

(* An asset that was tied to a manifest stays tied to it: what put_asset() *)
(* told a writer that met no other stays true.                             *)
IndexStays ==
  \A a \in Assets, m \in Manifests : <<a, m>> \in sure => Lookup(TenantOf[m], a) = m

=============================================================================
