------------------------------- MODULE Registry -------------------------------
(***************************************************************************)
(* ModelRegistry: what a model name stands for.  A registry has a layer of *)
(* user specs, families of the user and of the connector that match names, *)
(* the aliases of the user specs, and a fallback; several provider         *)
(* instances may share one, and a fork is to behave like its parent.       *)
(*                                                                         *)
(* A spec is reduced to the slug it sends upstream, where its parameter    *)
(* contract comes from, whether it is priced, and its aliases.  A          *)
(* discovery cache is the instance whose client it asks and the last good  *)
(* catalog; how it is filled is Discovery.  Calls are atomic: writers hold *)
(* the registry's lock.                                                    *)
(***************************************************************************)
EXTENDS Naturals, Sequences, FiniteSets, SequencesExt

CONSTANTS
  Names,           \* what callers pass as a model
  Covered,         \* those a connector-shipped family matches
  Canonical,       \* the family's canonical_slug, on Covered
  UserCovered,     \* those the user's own family matches, if registered
  Old,             \* names that users declare as aliases
  Registries,
  Shared,          \* the class-level default registry
  Instances,       \* provider instances, each with its own credentials
  MaxUserFamilies,
  MaxOps           \* bound: changes to the registries

VARIABLES
  reg,      \* per registry: [live, user, families, cache, parent]
  uses,     \* the registry of each instance, or {} before it is constructed
  catalog,  \* what each instance's account may use upstream
  ops

vars == <<reg, uses, catalog, ops>>

(* The slugs an upstream catalog may have. *)
Upstream == {n \in Names \ Old : n \in Covered => Canonical[n] = n}

NoCache == [owner |-> {}, known |-> FALSE, slugs |-> {}]

Dead == [live |-> FALSE, user |-> <<>>, families |-> 0, cache |-> NoCache,
         parent |-> Shared]
-----------------------------------------------------------------------------
(* The user layer is a dict: [key, spec] entries in the order of their     *)
(* first insertion.                                                        *)
Put(user, key, spec) ==
  LET entry == [key |-> key, spec |-> spec]
  IN IF \E i \in DOMAIN user : user[i].key = key
     THEN [i \in DOMAIN user |-> IF user[i].key = key THEN entry ELSE user[i]]
     ELSE Append(user, entry)

Keys(R) == {e.key : e \in ToSet(R.user)}
User(R, key) == (CHOOSE e \in ToSet(R.user) : e.key = key).spec

Spec0(wire, contract) ==
  [wire |-> wire, contract |-> contract, priced |-> FALSE,
   aliases |-> {}, deprecated |-> {}]

Fallback == Spec0("*", "fallback")

(* _rebuild_alias_index: of several claims the last entry's holds. *)
Claims(R, id) == {i \in DOMAIN R.user : id \in R.user[i].spec.aliases}
OldClaims(R, id) == {i \in DOMAIN R.user : id \in R.user[i].spec.deprecated}

LastOf(R, claims) == R.user[CHOOSE i \in claims : \A j \in claims : j <= i].spec

(* match_family: the user's families come first. *)
UserMatch(R, id) == R.families > 0 /\ id \in UserCovered
Matches(R, id) == UserMatch(R, id) \/ id \in Covered

Normalized(R, id) ==
  IF ~UserMatch(R, id) /\ id \in Covered THEN Canonical[id] ELSE id

FamilySpec(R, id) ==
  Spec0(Normalized(R, id), IF UserMatch(R, id) THEN "users" ELSE "family")

(* get() *)
Get(R, id) ==
  IF id \in Keys(R) THEN User(R, id)
  ELSE IF Matches(R, id) THEN FamilySpec(R, id)
  ELSE IF Claims(R, id) # {} THEN LastOf(R, Claims(R, id))
  ELSE IF OldClaims(R, id) # {} THEN LastOf(R, OldClaims(R, id))
  ELSE Fallback

(* resolve_canonical(): what submit() sends for a name. *)
Wire(R, id) == IF Get(R, id) = Fallback THEN id ELSE Get(R, id).wire

(* validate() of a NATIVE provider: the verdict and where it comes from. *)
Verdict(outcome, source) == [outcome |-> outcome, source |-> source]

Validate(R, id) ==
  IF id \in Keys(R) THEN Verdict("authoritative", "user")
  ELSE IF R.cache.known
       THEN Verdict(IF Normalized(R, id) \in R.cache.slugs
                    THEN "authoritative" ELSE "not found", "discovery")
  ELSE IF Matches(R, id) THEN Verdict("provisional", "family")
  ELSE Verdict("unknown", "fallback")
-----------------------------------------------------------------------------
Init == /\ reg = [r \in Registries |->
                    IF r = Shared THEN [Dead EXCEPT !.live = TRUE] ELSE Dead]
        /\ uses = [i \in Instances |-> {}]
        /\ catalog \in [Instances -> SUBSET Upstream]
        /\ ops = 0

Changed == ops < MaxOps /\ ops' = ops + 1 /\ UNCHANGED <<uses, catalog>>

Live == {r \in Registries : reg[r].live}

(* register(), with an alias or a deprecated alias or none. *)
OwnSpecs ==
  {s \in [wire : Upstream, contract : {"own"}, priced : {FALSE},
          aliases : SUBSET Old, deprecated : SUBSET Old] :
     Cardinality(s.aliases \cup s.deprecated) <= 1 /\ s.aliases \cap s.deprecated = {}}

Register(r, spec) ==
  /\ Changed
  /\ reg' = [reg EXCEPT ![r].user = Put(@, spec.wire, spec)]

(* register_pricing(): over the user's entry, else the family's spec, else *)
(* a bare one.                                                             *)
Priced_NoFamily(R, id) ==
  [IF id \in Keys(R) THEN User(R, id) ELSE Spec0(id, "bare") EXCEPT !.priced = TRUE]
Priced(R, id) ==
  [IF id \in Keys(R) THEN User(R, id)
   ELSE IF Matches(R, id) THEN FamilySpec(R, id)
   ELSE Spec0(id, "bare") EXCEPT !.priced = TRUE]

RegisterPricing(r, id) ==
  /\ Changed
  /\ reg' = [reg EXCEPT ![r].user = Put(@, id, Priced(reg[r], id))]

RegisterFamily(r) ==
  /\ Changed
  /\ reg[r].families < MaxUserFamilies
  /\ reg' = [reg EXCEPT ![r].families = @ + 1]

(* fork(): extend() files the user's specs under their own model_id. *)
Refiled(user) ==
  LET upTo[n \in 0..Len(user)] ==
        IF n = 0 THEN <<>> ELSE Put(upTo[n - 1], user[n].spec.wire, user[n].spec)
  IN upTo[Len(user)]

Clone(r) ==
  [live |-> TRUE, user |-> Refiled(reg[r].user), families |-> reg[r].families,
   cache |-> [NoCache EXCEPT !.owner = reg[r].cache.owner], parent |-> r]

Fork(r, c) == /\ Changed
              /\ ~reg[c].live
              /\ reg' = [reg EXCEPT ![c] = Clone(r)]

(* A NATIVE connector's constructor puts a cache over its own client into  *)
(* the registry it was given, or into the class's.                         *)
Installed_First(i, r) ==
  IF reg[r].cache.owner = {} THEN [NoCache EXCEPT !.owner = {i}] ELSE reg[r].cache
Installed(i, r) == [NoCache EXCEPT !.owner = {i}]

Construct(i, r) ==
  /\ uses[i] = {}
  /\ uses' = [uses EXCEPT ![i] = {r}]
  /\ reg' = [reg EXCEPT ![r].cache = Installed(i, r)]
  /\ UNCHANGED <<catalog, ops>>

(* discover_models() of an instance: a fetch by the client that the cache  *)
(* of its registry belongs to, which may fail.                             *)
Discover(i) ==
  \E r \in uses[i] : \E o \in reg[r].cache.owner :
    /\ reg' = [reg EXCEPT ![r].cache = [@ EXCEPT !.known = TRUE, !.slugs = catalog[o]]]
    /\ UNCHANGED <<uses, catalog, ops>>

Next == \/ \E r \in Live : \/ \E spec \in OwnSpecs : Register(r, spec)
                           \/ \E id \in Names : RegisterPricing(r, id)
                           \/ RegisterFamily(r)
                           \/ \E c \in Registries : Fork(r, c)
                           \/ \E i \in Instances : Construct(i, r)
        \/ \E i \in Instances : Discover(i)

Spec == Init /\ [][Next]_vars
-----------------------------------------------------------------------------
(* Names that are filed under another model_id than their key, because    *)
(* register_pricing() was given a name that its family rewrites; and those *)
(* that stand for that model_id.                                           *)
Misfiled(R, id) == \E e \in ToSet(R.user) :
                      e.key # e.spec.wire /\ (id = e.key \/ Get(R, id).wire = e.spec.wire)

(* Names that only an alias or the fallback resolves. *)
Uncovered(R, id) == id \notin Keys(R) /\ ~Matches(R, id)

(* A fork gives every name the meaning its parent gives it: the slug, the  *)
(* parameter contract, the price.  Exception: fork() files every spec      *)
(* under its model_id, so a price for a name that its family rewrites is   *)
(* lost, or replaces the spec that the user registered for the other name. *)
Forked(c) == ~reg[c].live /\ reg'[c].live
ForkIsAClone ==
  [][\A c \in Registries : Forked(c) =>
       LET R == reg[reg'[c].parent]
       IN \A id \in Names : Misfiled(R, id) \/ Get(reg'[c], id) = Get(R, id)]_vars

(* register_pricing() changes a price and nothing else: no name is sent    *)
(* upstream differently, or loses the parameter contract of its spec or    *)
(* family.  Exception: a name that only an alias or the fallback resolved. *)
PricedNow(r, id) == id \in Keys(reg'[r]) /\ User(reg'[r], id).priced
PricingKeepsContract ==
  [][\A r \in Live, id \in Names :
       PricedNow(r, id) /\ reg'[r].families = reg[r].families /\ ~Uncovered(reg[r], id) =>
         \/ Get(reg'[r], id) = [Get(reg[r], id) EXCEPT !.priced = TRUE]
         \/ Get(reg'[r], id).contract = "own"]_vars

(* What discovery says of a name is about the slug that a submit of it     *)
(* sends, and about the catalog of the instance that asks: as long as no   *)
(* other instance has the registry, the verdict is authoritative exactly   *)
(* when that slug is in this instance's catalog.  Exception: aliases.      *)
Alone(i, r) == \A j \in Instances \ {i} : r \notin uses[j]

VerdictIsAboutTheWire ==
  \A i \in Instances : \A r \in uses[i] : \A id \in Names :
    /\ Alone(i, r)
    /\ Validate(reg[r], id).source = "discovery"
    /\ ~(Uncovered(reg[r], id) /\ Get(reg[r], id) # Fallback)
    => (Validate(reg[r], id).outcome = "authoritative") = (Wire(reg[r], id) \in catalog[i])
=============================================================================
