--------------------------- MODULE MCHousekeeping ---------------------------
(***************************************************************************)
(* TLC instances of SignIn, RoutingKeys, Reconciler and Migrations: what   *)
(* goes on around sessions and publications.  They share nothing here, so  *)
(* that each is explored with the others at rest.                          *)
(***************************************************************************)
EXTENDS SignIn, Reconciler, Migrations

CONSTANTS s1, w1, w2, v1, r1, h1, h2

MCWorkers == {w1, w2}
MCHosts == {h1, h2}

\* A key that replaces another one: the two overlap for one instant.
MCKids == {1, 2}
MCNotBefore == [k \in MCKids |-> k - 1]
MCNotAfter == [k \in MCKids |-> k + 1]
Keyring(first, second) == [k \in MCKids |-> IF k = 1 THEN first ELSE second]
MCRollout ==
  << Keyring("ACTIVE", "ABSENT"), Keyring("OVERLAP", "ACTIVE"), Keyring("RETIRED", "ACTIVE") >>

Symmetry ==
  UNION {Permutations(set) : set \in {Calls, Keys, Workers}}

VARIABLE part

housekeepingVars == <<part, signInVars, reconcilerVars, migrationVars>>

MCHousekeepingInit ==
  /\ part \in {"admission", "provider", "keys", "reconciler", "migrations"}
  /\ SignInInit /\ ReconcilerInit /\ MigrationsInit

\* Any logins, while nobody comes back from a provider that stays as it is.
AdmissionAlone ==
  /\ SignInNext /\ UNCHANGED provider
  /\ \A c \in Calls : call'[c].kind # "callback"

\* Callbacks, a provider that changes, and a login of one source in every window.
ProviderAlone ==
  /\ SignInNext
  /\ admission'.global.count <= 1 /\ DOMAIN admission'.sources \subseteq {s1}

\* With keys that are replaced, or else with a second host; a release on every row.
KeysAlone ==
  /\ KeysNext /\ UNCHANGED <<restores, inspection, moved>>
  /\ \A g \in DOMAIN rows' : rows'[g].release = r1 /\ (g = 1 => rows'[g].host = h1)
  /\ \/ \A g \in DOMAIN rows' : rows'[g].host = h1
     \/ \A p \in Processes : stage'[p] = 1

\* With a reconciler: one host, and one worker at a time.
ReconcilerAlone ==
  /\ ReconcilerNext
  /\ Cardinality({w \in Workers : applying'[w] # NotApplying}) <= 1
  /\ \A g \in DOMAIN rows' : rows'[g].host = h1

MCHousekeepingNext ==
  /\ \/ part = "admission" /\ AdmissionAlone /\ UNCHANGED <<reconcilerVars, migrationVars>>
     \/ part = "provider" /\ ProviderAlone /\ UNCHANGED <<reconcilerVars, migrationVars>>
     \/ part = "keys" /\ KeysAlone /\ UNCHANGED <<signInVars, migrationVars>>
     \/ part = "reconciler" /\ ReconcilerAlone /\ UNCHANGED <<signInVars, migrationVars>>
     \/ part = "migrations" /\ MigrationsNext /\ UNCHANGED <<signInVars, reconcilerVars>>
  /\ UNCHANGED part

MCHousekeepingSpec == MCHousekeepingInit /\ [][MCHousekeepingNext]_housekeepingVars

=============================================================================
