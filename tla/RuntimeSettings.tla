-------------------------- MODULE RuntimeSettings --------------------------
(***************************************************************************)
(* Overrides of the settings that administrators save at run time          *)
(* (app/runtime_settings.py, app/api/admin_settings.py), the process's     *)
(* cache of them and the query router built from them                      *)
(* (app/api/dependencies.py).                                              *)
(*                                                                         *)
(* Requests run in threads over one app.state: one action is one database  *)
(* statement or transaction, or one access to an attribute of app.state.   *)
(***************************************************************************)
EXTENDS Naturals

CONSTANTS
  Keys,         (* settings an administrator may override                  *)
  RouterKeys,   (* those a router is built from                            *)
  Values,       (* override values                                         *)
  None,         (* no override, nothing cached                             *)
  Readers,      (* concurrent requests that need a router                  *)
  Admins,       (* concurrent PUT /admin/settings                          *)
  Warm,         (* whether the run starts with the cache filled            *)
  MaxRestarts   (* bound on restarts of the process                        *)

(* What the constants must be.  It is a hypothesis of the theorems.         *)
SettingsAssumption ==
  /\ RouterKeys \subseteq Keys
  /\ None \notin Values \cup [RouterKeys -> Values \cup {None}]
  /\ Warm \in BOOLEAN
  /\ MaxRestarts \in Nat

VARIABLES
  table,        (* runtime_settings                                        *)
  cache,        (* app.state.runtime_overrides                             *)
  router,       (* app.state.query_router_cached: what it was built from   *)
  routerKey,    (* app.state.query_router_key                              *)
  reader, admin, (* where each request is, and its locals                  *)
  restarts      (* history: restarts so far                                *)

vars == <<table, cache, router, routerKey, reader, admin, restarts>>

Overrides == [Keys -> Values \cup {None}]
Builds == [RouterKeys -> Values \cup {None}]

NoOverrides == [key \in Keys |-> None]

(* The build key of the router for a set of overrides.                      *)
Build(overrides) == [key \in RouterKeys |-> overrides[key]]

ReaderIdle == [pc |-> "idle", seen |-> NoOverrides, found |-> None]
AdminIdle == [pc |-> "idle", seen |-> NoOverrides, payload |-> NoOverrides]

TypeOK ==
  /\ table \in Overrides
  /\ cache \in Overrides \cup {None}
  /\ {router, routerKey} \subseteq Builds \cup {None}
  /\ reader \in [Readers -> [pc: {"idle", "load", "fill", "lookup", "compare", "build", "key",
                                  "route"},
                             seen: Overrides, found: Builds \cup {None}]]
  /\ admin \in [Admins -> [pc: {"idle", "commit", "cache"}, seen: Overrides, payload: Overrides]]
  /\ restarts \in 0..MaxRestarts
  /\ \A r \in Readers : reader[r].pc \in {"compare", "key", "route"} => reader[r].found # None

Init ==
  /\ table = NoOverrides
  /\ cache = IF Warm THEN NoOverrides ELSE None
  /\ router = None /\ routerKey = None
  /\ reader = [r \in Readers |-> ReaderIdle]
  /\ admin = [a \in Admins |-> AdminIdle]
  /\ restarts = 0

-----------------------------------------------------------------------------
(* A request that needs the router: get_runtime_overrides, then             *)
(* get_query_router.                                                        *)

At(r, pc) == reader[r].pc = pc
Move(r, local) == reader' = [reader EXCEPT ![r] = local]
Step(r, pc) == reader' = [reader EXCEPT ![r].pc = pc]

ReadCache(r) ==
  /\ At(r, "idle")
  /\ Move(r, IF cache = None
             THEN [ReaderIdle EXCEPT !.pc = "load"]
             ELSE [ReaderIdle EXCEPT !.pc = "lookup", !.seen = cache])
  /\ UNCHANGED <<table, cache, router, routerKey, admin, restarts>>

(* A failure of the database counts as no overrides.                        *)
LoadOverrides(r) ==
  /\ At(r, "load")
  /\ \E loaded \in {table, NoOverrides} : Move(r, [reader[r] EXCEPT !.pc = "fill", !.seen = loaded])
  /\ UNCHANGED <<table, cache, router, routerKey, admin, restarts>>

FillCache(r) ==
  /\ At(r, "fill")
  /\ cache' = reader[r].seen
  /\ Step(r, "lookup")
  /\ UNCHANGED <<table, router, routerKey, admin, restarts>>

LookUpRouter(r) ==
  /\ At(r, "lookup")
  /\ Move(r, [reader[r] EXCEPT !.pc = IF router = None THEN "build" ELSE "compare",
                               !.found = router])
  /\ UNCHANGED <<table, cache, router, routerKey, admin, restarts>>

CompareKey(r) ==
  /\ At(r, "compare")
  /\ Step(r, IF routerKey = Build(reader[r].seen) THEN "route" ELSE "build")
  /\ UNCHANGED <<table, cache, router, routerKey, admin, restarts>>

BuildRouter(r) ==
  /\ At(r, "build")
  /\ router' = Build(reader[r].seen)
  /\ Move(r, [reader[r] EXCEPT !.pc = "key", !.found = router'])
  /\ UNCHANGED <<table, cache, routerKey, admin, restarts>>

SetRouterKey(r) ==
  /\ At(r, "key")
  /\ routerKey' = Build(reader[r].seen)
  /\ Step(r, "route")
  /\ UNCHANGED <<table, cache, router, admin, restarts>>

Route(r) ==
  /\ At(r, "route")
  /\ Move(r, ReaderIdle)
  /\ UNCHANGED <<table, cache, router, routerKey, admin, restarts>>

-----------------------------------------------------------------------------
(* PUT /admin/settings.                                                     *)

LoadRows(a, payload) ==
  /\ admin[a].pc = "idle"
  /\ admin' = [admin EXCEPT ![a] = [pc |-> "commit", seen |-> table, payload |-> payload]]
  /\ UNCHANGED <<table, cache, router, routerKey, reader, restarts>>

(* The unit of work inserts what it saw absent, updates and deletes what it *)
(* saw, and leaves alone what it saw unchanged.  An insert of a key that is *)
(* there by now, or an update of one that is gone, fails the request.       *)
CommitSave(a) ==
  LET seen == admin[a].seen
      payload == admin[a].payload
      changed == {key \in Keys : payload[key] # seen[key]}
      clashes == {key \in changed : payload[key] # None
                                    /\ (seen[key] = None) # (table[key] = None)}
  IN  /\ admin[a].pc = "commit"
      /\ \/ /\ clashes # {}
            /\ admin' = [admin EXCEPT ![a] = AdminIdle]
            /\ UNCHANGED table
         \/ /\ clashes = {}
            /\ table' = [key \in Keys |-> IF key \in changed THEN payload[key] ELSE table[key]]
            /\ admin' = [admin EXCEPT ![a].pc = "cache"]
      /\ UNCHANGED <<cache, router, routerKey, reader, restarts>>

SetCache(a) ==
  /\ admin[a].pc = "cache"
  /\ cache' = admin[a].payload
  /\ admin' = [admin EXCEPT ![a] = AdminIdle]
  /\ UNCHANGED <<table, router, routerKey, reader, restarts>>

-----------------------------------------------------------------------------

(* The process restarts: app.state is empty again.                          *)
Restart ==
  /\ restarts < MaxRestarts
  /\ restarts' = restarts + 1
  /\ cache' = None /\ router' = None /\ routerKey' = None
  /\ reader' = [r \in Readers |-> ReaderIdle]
  /\ admin' = [a \in Admins |-> AdminIdle]
  /\ UNCHANGED table

Next ==
  \/ \E r \in Readers :
       \/ ReadCache(r) \/ LoadOverrides(r) \/ FillCache(r)
       \/ LookUpRouter(r) \/ CompareKey(r) \/ BuildRouter(r) \/ SetRouterKey(r) \/ Route(r)
  \/ \E a \in Admins :
       \/ \E payload \in Overrides : LoadRows(a, payload)
       \/ CommitSave(a) \/ SetCache(a)
  \/ Restart

Spec == Init /\ [][Next]_vars

-----------------------------------------------------------------------------
(* Properties.                                                              *)

Saving == \E a \in Admins : admin[a].pc # "idle"
Filling == \E r \in Readers : reader[r].pc \in {"load", "fill"}

(* "applied without restart" (app/models/tables.py:742): while nobody is    *)
(* saving, requests go by the overrides in the table.                       *)
CacheFresh == ~Saving /\ ~Filling => cache \in {None, table}

(* "rebuilt when runtime overrides change" (app/api/dependencies.py:132): a *)
(* request routes with a router built from the overrides it read.  Router   *)
(* and key are two attributes: of two requests, one may be given the router *)
(* of the other's settings.                                                 *)
RoutedAsRead == \A r \in Readers : At(r, "route") => reader[r].found = Build(reader[r].seen)

=============================================================================
