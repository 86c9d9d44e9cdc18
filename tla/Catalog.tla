------------------------------ MODULE Catalog ------------------------------
(***************************************************************************)
(* What SchemaGet and SchemaEdit promise several sessions on one database: *)
(* between its call and its return, each operation takes effect at once,   *)
(* and its result says what that effect was.  A result of "Error" says     *)
(* only what failed, not whether the operation took effect.                *)
(***************************************************************************)
CONSTANTS Session, Schema, NoObject

VARIABLES key,        (* a name to its key: names with one are one table's  *)
          listed,     (* a name to the name its table is listed by          *)
          objects,    (* a key to the object of that name, or NoObject      *)
          call        (* a session to its call                              *)

naming == <<key, listed>>
vars == <<naming, objects, call>>

Requests == [op : {"create"}, name : DOMAIN key, schema : Schema]
       \cup [op : {"drop", "get"}, name : DOMAIN key]
       \cup [op : {"list"}]

Idle == [phase |-> "idle"]
Called(request) == [phase |-> "called", request |-> request]
Done(request, result) == [phase |-> "done", request |-> request, result |-> result]
Failure == [status |-> "Error", value |-> {}]

Present(k) == objects[k] # NoObject
IsTable(k) == Present(k) /\ objects[k].kind = "table"

Init ==
  /\ DOMAIN listed = DOMAIN key
  /\ \A k \in DOMAIN objects :
       Present(k) => objects[k].kind \in {"table", "view"}
  /\ call = [s \in Session |-> Idle]

Call(s, request) ==
  /\ call[s] = Idle
  /\ call' = [call EXCEPT ![s] = Called(request)]
  /\ UNCHANGED objects

Result(s, op, status, value) ==
  /\ call[s].phase = "called"
  /\ call[s].request.op = op
  /\ call' = [call EXCEPT ![s] =
       Done(@.request, [status |-> status, value |-> value])]

Created(s) ==
  LET request == call[s].request
      k == key[request.name]
  IN /\ Result(s, "create", "Ok", {})
     /\ ~Present(k)
     /\ objects' = [objects EXCEPT ![k] =
          [kind |-> "table", name |-> listed[request.name], schema |-> request.schema]]

Exists(s) ==
  /\ Result(s, "create", "TableExists", {})
  /\ Present(key[call[s].request.name])
  /\ UNCHANGED objects

Dropped(s) ==
  LET k == key[call[s].request.name]
  IN /\ Result(s, "drop", "Ok", {})
     /\ IsTable(k)
     /\ objects' = [objects EXCEPT ![k] = NoObject]

Nonexistent(s) ==
  /\ Result(s, "drop", "TableNonexistent", {})
  /\ ~IsTable(key[call[s].request.name])
  /\ UNCHANGED objects

(* Every table is listed; views may be.                                    *)
Listed(s, names) ==
  /\ Result(s, "list", "Ok", names)
  /\ { objects[k].name : k \in { j \in DOMAIN objects : IsTable(j) } } \subseteq names
  /\ names \subseteq { objects[k].name : k \in { j \in DOMAIN objects : Present(j) } }
  /\ UNCHANGED objects

(* The schema of what has that name; of a name that nothing has, perhaps   *)
(* one without fields.                                                     *)
Got(s, schema) ==
  LET k == key[call[s].request.name]
  IN /\ Result(s, "get", "Ok", {schema})
     /\ schema = IF Present(k) THEN objects[k].schema ELSE <<>>
     /\ UNCHANGED objects

Failed(s) ==
  /\ call[s].phase = "called"
  /\ call' = [call EXCEPT ![s] = Done(@.request, Failure)]
  /\ UNCHANGED objects

(* The effect has happened, and its result is lost.                        *)
Lost(s) ==
  /\ call[s].phase = "done"
  /\ call' = [call EXCEPT ![s].result = Failure]
  /\ UNCHANGED objects

Return(s) ==
  /\ call[s].phase = "done"
  /\ call' = [call EXCEPT ![s] = Idle]
  /\ UNCHANGED objects

Next == UNCHANGED naming /\ \E s \in Session :
  \/ \E request \in Requests : Call(s, request)
  \/ Created(s) \/ Exists(s) \/ Dropped(s) \/ Nonexistent(s)
  \/ \E names \in SUBSET { listed[name] : name \in DOMAIN listed } : Listed(s, names)
  \/ \E schema \in Schema : Got(s, schema)
  \/ Failed(s) \/ Lost(s) \/ Return(s)

Spec == Init /\ [][Next]_vars
=============================================================================
