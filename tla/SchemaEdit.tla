----------------------------- MODULE SchemaEdit -----------------------------
(***************************************************************************)
(* The schema.rs of the five connectors: table_list, table_get,            *)
(* table_create and table_drop, called by several sessions on one          *)
(* database.  Each sends one statement and makes its result of the answer, *)
(* so that the statements of two sessions may come in any order, and the   *)
(* answer be stale when it is read.                                        *)
(*                                                                         *)
(* Views are there from the start: no connector makes one.  A session that *)
(* has lost its connection goes on with another.                           *)
(***************************************************************************)
EXTENDS Identifiers, Integers

CONSTANTS Flavours, (* subset of the connectors' names                      *)
          Session,
          NameSets, (* the sets of table names, of which one is in use      *)
          Schemas   (* sequences of field types; "List" is one that only    *)
                    (* SQLite can store                                     *)

ASSUME SchemaAssumption ==
  /\ Flavours \subseteq {"postgres", "mysql", "mssql", "sqlite", "duckdb"}
  /\ NameSets \subseteq SUBSET Seq(STRING)
  /\ Schemas \subseteq Seq({"Int64", "List"})

VARIABLES flavour,
          names,    (* the table names in use                               *)
          objects,  (* the catalog: a key to a table, a view or NoObject    *)
          call,     (* a session to the call it is in                       *)
          balance,  (* a key to the tables of that name the sessions know   *)
                    (* of: one if it was there, Ok creates less Ok drops    *)
          uncertain (* keys of DDL whose answer was lost                    *)

vars == <<flavour, names, objects, call, balance, uncertain>>
setting == <<flavour, names>>
ghosts == <<balance, uncertain>>

NoObject == [kind |-> "none"]

-----------------------------------------------------------------------------
(* Names in the database.  PostgreSQL keeps 63 bytes; SQL Server, SQLite   *)
(* and DuckDB find a table by its name in any case.                        *)
Stored(name) ==
  IF flavour = "postgres" /\ name # <<>> /\ Head(name) = "long" THEN <<"long">> ELSE name

Key(name) ==
  IF flavour \in {"mssql", "sqlite", "duckdb"}
  THEN [i \in DOMAIN name |-> FoldCase(name[i])]
  ELSE Stored(name)

(* The quote character of each connector.                                  *)
Quote == IF flavour = "mysql" THEN "backtick" ELSE "quote"

(* What the server takes for the name in the statement.                    *)
Received(name) ==
  ReadIdent(Escaped(name, Quote), Quote, flavour = "postgres", flavour = "sqlite")

Keys == { Key(name) : name \in names }
Object(kind, name, schema) == [kind |-> kind, name |-> name, schema |-> schema]
Present(k) == k \in DOMAIN objects /\ objects[k] # NoObject
IsTable(k) == Present(k) /\ objects[k].kind = "table"

-----------------------------------------------------------------------------
(* The error codes of the servers; SQLite's and DuckDB's are texts.        *)
Duplicate == [postgres |-> "42P07", mysql |-> "1050", mssql |-> "2714",
              sqlite |-> "already exists", duckdb |-> "Table exists!"]
Undefined == [postgres |-> "42P01", mysql |-> "1051", mssql |-> "3701",
              sqlite |-> "no such table", duckdb |-> "Table does not exist!"]
NotATable == [postgres |-> "42809", mysql |-> "1051", mssql |-> "3705",
              sqlite |-> "use DROP VIEW", duckdb |-> "is of type View"]

(* The errors that table_create and table_drop recognise.                  *)
TableExists == [postgres |-> "42P07", mysql |-> "1050", mssql |-> "2714",
                sqlite |-> "already exists", duckdb |-> "Table exists!"]
TableNonexistent == [postgres |-> "42P01", mysql |-> "1051", mssql |-> "3701",
                     sqlite |-> "no such table", duckdb |-> "Table does not exist!"]

Ok(value) == [status |-> "Ok", value |-> value]
Err(code) == [status |-> code, value |-> {}]

CreateResult_IfNotExists(answer) ==
  IF answer.status \in {"Ok", TableExists[flavour]} THEN Ok({}) ELSE Err("Error")

(* The arms of table_create's match.                                       *)
CreateResult(answer) ==
  CASE answer.status = "Ok" -> Ok({})
    [] answer.status = TableExists[flavour] -> Err("TableExists")
    [] OTHER -> Err("Error")

(* The arms of table_drop's match.                                         *)
DropResult(answer) ==
  CASE answer.status = "Ok" -> Ok({})
    [] answer.status = TableNonexistent[flavour] -> Err("TableNonexistent")
    [] OTHER -> Err("Error")

(* The `?' of table_list and table_get.                                    *)
ReadResult(answer) == IF answer.status = "Ok" THEN answer ELSE Err("Error")

ResultOf(request, answer) ==
  CASE request.op = "create" -> CreateResult(answer)
    [] request.op = "drop"   -> DropResult(answer)
    [] OTHER                 -> ReadResult(answer)

-----------------------------------------------------------------------------
Idle == [phase |-> "idle"]

Init ==
  /\ flavour \in Flavours
  /\ names \in NameSets
  /\ objects \in { o \in [Keys -> {NoObject} \cup
                            [kind : {"table", "view"},
                             name : { Stored(name) : name \in names },
                             schema : {<<"Int64">>}]] :
                     \A k \in Keys : o[k] # NoObject => Key(o[k].name) = k }
  /\ call = [s \in Session |-> Idle]
  /\ balance = [k \in Keys |-> IF IsTable(k) THEN 1 ELSE 0]
  /\ uncertain = {}

(* table_create: a field without a type in this database is                *)
(* unimplemented!(), before anything is sent.                              *)
Storable(schema) == "List" \in ToSet(schema) => flavour = "sqlite"

Requests == [op : {"create"}, name : names, schema : Schemas]
       \cup [op : {"drop", "get"}, name : names]
       \cup [op : {"list"}]

Send(s, request) ==
  /\ call[s] = Idle
  /\ request.op = "create" => Storable(request.schema)
  /\ call' = [call EXCEPT ![s] = [phase |-> "sent", request |-> request]]
  /\ UNCHANGED <<setting, objects, ghosts>>

-----------------------------------------------------------------------------
(* The server.                                                             *)
Sent(s, op) == call[s].phase = "sent" /\ call[s].request.op = op

Edits(s) == call[s].request.op \in {"create", "drop"}

Answer(s, answer) ==
  call' = [call EXCEPT ![s] =
             [phase |-> "answered", request |-> @.request, answer |-> answer]]

Named(s) == Received(call[s].request.name)
Free(s) == Named(s) # Refused /\ ~Present(Key(Named(s)))

MakeTable(s) ==
  /\ LET key == Key(Named(s))
         made == Object("table", Stored(Named(s)), call[s].request.schema)
     IN objects' = [k \in DOMAIN objects \cup {key} |-> IF k = key THEN made ELSE objects[k]]
  /\ Answer(s, Ok({}))

(* A statement without columns is one only for PostgreSQL.                 *)
WellFormed(s) == call[s].request.schema = <<>> => flavour = "postgres"

ServerCreates(s) ==
  /\ Sent(s, "create")
  /\ Free(s) /\ WellFormed(s)
  /\ flavour \notin {"postgres", "duckdb"}
  /\ MakeTable(s)
  /\ UNCHANGED <<setting, ghosts>>

(* PostgreSQL and DuckDB look for the name first and find out when they    *)
(* store the table that another session has taken it meanwhile: an error   *)
(* of the unique index of pg_class, or a write-write conflict.             *)
ServerBeginsCreate(s) ==
  /\ Sent(s, "create")
  /\ Free(s) /\ WellFormed(s)
  /\ flavour \in {"postgres", "duckdb"}
  /\ call' = [call EXCEPT ![s].phase = "creating"]
  /\ UNCHANGED <<setting, objects, ghosts>>

ServerEndsCreate(s) ==
  /\ call[s].phase = "creating"
  /\ IF Free(s) THEN MakeTable(s)
     ELSE Answer(s, Err("conflict")) /\ UNCHANGED objects
  /\ UNCHANGED <<setting, ghosts>>

ServerFindsDuplicate(s) ==
  /\ Sent(s, "create")
  /\ Named(s) # Refused /\ Present(Key(Named(s)))
  /\ Answer(s, Err(Duplicate[flavour]))
  /\ UNCHANGED <<setting, objects, ghosts>>

ServerDrops(s) ==
  /\ Sent(s, "drop")
  /\ Named(s) # Refused /\ IsTable(Key(Named(s)))
  /\ objects' = [objects EXCEPT ![Key(Named(s))] = NoObject]
  /\ Answer(s, Ok({}))
  /\ UNCHANGED <<setting, ghosts>>

ServerFindsNoTable(s) ==
  /\ Sent(s, "drop")
  /\ Named(s) # Refused /\ ~IsTable(Key(Named(s)))
  /\ Answer(s, Err(IF Present(Key(Named(s))) THEN NotATable[flavour] ELSE Undefined[flavour]))
  /\ UNCHANGED <<setting, objects, ghosts>>

(* table_list: base tables, and with SHOW TABLES the views too.            *)
Listed(k) == IF flavour \in {"mysql", "duckdb"} THEN Present(k) ELSE IsTable(k)

ServerLists(s) ==
  /\ Sent(s, "list")
  /\ Answer(s, Ok({ objects[k].name : k \in { j \in DOMAIN objects : Listed(j) } }))
  /\ UNCHANGED <<setting, objects, ghosts>>

(* table_get: PostgreSQL and SQL Server are given the name as a value, and *)
(* like SQLite's PRAGMA they return no columns for a name that nothing     *)
(* has; MySQL's DESCRIBE and DuckDB's SELECT are refused.                  *)
NameAsValue == flavour \in {"postgres", "mssql"}
Sought(s) == IF NameAsValue THEN call[s].request.name ELSE Named(s)
TooLong(name) == Stored(name) # name

ServerGets(s) ==
  /\ Sent(s, "get")
  /\ Sought(s) # Refused /\ ~TooLong(Sought(s))
  /\ LET k == Key(Sought(s))
     IN IF Present(k) THEN Answer(s, Ok({objects[k].schema}))
        ELSE Answer(s, IF flavour \in {"mysql", "duckdb"} THEN Err("unknown table")
                       ELSE Ok({<<>>}))
  /\ UNCHANGED <<setting, objects, ghosts>>

(* A syntax error, a lock held for too long, a deadlock, a type without an *)
(* Arrow type, or a connection lost before the statement has run.          *)
ServerRefuses(s) ==
  /\ call[s].phase \in {"sent", "creating"}
  /\ Answer(s, Err("refused"))
  /\ UNCHANGED <<setting, objects, ghosts>>

(* The connection is lost behind the statement.  SQLite and DuckDB have no *)
(* connection to lose.                                                     *)
AnswerIsLost(s) ==
  /\ call[s].phase = "answered"
  /\ flavour \in {"postgres", "mysql", "mssql"}
  /\ call[s].answer.status # "lost"
  /\ Answer(s, Err("lost"))
  /\ IF Edits(s)
     THEN /\ uncertain' = uncertain \cup {Key(call[s].request.name)}
          /\ balance' = [balance EXCEPT ![Key(call[s].request.name)] = 0]
     ELSE UNCHANGED ghosts
  /\ UNCHANGED <<setting, objects>>

-----------------------------------------------------------------------------
Result(s) == ResultOf(call[s].request, call[s].answer)

Return_KeepsAnswer(s) ==
  /\ call[s].phase = "answered"
  /\ call' = [call EXCEPT ![s].phase = "idle"]
  /\ UNCHANGED <<setting, objects, ghosts>>

Return(s) ==
  /\ call[s].phase = "answered"
  /\ call' = [call EXCEPT ![s] = Idle]
  /\ LET k == Key(call[s].request.name)
     IN IF Edits(s) /\ Result(s).status = "Ok" /\ k \notin uncertain
        THEN balance' = [balance EXCEPT ![k] =
                           IF call[s].request.op = "create" THEN @ + 1 ELSE @ - 1]
        ELSE UNCHANGED balance
  /\ UNCHANGED <<setting, objects, uncertain>>

Next == \E s \in Session :
  \/ \E request \in Requests : Send(s, request)
  \/ ServerCreates(s)
  \/ ServerBeginsCreate(s)
  \/ ServerEndsCreate(s)
  \/ ServerFindsDuplicate(s)
  \/ ServerDrops(s)
  \/ ServerFindsNoTable(s)
  \/ ServerLists(s)
  \/ ServerGets(s)
  \/ ServerRefuses(s)
  \/ AnswerIsLost(s)
  \/ Return(s)

Spec == Init /\ [][Next]_vars

-----------------------------------------------------------------------------
(* The schemas a table is made or reported with.                           *)
Reported == Schemas \cup {<<>>, <<"Int64">>}

Objects == {NoObject} \cup
           [kind : {"table", "view"}, name : { Stored(name) : name \in names },
            schema : Schemas \cup {<<"Int64">>}]
Answers == [status : {"Ok", "lost", "refused", "conflict", "unknown table",
                      Duplicate[flavour], Undefined[flavour], NotATable[flavour]},
            value : (SUBSET { Stored(name) : name \in names })
                    \cup { {schema} : schema \in Reported }]
Calls == {Idle}
         \cup [phase : {"sent", "creating"}, request : Requests]
         \cup [phase : {"answered"}, request : Requests, answer : Answers]

(* The type invariant: the catalog holds only names in use, a session is   *)
(* idle or in the phase of one request.                                    *)
TypeOK ==
  /\ flavour \in Flavours /\ names \in NameSets
  /\ objects \in [Keys -> Objects]
  /\ call \in [Session -> Calls]
  /\ balance \in [Keys -> Int]
  /\ uncertain \subseteq Keys

(* While no call is under way, the results that sessions got account for   *)
(* the tables: where no answer was lost, there is one of a name exactly if *)
(* it was there or Ok table_creates have outnumbered Ok table_drops, in    *)
(* whatever order the sessions' statements ran.                            *)
OkAccountsForTables ==
  (\A s \in Session : call[s] = Idle) =>
    \A k \in Keys \ uncertain : balance[k] = IF IsTable(k) THEN 1 ELSE 0

-----------------------------------------------------------------------------
(* The calls of the abstract catalog: what a session can see of a call.    *)
View(s) ==
  CASE call[s].phase = "idle"     -> Idle
    [] call[s].phase = "answered" -> [phase |-> "done", request |-> call[s].request,
                                      result |-> Result(s)]
    [] OTHER -> [phase |-> "called", request |-> call[s].request]

Sessions == INSTANCE Catalog WITH
  Schema <- Reported,
  key    <- [name \in names |-> Key(name)],
  listed <- [name \in names |-> Stored(name)],
  call   <- [s \in Session |-> View(s)]

(* Each call of the five connectors takes effect at once, on the table its *)
(* caller named, however the name is written in SQL; and its result tells  *)
(* that effect: TableExists means that the name was taken, and             *)
(* TableNonexistent that it was no table's, at some moment of the call,    *)
(* whatever other sessions did before the answer came and whichever        *)
(* answers were lost.                                                      *)
CallsAreAtomic == Sessions!Spec
=============================================================================
