# A TLA+ model of connector_arrow

connector_arrow loads the results of SQL queries into Apache Arrow record
batches and appends record batches to tables, through the native clients of
PostgreSQL, MySQL, Microsoft SQL Server, SQLite and DuckDB. This directory
models the parts of the crate that carry its own logic, checks them with TLC on
small instances, and proves the central invariants with TLAPS for every size.

Paths below are relative to `src/connector_arrow/src/`.

## The system

| part | state it keeps | operations | code |
| --- | --- | --- | --- |
| row writer | builders, reserved rows, capacity, column cursor, finished batches | `prepare_for_batch`, `consume`, `finish` | `util/row_writer.rs` |
| row collection | a loop over rows and cells | `next_batch_from_rows`, `collect_rows_to_arrow` | `util/row_collect.rs` |
| streaming readers | the driver's stream, the schema | `start_batch`, `next` | `postgres/query.rs`, `mysql/query.rs`, `tiberius/query.rs` |
| buffered reader | rows, inferred types, a queue of batches | `start_batch`, `next` | `rusqlite/query.rs`, `util/arrow_reader.rs` |
| chunked appenders | a transaction on the connection | `new`, `append`, `finish`, drop | `rusqlite/append.rs`, `mysql/append.rs` |
| streaming appenders | COPY, bulk load, or DuckDB's appender | `new`, `append`, `finish`, drop | `postgres/append.rs`, `tiberius/append.rs`, `duckdb/append.rs` |
| type maps | none | `type_arrow_into_db`, `type_db_into_arrow`, `transport` | `*/mod.rs`, `*/types.rs`, `util/transport.rs` |
| schema | the database's catalog | `table_list`, `table_get`, `table_create`, `table_drop` | `*/schema.rs` |
| decimals | none | `from_sql`, `i128_to_sql`, `i256_to_sql`, `decimal*_to_string` | `postgres/decimal.rs`, `util/decimal.rs` |
| query parameters | the client's statement | `start`, `start_batch` | `params.rs`, `api.rs`, `util/row_reader.rs`, `*/query.rs` |
| identifiers | none | `EscapedIdent` | `util/escape.rs` |
| coercion | none | casts of arrays | `util/coerce.rs` |

A query runs `Connector::query`, `Statement::start_batch` and then the iterator
of the `ResultReader`. The three streaming readers build every batch in a row
writer of its own, driven by `next_batch_from_rows`; SQLite buffers the result
and converts it in one go with `collect_rows_to_arrow`; DuckDB returns batches
of its own. The cells go through `transport`, which pairs the database's cell
(`Produce`) with the writer (`Consume`). Appending is the same in the other
direction: `transport` reads cells of a batch and gives them to the client.

An object of the crate is used by one thread and all its calls block; the
databases serve several sessions. What is hard in it:

- **Agreement of components that share no type.** The row writer knows which
  column a cell belongs to only by the order of calls, and its capacity only by
  what callers announce. Each connector maps types in five tables, written by
  hand in different files, that have to agree.
- **Failure in the middle.** Rows, cells, statements and connections fail
  between two steps of a loop; iterators and appenders can be called again.
- **External state that outlives an object.** A MySQL transaction stays open
  when its appender is gone, a bulk load of SQL Server stays half sent, a
  statement is started again after it has failed.
- **Answers that come late or never.** A server judges a row of a COPY after
  `append` has returned Ok; DuckDB stores its last rows in a destructor; the
  connection is lost behind a `CREATE TABLE` that has run.
- **Other sessions.** The schema is edited between a statement and its answer,
  and the connectors tell the outcomes apart by error codes and texts.
- **Boundaries.** Full and empty batches, chunks, groups of digits; results
  without rows, columns without values; decimals of extreme scale.

What makes each part correct:

- row writer: no cell is lost, repeated or put under another column; no
  `unwrap` or slice panics; batches are cut between calls only;
- readers: rows arrive in order, once, in full batches; an end means all of
  them arrived; an Err loses a bounded number; the iterator ends, unless its connection
  is lost and the caller ignores it;
- buffered reader: a result whose columns have one storage class each and whose
  texts are UTF-8 never panics, no other gets out;
- appenders: `finish` returning Ok means everything accepted is in the table; where the
  database can do that, nothing is there of an appender that was dropped or panicked, or
  whose `finish` returned Err;
- schema: each call takes effect at once, on the table it names however the name
  is spelled in SQL, and its result says which effect;
- query parameters: each placeholder gets the value at its position, of this
  start and of the chosen row;
- type maps: what is announced works, what is read is what was written;
- decimals: the digits survive the format.

## The modules

```
RowDelivery   <--implemented by-- StreamingReader, BufferedReader --> ArrowRowWriter <-- RowWriterCalls
AppendSession <--implemented by-- ChunkedAppender, StreamAppender
Catalog       <--implemented by-- SchemaEdit --> Identifiers
TypeMaps <-- TypeRoundtrip, QueryArguments           NumericCodec
RowRuns  <-- ChunkedAppender, StreamAppender

ArrowRowWriterProofs <-- StreamingReaderProofs, BufferedReaderProofs, RowWriterCallsProofs
ChunkedAppenderProofs, StreamAppenderProofs, SchemaEditProofs
ConversionProofs --> QueryArguments, TypeRoundtrip, NumericCodec
```

`MC*` modules give the constants their values and nothing else. A module
`XProofs` extends `X` and holds its theorems; `ArrowRowWriterProofs` has the lemmas
about the writer's operators that three of them use, and `ConversionProofs` the theorems about
the modules that convert values.

**ArrowRowWriter** is the writer as a record and each method as an operator
from writer to writer, with a `result` of Ok, Err or Panic: `PrepareForBatch`
with `FitsCapacity` and `Allocate`, `Consume` with `NextColIndex`, `Flush` and
`Finish`. A builder is a sequence of cells; a cell knows its row, its column and
whether it is null. `RecordBatch::try_new` is external and refuses nulls in
non-nullable columns and columns of different lengths.

**RowWriterCalls** drives one writer with every legal sequence of calls: chunks
of any size, then their cells, then `finish`. `row` and `col` are the caller's
own position, which the writer never sees: it only has its cursor. The readers use
three such patterns; the module covers what `ArrowRowWriter` offers to any of them.

**RowDelivery** says what a reader promises: batches of consecutive rows, rows
skipped by a failing call only, an end only after the last row.

**StreamingReader** is `start_batch` and the loop of `next_batch_from_rows` over
the three drivers. The server's answer is a *wire*, a sequence of rows, rows
with a cell that is out of range (Err) or does not convert (panic), metadata of a
further result set, a failure behind which there are no rows, and, for PostgreSQL, a
lost connection, which is an Err at every further call (`ConnectionLost`): `Fuse` remembers
the end of the rows and no error. `LegalWire` says what a connector's driver can deliver. One action per step: the call (`NextCall`), a
row (`FetchRow`, `FetchErr`), a cell (`TransportCell`, `CellErr`, `CellPanics`),
the end of the call (`FinishBatch`). After an Err the caller stops, as `query`
in `lib.rs` does, or calls `next` again.

**BufferedReader** is the SQLite statement: read rows, infer types row by row
until all are known, convert, serve batches. A cell is its storage class, or a text
that is not UTF-8, which SQLite stores and a Rust `String` cannot hold: reading its row
panics (`ReadPanics`).

**RowRuns** has the rows of a batch as a run of consecutive numbers, with what both
appenders say of such runs. **AppendSession** is an all-or-nothing append: its `outcome` is
what the last `finish` returned, or that there was none, and the accepted rows get into
the table with an Ok and never otherwise, but that `finish` may return Err for rows that
are stored, where the server's answer can be lost (`Uncertain`). **ChunkedAppender** is the SQLite
and the MySQL appender over an external database with one connection:
committed rows and the open transaction. Statements fail (`InsertErr`; MySQL
rolls back the statement or, in a deadlock, the transaction), cells that do not convert
panic (`InsertPanics`), COMMIT fails
before or after it was executed (`FinishErr`), appenders are dropped,
connections close, and a later statement of the connection commits implicitly
(`SchemaStatement`, `Open`). `goesOn` is the caller that uses an appender again
after it has returned Err; nothing in the API forbids that.

**StreamAppender** is the other three appenders. `writer` is PostgreSQL's
`Writer` with its variant and the number of columns it was made for; `buffer`
is the driver's buffer, which goes to the server after any row (`WriteRow`);
`load` is the server's COPY or bulk load, open, aborted behind the client's back
(`ServerAborts`) or dangling, when SQL Server's was dropped half sent. DuckDB's
appender stores its rows at every `FlushRows` and when it is dropped, by
`finish` as well as without it, and the destructor ignores the error
(`FinishDuckDB`, `DropDuckDB`).

**Catalog** is what the schema traits promise to several sessions: an operation
takes effect at once, between its call and its return, and its result tells
which effect; a result `Error` says nothing of the effect. **SchemaEdit** is the
five `schema.rs`: one statement per call (`Send`), the server's answers
(`Server...`; PostgreSQL and DuckDB create in two steps, between which another
session may take the name), answers lost with the connection, and the result
each connector makes of an answer (`CreateResult`, `DropResult`, `ReadResult`).
`balance` and `uncertain` count what the sessions know from their results.
**Identifiers** is `EscapedIdent` and the lexer that reads it back; the loops of both are
recursive functions from positions of the text (`Written`, `Read`). Its alphabet
has what the names could be confused by: letters in both cases, a digit, `$`,
both quote characters, `select` for a reserved word and `long` for the 63
bytes PostgreSQL keeps of a name.

**TypeMaps** holds the connectors' match arms and impl lists as tables;
**TypeRoundtrip** is the life of one column through them: `CreateTable`, cells
appended, accepted, refused or panicking, `Query`, cells read, `TableGet`. A
cell is null, *small* (held by every type), *extreme* (held by types as wide as
the field's), or *altered* (another value than the one sent). A column has two names: that of the
catalog, which `table_get` has (`CatalogName`), and that the driver gives to a column of a
result (`MySQLResultName`, `MssqlResultName`); MySQL's flags a text with a binary collation
like a blob (`MySQLBinText`), and the columns that `table_create` makes have the default
collation, which is not binary. `Misnamed` columns are those whose two names stand for
different types; the crate makes none. The servers'
limits are external: the formats of binary COPY and bulk load, the widths of
columns, the range of scales (38 is MariaDB's limit, MySQL's own is 30; PostgreSQL
accepts a column with a negative scale from version 15 on).

**QueryArguments** is `Statement::start` and `start_batch`: values become a batch
of one row (`VecToRecordBatch`, or `VecPanics`), a row of a batch becomes the
client's values cell by cell (`TransportCell`), and the server takes them for
its placeholders (`Execute`). A datum is the start, row and column it comes
from, so that one of an earlier start or another row would be seen. The types,
`Wire` and `Transported` are those of **TypeMaps**; `Native` and `ValueNative` are the
two hand-written tables of how a type is represented, in `types.rs` and `params.rs`.

**NumericCodec** is the decimal's way through PostgreSQL: `i128_to_sql` and
`i256_to_sql` cut it into base-10000 groups (`FirstGroup`, `CutGroup`, `Send`),
the server refuses or normalises it, `from_sql` makes digits of it (`ReadGroup`,
`Compose`, or the panic `DotOutOfRange`).

## The runs

| run | question | instance |
| --- | --- | --- |
| `row_writer` | Does any legal order of calls lose, repeat, misplace a cell or panic? | two columns, one non-nullable; chunks of 0 to 3 rows, 6 rows, `min_batch_size` 0 to 3 |
| `streaming` | Are batches whole and in order, does the end mean the end, what does an Err cost, does it terminate, does it implement `RowDelivery`? | all legal wires of up to 6 items, two columns, batches of 2 rows, three connectors |
| `buffered` | Does inference agree with conversion, and does the reader implement `RowDelivery`? | all results of up to 3 rows, two columns, two storage classes, NULL and a text that is not UTF-8 |
| `chunked_appender` | Do the chunks cover the batch, does Ok mean committed and anything else nothing with SQLite? | chunks of 2 rows, batches of 0 to 4, 8 rows; callers that stop at an Err and that go on |
| `stream_appender` | Does Ok of `finish` mean stored, do PostgreSQL and SQL Server implement `AppendSession`, what can DuckDB lose? | a table of two columns, batches of 0 to 3 rows and several widths, 5 rows, DuckDB flushes at 3 |
| `schema_edit` | Is each call atomic, does its result tell its effect, do names reach the table they name? | two sessions, four pairs of names, three schemas, five connectors |
| `query_arguments` | Does each placeholder get its datum of this start, what panics? | a statement started twice, with values of every type, mistyped ones, and rows of batches with nulls, columns of type Null and a row too few; five connectors; a placeholder of every type |
| `types` | Do the tables of each connector agree, is nothing altered on the way, and what panics? | every Arrow type, decimals on both sides of each limit, nullable or not, batches of every other type they may have; foreign tables with every type that has a mapping and some that have none; 2 rows |
| `numeric` | Do the digits survive, and which numbers panic? | numbers of up to three groups with zeros at every place, scales -4 to 9 |
| `numeric_tiny` | violated: every number can be read | as `numeric` |
| `duckdb_finish` | violated: once `finish` has returned Ok, every row is in the table | as `stream_appender`, DuckDB |
| `query_arguments_read` | violated: arguments are those of the row | as `query_arguments`, PostgreSQL |

### Why the bounds are enough

The writer, the readers and the appenders count rows and compare the count with
one limit. Batches of two rows and six items have results that are empty, end
within a batch, at its boundary and after it, and an error at each of these
places, twice in a row as well; two columns tell a wrong cursor from a right
one. Chunks of 2 rows with batches of 0 to 4 rows have no chunk, none but the
rest, no rest, and both; 8 rows leave room for a second appender behind a failed
one. Five rows with a flush at 3 have a flush inside a batch, at its end, between two
batches and none; an empty batch or none comes before and after a full one. Two
sessions are enough for a statement to overtake another: each call is one
statement, and a race is between two of them on one name. The pairs of names are
equal but for their case, empty and reserved, full of quotes, and equal in 63
bytes: each is the case that one rule of some server is about, and none has to do
with another pair. A second start tells a stale argument from a fresh one, and
placeholders of two types a shifted one. Three rows have a column whose first value comes last.
The bounds on rows (`MaxRows`), on chunks (`MaxPrepare`), on wires
(`MaxWire`) and on starts (`MaxStarts`) cut behaviours short and never change a step. `types` has every row
of every table, so there is no larger instance but for decimals; `Scaled` has
those on both sides of the limits, 37, 38 and 65 digits, and a negative scale.
`numeric` has every remainder of the scale by four and leading, trailing and
inner zero groups.

Deadlock is not checked where the system stops: readers that are closed, writers
that are finished, decimals that are read, a column that refused a cell, and a
statement that has panicked or been started `MaxStarts` times. Appenders and
sessions go on for ever (an appender can always be opened and closed again), and
for these deadlock is checked.

### Fairness

`StreamingReader!FairSpec` has weak fairness of `Next`: one thread runs the caller and the
reader, and each call of a driver returns once the server has answered or the connection
is lost, which is an item of the wire. A caller that wants the end calls again. Nothing
else is assumed; no other module states liveness. `Termination` has one exception, which
is the code's: a caller that goes on after the Err of a lost PostgreSQL connection gets
another, and calls for ever (`util/row_collect.rs:14`).

## What the runs show beyond "no error"

The violated properties are disagreements with the crate's own documentation and
tests:

- `numeric_tiny`: a non-zero `numeric` below 0.0001 has a weight of -2 or less,
  `(weight_first * 4 + 5) as usize` is negative, and `from_sql` panics
  (`postgres/decimal.rs:70`). `OnlyTinyPanics` shows that these are all.
- `duckdb_finish`: `finish` is `Ok(())` (`duckdb/append.rs:42`), and the rows
  since the last flush are stored by the destructor, or not. `LossIsLastFlush`
  bounds what is lost. The round-trip test takes Ok to mean that all rows are there.
- `query_arguments_read`: PostgreSQL reads the bytes of an argument in the format
  of the placeholder, and `accepts` is always true (`postgres/append.rs:126`). An
  Int32 for a `float4` is another number; dates and timestamps are sent as counts
  since 1970 and read as counts since 2000.

Named in the model, and excepted where a property would not hold. Of the types:

- SQL Server's driver names the char and varchar columns of a result `bigchar` and
  `bigvarchar` (`tiberius/types.rs:77-78`), for which `type_db_into_arrow` has no arm
  (`tiberius/mod.rs:84`): the field is Binary, and its first cell panics, where `table_get`
  says Utf8 and a test of the crate reads a text of `char(6)` and `varchar(6)`
  (`tests/it/test_tiberius.rs:334,336`). Another disagreement of the code with its tests, which
  `types` accounts for: the exception `Misnamed` of `ReadTypeIsAnnounced`,
  `IntrospectionAgrees` and `OnlyUnmappedPanics`;
- `insert_dot` drops the zeros of a negative scale (`util/decimal.rs:30`): 1200
  as 12 at scale -2 comes back from SQLite as 12 (an exception of `ReadIsLossless`);
- DuckDB's `table_create` uses a second table that lacks dates, times and
  intervals (`duckdb/schema.rs:105`). `AnnouncedOnly` names these and the others
  of the kind: MySQL decimals with a scale below 0 or above 38, PostgreSQL
  decimals with a negative scale, SQLite's NOT NULL column for nulls;
- for a type without a mapping MySQL's `create_field` is `todo!()`
  (`mysql/types.rs:33`), and SQL Server's returns Binary, which its cells cannot
  produce, without the metadata it has prepared (`tiberius/types.rs:37`).
  `OnlyUnmappedPanics` shows that no other column of a foreign table panics but for SQL
  Server's char and varchar;
- a batch appended to PostgreSQL whose cells have the length, not the format, of
  the column (Float32 into `integer`) is stored as other values
  (`postgres/append.rs:51`): the exception `Misread` of `ReadIsLossless`. A numeric 0 has
  eight bytes, and eight bytes may happen to be a numeric (`MayFit`);
- MySQL's `enum` and `set`, which type_db_into_arrow has no arm for, are `char` in a
  result, so that a query reads them and `table_get` panics; its texts with a binary
  collation are blobs in a result and texts for `table_get` (`mysql/types.rs:85`). These,
  and SQL Server's char and varchar, are the `Misnamed` columns, the exceptions of
  `ReadTypeIsAnnounced` and `IntrospectionAgrees`;
- DuckDB announces Date64 for DATE and returns Date32 (`duckdb/mod.rs:77`); the
  foreign tables of `types` leave DATE out;
- the README of the crate names Decimal128(20, 0) for UInt64, and PostgreSQL, SQL
  Server and SQLite give Utf8, which `TypeMaps` has.

Of the readers and appenders:

- SQLite's reader panics at a text that is not UTF-8 (`rusqlite/query.rs:50`), and at a
  value whose storage class was not inferred (`rusqlite/query.rs:156`), where the crate's
  README (lines 114-116) says that the result is rejected and the user told.
  `WholeResultInOneBatch` shows that no part of such a result gets out,
  `SoundNeverPanics` that no other result panics;
- a caller of PostgreSQL's reader that goes on after the Err of a lost connection never
  gets to the end of the iterator (`postgres/query.rs:87`);
- `prepare_for_batch` leaves the writer without builders and with capacity when
  its flush fails (`util/row_writer.rs:78`); no reader goes on with that writer;
- MySQL's appender does not remember that the server rolled its transaction back
  (`mysql/append.rs:55`): a caller that goes on after the Err gets Ok from
  `finish` though accepted rows are gone. `FinishMeansCommitted` holds for MySQL
  only where the caller stops;
- a bulk load of SQL Server that is dropped leaves the connection in the middle
  of it, and the next request fails (`NextRequestFails`);
- DuckDB's appender takes the raw table name, where every statement escapes it.

Of the schema and the queries:

- `table_get` of a table that is not there is Ok with an empty schema for
  PostgreSQL, SQL Server and SQLite, and an Err for MySQL and DuckDB;
- MySQL's and DuckDB's `table_list` has views in it; MySQL's `table_drop` of a
  view is `TableNonexistent`;
- a lost answer is an Err, and the table may be there or gone; `Catalog` says no
  more of an Err;
- a name of lower-case letters is not quoted, so a reserved word is a syntax
  error; PostgreSQL's `table_get` refuses a name longer than 63 bytes, whose
  table `table_create` has made under the first 63;
- two sessions that create one table: PostgreSQL and DuckDB may answer the loser
  with an error that is not `TableExists` (`ServerEndsCreate`);
- the helper of the tests that drops and creates again panics with "table was just
  deleted, how can it exist now?" (`tests/it/util.rs:42`) if another session is
  faster;
- SQL Server ignores arguments the query does not mention, and MySQL's statement
  ignores all of them (`mysql/query.rs:25`; the README does not tick them).

## What is proved

Every invariant and action property that a passing run checks is a theorem.
Every theorem holds for all values of the constants that satisfy the named
assumptions of the modules: any number of columns, any batch, chunk and flush size, any
set of wires, tables, widths and batches, any number of sessions and any table names,
and whatever the bounds on rows and starts are.

| module | theorems | property |
| --- | --- | --- |
| `RowWriterCallsProofs` | `TypeCorrect`, `CallsDoNotPanic`, `CellsStayInPlace` | `TypeOK`, `NoPanic`, `CellsInPlace` |
| `StreamingReaderProofs` | `TypeCorrect`, `PanicsOnlyAtCells`, `BatchesAreAligned`, `ShortBatchesAreLast`, `EndIsComplete`, `LossIsBounded`, `ImplementsDelivery` | `TypeOK`, `OnlyCellsPanic`, `BatchesAligned`, `ShortBatchIsLast`, `EndMeansComplete`, `LossBounded`, `DeliversRows` |
| `BufferedReaderProofs` | `TypeCorrect`, `SoundIsSafe`, `WholeResultIsServed`, `ImplementsDelivery` | `TypeOK`, `SoundNeverPanics`, `WholeResultInOneBatch`, `DeliversRows` |
| `ChunkedAppenderProofs` | `TypeCorrect`, `ChunksAreExact`, `FinishCommitsAccepted`, `TableIsStable`, `ImplementsSession` | `TypeOK`, `ChunksCoverBatch`, `FinishMeansCommitted`, `StableWhileAppending`, `AllOrNothing` |
| `StreamAppenderProofs` | `TypeCorrect`, `FinishStoresAccepted`, `LossIsBounded`, `ImplementsSession` | `TypeOK`, `FinishMeansStored`, `LossIsLastFlush`, `AllOrNothing` |
| `ConversionProofs` (`QueryArguments`) | `TypeCorrect`, `ArgumentsDoArrive`, `OnlyMistypedValuesPanic` | `TypeOK`, `ArgumentsArrive`, `OnlyMistypedPanic` |
| `ConversionProofs` (`TypeRoundtrip`) | `RoundtripTypeCorrect`, `WhatIsAnnouncedWorks`, `ReadTypesAreAnnounced`, `ReadingIsLossless`, `IntrospectionsAgree`, `UnmappedTypesPanic` | `RoundtripTypeOK`, `SupportedRoundtrips`, `ReadTypeIsAnnounced`, `ReadIsLossless`, `IntrospectionAgrees`, `OnlyUnmappedPanics` |
| `ConversionProofs` (`NumericCodec`) | `NumericTypeCorrect`, `EveryDigitIsSent`, `EncodingIsExact`, `DecodingIsExact`, `OnlyTinyValuesPanic` | `NumericTypeOK`, `EncodedIsExact`, `DecodedIsExact`, `OnlyTinyPanics` |
| `SchemaEditProofs` | `IdentifiersAreReadBack`, `TypeCorrect`, `ResultsAccountForTables`, `ImplementsCatalog` | `TypeOK`, `OkAccountsForTables`, `CallsAreAtomic` |

Each module also has `Invariance`, `Spec => []IInv`, from which the others follow
(`DeliveryInvariance` in `StreamingReaderProofs`, for what the calls returned, and
`RoundtripInvariance` and `NumericInvariance`, for `RoundtripInv` and `CodecInv`, in
`ConversionProofs`). The
assumptions are those of the modules, and but for `RoundtripAssumption` they only say what
kind of thing a constant is:
`ColumnsAssumption` (columns are numbered from 0), `CallsAssumption`,
`ReaderAssumption` and `MaxRowsAssumption` (sizes are numbers, a batch has room for a row,
wires are sequences of items, no table is longer than `MaxRows`), `BufferedAssumption` (NULL is
no storage class), `ChunkedAssumption` and `StreamAssumption` (chunks and flushes are not
empty, a table that is appended to has a column),
`ArgumentsAssumption` (placeholders and values are sequences), `NumericAssumption` (the
integers sent are numbers, the scales integers), `SchemaAssumption` (the
flavours are the five, names and schemas are sequences).

`RoundtripAssumption` says which tables there are, and it is where the model ends:

- The types are those of the crate, with any precision and any scale that is not larger
  (`CrateType`), and of PostgreSQL's decimals those with a scale up to 4, because the
  smaller fractions are what `NumericCodec` is about.
- Batches have the type of the table's field, or they are numbers for PostgreSQL and SQL
  Server and integers for MySQL (`MayDiffer`), dates and times included. Elsewhere the server converts what it is
  given: MySQL and DuckDB round a float to an integer, SQLite goes by the affinity of
  the column. What they make of such a value is theirs to say, and `Stored` has no
  conversions.
- Tables of others have column types the server reports (`LegalForeign`), which are the
  storage classes for SQLite, and for DuckDB those of its table of types but DATE. They
  are any types of the other three, but for the names of NULL itself and SQL Server's `intn`,
  which is a name of its results only.

None of the properties is inductive; they say what went out, and nothing of what is
under way. What each `IInv` adds:

- **The writer** (`ArrowRowWriterProofs`: lemmas from one writer to the next, without
  any of its callers). `PrepareFits` and `PrepareMore`: a `prepare_for_batch` that fits reserves
  and changes nothing else. `PrepareAllocates`, `PrepareCuts`: one that does not fit cuts all
  builders at once and allocates. `ConsumeOk`: a cell finds the builder at the cursor.
  `FlushComplete`, `FinishComplete`, `FinishNothing`, `FinishNoColumns`: builders of equal length with
  no refused null become one batch, none, or an Err where there are no columns.
- **`RowWriterCalls`**: `OpenInv` ties the writer, which has a cursor and counts rows,
  to the caller's `row` and `col`: the rows cut and the rows reserved are those
  prepared, and each builder ends at the caller's row, or one behind it. `DataOK` says
  of the batches cut that they start where the ones before end and were cut at a
  member of `starts`.
- **`StreamingReader`**: `WriterInv` says that within a call the builder of column `c`
  holds the cells of the last `taken` items of the wire, one fewer for a column whose cell is
  still to come, that nothing was cut and that there is room for a whole batch;
  `CursorInv`, that the writer's cursor is where the loop is. So reserving a row never
  flushes, and `exactly_one().unwrap()` has exactly one. `DInv` is about the log of
  results. Its measure is `Base`, the items that belong to calls that have returned: `CompleteInv`
  (while all results are batches they cover every row up to `Base`), `LossInv` (each Err
  since the last batch moved `Base` by at most a batch), `ShortInv` (a short batch leaves
  nothing to read) and `ConvertedInv`, `EndInv`, `ProgressInv`. A step either works inside
  a call or returns from it in one of three ways (`Works`, `Fails`, `Delivers`, `Ends`,
  `StepKinds`), and these are the actions of `RowDelivery`.
- **`BufferedReader`**: `RowsInv` (what is buffered is a prefix of the table),
  `TypesInv` (a type inferred is that of some value of the column, and a missing one means that the rows
  looked at are null), `WriterInv` and `CursorInv` as above with convertible cells only, and
  `OutInv`, the four things that can have been served. A value that does not fit its
  column's type is next to one that did, so the result was mixed (`UnfitIsMixed`).
- **`ChunkedAppender`**: `Done` is the number of rows the chunks so far stand for, and
  `OwnRowsInv` says that the transaction holds exactly the rows accepted and `Done` more of the
  batch at hand. `ChunkStep` and `ChunkArithmetic` show that the next statement starts at the row
  behind and that the last ends at the batch's end, with a rest or without. `KeptRowsInv` is
  what remains of it for a caller that goes on after an Err, `OrderInv` that no row is
  there before its turn, and `TxInv` that rows wait in open transactions only.
- **`StreamAppender`**: `SentInv` says that the rows received and the rows buffered, one after the
  other, are the rows written, wherever the driver flushed. `FlushInv` is DuckDB's: rows
  written are in the table but for fewer than `FlushRows`, the last ones.
- **`QueryArguments`**: `BindingInv` says that the values bound are the first cells of the
  chosen row of this start. That no other panic is possible rests on facts about the two
  hand-written tables, which have lemmas: `TablesAgree`, `OneRepresentation` (no type is
  under two representations) and `RepresentedAreTransported`.
- **`TypeRoundtrip`**: the properties compare the two ends of a column's life, and the
  invariant says what is in between. `OwnInv`: the column is the one table_create makes
  of the field, and where there is none, nothing happens any more. `HeldInv`: each cell held is
  what the server makes (`Stored`) of one that transport() had an arm for (`Encodes`) and that the
  server took (`TakenByServer`). `ResultInv`: a result and a description are those of the
  column and of the rows the table had then, so a type SQLite infers stays
  right. `ReadBackInv`: the cells read are the first ones held, converted. `ForeignInv` is the other tables.
  The rest are facts about the tables of types. That each maps a name once (`ConsumedOnce`,
  `NamedOnce`, `LookupIs`) is what makes the order of the crate's match arms
  immaterial. Then, for each connector: which columns table_create makes (`PgColumns`, ...), that cells
  are sent in their format (`PgSent`), that they hold the cells (`PgHolds`), and what they
  are read as (`PgArrow`), all in `OwnColumns`. `ColumnsWiden` says that the type a column is
  read as holds what the column does, `MySQLNames` and `MssqlNames` that a driver's
  name for a result column stands for the same type as the catalog's unless the column is
  Misnamed, `CatalogNames` the same of the catalog's own name, and `ResultIs`,
  `DescribedIs` put this together; `MappedResult`, that a type with a mapping can be read. `LosslessCell` is then a chain of three: the server took an extreme cell,
  so the column holds the batch's type, so the result's type does.
- **`NumericCodec`**: `EncodedIsExact` compares two numbers place by place, and so does the
  invariant: `DecimalDigit(k)` and `NumericDigit(k)` are the digits that count 10^k, for every
  integer k. `CutInv` says it of the groups cut so far, with the digits they have not reached
  yet still in `rest`, and that the last group ends where the integer does; it needs
  `SentFrom`, the place of the last digit sent, which is between -3 and 0. `SentInv` adds that no
  digit is above the first group, `StoredInv` that the server's normal form, which drops zero groups
  on both sides, has the same digits, and that the point is left of them for numbers below
  0.0001 only. `ReadInv` is the decoder between two groups: the buffer is the digits from
  the point down, and the digit carried is the next. A group is four digits of `Shorn`, the integer without its last
  digits (`LowGroup`, `ShornFour`), and one step of the encoder or decoder moves by four places.
- **`SchemaEdit`**: `OkAccountsForTables` speaks of the moments when every call has
  returned. `BalanceInv` says it of every moment: for a name without a lost answer, the
  balance of the results, plus the sessions with the Ok of a create under way
  (`Effected`), less those with the Ok of a drop, is the number of its tables. `StepInv`
  is the arithmetic of one step, which changes one session's call and one table at most;
  `EffectInv` is that an Ok is answered in the step that makes or drops the table, and
  `OkIsOk` that the connectors return Ok for that answer only.
- **`Identifiers`**: `IdentifiersAreReadBack` says, for every name of any length over any
  alphabet, that a server reads the text of `EscapedIdent` as that name, and refuses only
  the reserved word and (but for SQLite) the empty name. It is an induction over the
  positions of the text, by the least position at which it fails (`LeastNumber`):
  `BareIsRead` for a name that goes bare, which needs that `VALID_IDENT` has nothing a
  server folds, and `QuotedIsRead` for the others, where the lexer is between the same
  quotes again behind each character written. Every proof about a server that takes a
  name rests on it (`NamedIsRequested`): without it a session's statement may reach
  another's table.

The refinements are proved step by step. `StepsOfDelivery`, `StepsOfSession` and
`StepsOfCatalog` map each action to an action of the abstract module or to a stutter; `ImplementsSession` is for SQLite with a
caller that stops at an Err, and for PostgreSQL and SQL Server, as `AllOrNothing` says.
`TableIsStable` is an action property from the same invariant.

## What is model-checked only

- Liveness: `Termination` of `StreamingReader`, which is out of the prover's reach.
- The properties of the three runs that expect a violation, which are false.

Nothing else a run checks is without a theorem. What the theorems do not say is what the
models do not have; see the next section, and `RoundtripAssumption` above.

## What is not modelled

- `coerce.rs`: casts by arrow's own kernel, a pure function of arrays.
- DuckDB's reader, which forwards an iterator; its types are in `TypeRoundtrip`.
- The values themselves: text, bytes, floats, timestamps. `Cells` distinguishes
  what a type can hold and nothing else; in particular not NaN, which SQLite
  stores as NULL, and not the infinities of PostgreSQL's dates and timestamps
  (`postgres/query.rs:229`).
- The special values of `numeric`, which are constants of `from_sql`, and the overflow of
  `weight_first * 4` for numbers of more than 32767 digits.
- Locks and isolation of the servers: a statement is one step of the server, or
  two where a race shows; a wait that is too long is `ServerRefuses`.
- Error types and constructors of connections, which have no behaviour.

## Plan

1. Done: `ArrowRowWriter`, `RowWriterCalls`, `StreamingReader`, `RowDelivery`,
   `BufferedReader`; the invariants of `StreamingReader` proved.
2. Done: `ChunkedAppender`, `StreamAppender`, `AppendSession`; `TypeMaps`,
   `TypeRoundtrip`, `QueryArguments`; `NumericCodec`; `SchemaEdit`, `Catalog`,
   `Identifiers`.
3. Done: the invariants and refinements of `RowWriterCalls`, `StreamingReader`,
   `BufferedReader`, `ChunkedAppender`, `StreamAppender`, `QueryArguments`,
   `TypeRoundtrip`, `NumericCodec` and `SchemaEdit` proved.
