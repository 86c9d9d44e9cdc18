-------------------------- MODULE MCBufferedReader --------------------------
(* All results of up to MaxRows rows over two columns and two classes,     *)
(* with NULLs and TEXT that is not UTF-8 at any place.                     *)
EXTENDS BufferedReader
MCStorageClasses == {"INTEGER", "TEXT"}
MCCells == MCStorageClasses \cup {Null, BadText}
MCTables == UNION { [1 .. n -> [Columns -> MCCells]] : n \in 0 .. MaxRows }
=============================================================================
