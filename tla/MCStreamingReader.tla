------------------------- MODULE MCStreamingReader -------------------------
(* All legal wires of up to MaxWire items, batches of two rows.            *)
EXTENDS StreamingReader
CONSTANT MaxWire
MCBackends == {"postgres", "mysql", "mssql"}
MCWires == UNION { [1 .. n -> ItemKinds] : n \in 0 .. MaxWire }
=============================================================================
