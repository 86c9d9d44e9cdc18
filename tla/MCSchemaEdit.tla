---------------------------- MODULE MCSchemaEdit ----------------------------
(* Two sessions and two names: equal but for their case; none and a        *)
(* reserved word; names with quotes; names that agree in 63 bytes.         *)
EXTENDS SchemaEdit

CONSTANTS s1, s2

MCFlavours == {"postgres", "mysql", "mssql", "sqlite", "duckdb"}
MCSession  == {s1, s2}
MCSchemas  == { <<>>, <<"Int64">>, <<"List">> }
MCNameSets == { { <<"a", "$">>, <<"A", "$">> },
                { <<>>, <<"select">> },
                { <<"a", "quote", "b">>, <<"backtick", "a">> },
                { <<"long", "a">>, <<"long", "b">> } }
MCSymmetry == Permutations(MCSession)
=============================================================================
