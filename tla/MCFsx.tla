------------------------------- MODULE MCFsx -------------------------------
EXTENDS Fsx

\* Two databases with their WALs, and .duckdb.wal (refused, although it has a
\* WAL's form).
MCNames == {<<"db", "duckdb">>, <<"db", "duckdb", "wal">>,
            <<"e", "duckdb">>, <<"e", "duckdb", "wal">>, <<"", "duckdb", "wal">>}

\* The WAL directory is the home directory unless the daemon is told otherwise:
\* it has files of the host, which may be named like WAL files.
MCHostFiles == {<<"notes", "txt">>, <<"e", "duckdb", "wal">>, <<"", "duckdb", "wal">>}

Symmetry == Permutations(Workers)
============================================================================
