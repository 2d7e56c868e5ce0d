---------------------------- MODULE MCMigrations ----------------------------
(* Two processes and a database of two tables: version 1 creates t, version *)
(* 2 the table u and a column a on t, version 3 a column b on u.            *)
EXTENDS Migrations, TLC

CONSTANTS t, a, u, b

ThePlan == <<<<t>>, <<u, a>>, <<b>>>>
Tables == [o \in {t, a, u, b} |-> IF o \in {t, a} THEN t ELSE u]

Dialect(tx, lock, ms) == [ddl |-> tx, advisory |-> lock, staleMs |-> ms]
Postgres == Dialect(TRUE, TRUE, 1)
MariaDB  == Dialect(FALSE, TRUE, 1)
Mongo    == Dialect(FALSE, FALSE, 1)
SQLite   == Dialect(TRUE, FALSE, 2)  \* no version has more statements

AllDialects == {Postgres, SQLite, MariaDB, Mongo}
Stepwise    == {MariaDB, Mongo}

\* lockStaleMs outlasts the slowest statement and not the slowest version
HastySQLite == {Dialect(TRUE, FALSE, 1)}

Symmetry == Permutations(Process) \cup Permutations(Host)
=============================================================================
