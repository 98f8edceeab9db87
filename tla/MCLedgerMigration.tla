------------------------- MODULE MCLedgerMigration -------------------------
(***************************************************************************)
(* Two migrations and a server: an older binary, which embeds two entries, *)
(* and a newer one, which embeds three.                                    *)
(***************************************************************************)
EXTENDS LedgerMigration

CONSTANTS older, newer, server

Binaries == [p \in {older, newer, server} |-> IF p = newer THEN 3 ELSE 2]
Files == <<1, 2, 1>>

Row(e, h) == [entry |-> e, hash |-> h]

\* Empty, begun under old forms of hash, at the older head, and three that are
\* no prefix: an unknown row, a short hash too late, a row out of place.
Ledgers ==
  {<<>>, <<Row(1, "short")>>, <<Row(1, "rewritten"), Row(2, "full")>>,
   <<Row(1, "full"), Row(2, "short")>>, <<Row(2, "full")>>,
   <<Row(1, "full"), Row(2, "full"), Row(3, "full")>>}
=============================================================================
