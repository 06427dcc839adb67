----------------------------- MODULE AdminListing -----------------------------
(***************************************************************************)
(* An operator lists the registrations page by page                        *)
(* (src/src/repositories/adminRegistrations.ts, handlers/admin.ts) while   *)
(* devices register, unregister and are marked.  A page is one statement,  *)
(* of the rows as they are, from an offset into an order in which a row    *)
(* that is written moves to the front; nothing holds the pages together.   *)
(*                                                                         *)
(* Registrations are never deleted.  The clock of the database does not    *)
(* step back (bound); ids are numbers.                                     *)
(***************************************************************************)
EXTENDS Integers, FiniteSets

CONSTANTS
  Ids,          \* of the registrations
  Walks,        \* listings, page after page
  FilterOf,     \* [Walks -> {"all", "active"}]: disabled, and what else a query may name
  ProofOf,      \* [Walks -> Proof]: what authenticates its requests
  Limit,        \* rows of a page
  MaxAge,       \* 5 minutes
  MaxTime,      \* bound of the clock
  None

\* The shared secret, a signature with its timestamp, or the bearer of an install.
Proof == [kind : {"secret", "signature", "install", "none"}, at : Int]

ListingAssumption ==
  /\ IsFiniteSet(Ids) /\ Ids \subseteq Int /\ {Limit, MaxAge, MaxTime} \subseteq Nat
  /\ FilterOf \in [Walks -> {"all", "active"}] /\ ProofOf \in [Walks -> Proof]
  /\ None \notin [stamp : Int, active : BOOLEAN]

VARIABLES
  time,
  table,    \* [stamp, active]
  walks     \* [pc, offset, seen]; history: calm, left

listing == <<time, table, walks>>

NotBegun == [pc |-> "idle", offset |-> 0, seen |-> {}, calm |-> {}, left |-> 0]

Present == {i \in Ids : table[i] # None}
Matches(w, i) == i \in Present /\ (FilterOf[w] = "active" => table[i].active)

\* ORDER BY updated_at DESC, id ASC
IsBefore(i, j) == table[i].stamp > table[j].stamp \/ (table[i].stamp = table[j].stamp /\ i < j)
Position(w, i) == Cardinality({j \in Ids : Matches(w, j) /\ IsBefore(j, i)})

\* verifyHmac: the timestamp is signed; the signature is a property of the proof.
IsRecent(proof) == time - proof.at \in -MaxAge .. MaxAge

\* requireAdminAuth: the bearer of an install is refused, whatever else is sent.
IsAdmin(proof) == proof.kind = "secret" \/ (proof.kind = "signature" /\ IsRecent(proof))

Page(w) ==
  LET first == walks[w].offset
      rows == {i \in Ids : Matches(w, i) /\ Position(w, i) \in first .. first + Limit - 1}
      more == \E i \in Ids : Matches(w, i) /\ Position(w, i) = first + Limit
      begun == walks[w].pc = "idle"
  IN /\ walks[w].pc \in {"idle", "paging"}
     /\ walks' = [walks EXCEPT ![w] =
          IF ~IsAdmin(ProofOf[w]) THEN [@ EXCEPT !.pc = "refused"]
          ELSE [pc |-> IF more THEN "paging" ELSE "done", offset |-> IF more THEN first + Limit ELSE first,
                seen |-> @.seen \cup rows, left |-> @.left,
                calm |-> IF begun THEN {i \in Ids : Matches(w, i)} ELSE @.calm]]
     /\ UNCHANGED <<time, table>>

\* A row is written: it may be registered, disabled or made active again.
Write(i) ==
  /\ \E active \in BOOLEAN :
       /\ table[i] = None => active
       /\ table' = [table EXCEPT ![i] = [stamp |-> time, active |-> active]]
       /\ walks' = [w \in Walks |->
            IF walks[w].pc # "paging" THEN walks[w]
            ELSE [walks[w] EXCEPT !.calm = @ \ {i},
                                  !.left = IF Matches(w, i) /\ FilterOf[w] = "active" /\ ~active THEN @ + 1 ELSE @]]
  /\ UNCHANGED time

Tick == time < MaxTime /\ time' = time + 1 /\ UNCHANGED <<table, walks>>

ListingInit ==
  /\ time = 0
  /\ table \in [Ids -> {None} \cup [stamp : {0}, active : BOOLEAN]]
  /\ walks = [w \in Walks |-> NotBegun]

ListingNext == (\E w \in Walks : Page(w)) \/ (\E i \in Ids : Write(i)) \/ Tick

ListingSpec == ListingInit /\ [][ListingNext]_listing

(***************************************************************************)
(* Properties                                                              *)
(***************************************************************************)
\* Of the rows that nobody wrote while the pages were read, a listing misses at
\* most as many as left its filter meanwhile: each moves the rest by one
\* (adminRegistrations.ts 37-45).  Without such a filter it misses none.
MissesOnlyForCause == \A w \in Walks :
  walks[w].pc = "done" => Cardinality(walks[w].calm \ walks[w].seen) <= walks[w].left
=============================================================================
