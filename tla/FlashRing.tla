----------------------------- MODULE FlashRing -----------------------------
(***************************************************************************)
(* The ring of records in flash of main/load_hist.c (a day each) and of    *)
(* main/em_hist.c (a quarter hour each): the same rules twice. A cell that  *)
(* is not blank takes no record, only a whole sector can be erased, and     *)
(* power may go at any point of it. The readers wait for the lock.         *)
(***************************************************************************)
EXTENDS Integers, FiniteSetsExt

CONSTANTS
  Sectors, PerSector,   \* the area, LH_PER_SECTOR / EH_PER_SECTOR
  Times,                \* the dates or the quarter hours records are about
  MaxPuts, MaxTrouble   \* bounds: records; power cuts and refused erases and writes

ASSUME RingAssumption ==
  Sectors \in Nat \ {0, 1} /\ PerSector \in Nat \ {0} /\ MaxPuts \in Nat /\ MaxTrouble \in Nat

VARIABLES
  cell,             \* flash: Blank, Torn or a record
  newest, seq, count, \* s_lh_newest, s_lh_seq, s_lh_count
  put,              \* where load_hist_put() is
  puts, trouble     \* what the bounds count
ringVars == << cell, newest, seq, count, put, puts, trouble >>

NRec == Sectors * PerSector
Cells == 0 .. NRec - 1
Blank == [seq |-> 0, t |-> 0]
Torn == [seq |-> -1, t |-> 0]
Valid == {i \in Cells : cell[i] \notin {Blank, Torn}}
NoPut == [at |-> "idle"]
Trouble == trouble < MaxTrouble /\ trouble' = trouble + 1

RingInit ==
  /\ cell = [i \in Cells |-> Blank] /\ newest = -1 /\ seq = 0 /\ count = 0
  /\ put = NoPut /\ puts = 0 /\ trouble = 0

----------------------------------------------------------------------------
(* load_hist_put(): the cell after the newest that can take a record, or   *)
(* the first one of a sector, which is erased on entry.                    *)
EntersSector(i) == i % PerSector = 0
Room(from) ==
  LET takes(k) == EntersSector((from + k) % NRec) \/ cell[(from + k) % NRec] = Blank
  IN  (from + Min({k \in 0 .. PerSector - 1 : takes(k)})) % NRec
Next1 == IF newest < 0 THEN 0 ELSE (newest + 1) % NRec

PutBegins(t) ==
  /\ put = NoPut /\ puts < MaxPuts /\ puts' = puts + 1
  /\ put' = [at |-> IF EntersSector(Room(Next1)) THEN "erase" ELSE "write", slot |-> Room(Next1), t |-> t]
  /\ UNCHANGED << cell, newest, seq, count, trouble >>

OneTooMany(i) == i .. i + PerSector
SectorOf(i) == i .. i + PerSector - 1
Erases ==
  /\ put.at = "erase"
  /\ count' = count - Cardinality(Valid \cap SectorOf(put.slot))
  /\ cell' = [i \in Cells |-> IF i \in SectorOf(put.slot) THEN Blank ELSE cell[i]]
  /\ put' = [put EXCEPT !.at = "write"]
  /\ UNCHANGED << newest, seq, puts, trouble >>

(* The record, read back before it counts. Cells only lose bits: one that  *)
(* is not blank ends up torn.                                              *)
Programmed(i, r) == IF cell[i] = Blank THEN r ELSE Torn
Writes ==
  LET r == Programmed(put.slot, [seq |-> seq + 1, t |-> put.t])
  IN
  /\ put.at = "write" /\ put' = NoPut
  /\ cell' = [cell EXCEPT ![put.slot] = r]
  /\ IF r = Torn THEN UNCHANGED << newest, seq, count >>
     ELSE newest' = put.slot /\ seq' = seq + 1 /\ count' = count + 1
  /\ UNCHANGED << puts, trouble >>

(* The flash refuses: nothing erased, or a record that does not read back. *)
Refused(left) ==
  /\ put # NoPut /\ Trouble /\ put' = NoPut
  /\ left \in IF put.at = "write" THEN {cell[put.slot], Torn} ELSE {cell[put.slot]}
  /\ cell' = [cell EXCEPT ![put.slot] = left]
  /\ UNCHANGED << newest, seq, count, puts >>

(* load_hist_init(): the scan that finds the ring again.                   *)
Scan(c) ==
  LET valid == {i \in Cells : c[i] \notin {Blank, Torn}}
      last  == {i \in valid : \A j \in valid : c[j].seq <= c[i].seq}
  IN  IF valid = {} THEN [newest |-> -1, seq |-> 0, count |-> 0]
      ELSE [newest |-> Min(last), seq |-> c[Min(last)].seq, count |-> Cardinality(valid)]

(* Power goes: of an erase each cell may be left whole, torn or blank, of a *)
(* write the cell may be left blank, torn or complete.                     *)
LeftBehind ==
  CASE put = NoPut      -> {cell}
    [] put.at = "erase" ->
         {[i \in Cells |-> IF i \notin SectorOf(put.slot) THEN cell[i]
                           ELSE IF i \in torn THEN Torn ELSE IF i \in gone THEN Blank ELSE cell[i]] :
            torn \in SUBSET SectorOf(put.slot), gone \in SUBSET SectorOf(put.slot)}
    [] put.at = "write" ->
         {[cell EXCEPT ![put.slot] = c] :
            c \in {cell[put.slot], Torn, Programmed(put.slot, [seq |-> seq + 1, t |-> put.t])}}
RingPowerCut(c) ==
  /\ Trouble /\ c \in LeftBehind /\ cell' = c /\ put' = NoPut
  /\ \E s \in {Scan(c)} : newest' = s.newest /\ seq' = s.seq /\ count' = s.count
  /\ UNCHANGED puts

RingNext ==
  \/ \E t \in Times : PutBegins(t)
  \/ Erases \/ Writes
  \/ \E left \in {Torn} \cup {cell[i] : i \in Cells} : Refused(left)
  \/ \E c \in LeftBehind : RingPowerCut(c)
RingSpec == RingInit /\ [][RingNext]_ringVars

----------------------------------------------------------------------------
(* The readers walk back from the newest.                                  *)
StepBack(back) == (newest + NRec - back) % NRec

(* load_hist_average(): one record per date, the newest days of them.      *)
OncePerDate(taken, r) == taken \cup (IF \E q \in taken : q.t = r.t THEN {} ELSE {r})
Visited(taken, r, days) ==
  IF Cardinality(taken) >= days \/ r \in {Blank, Torn} THEN taken ELSE OncePerDate(taken, r)
Average(days) ==
  LET walk[n \in 0..NRec] == IF n = 0 THEN {} ELSE Visited(walk[n - 1], cell[StepBack(n - 1)], days)
  IN  IF newest < 0 THEN {} ELSE walk[NRec]

----------------------------------------------------------------------------
(* The record is a log whose oldest sector goes first: what was put and    *)
(* not reused is found again after any power cut.                          *)
Log == INSTANCE OldestFirst WITH kept <- {cell[i] : i \in Valid}, Batch <- PerSector
KeepsLog == Log!Spec

(* A record always goes to a blank cell, however many of the cells before  *)
(* it were torn, and memory knows what a scan would find.                  *)
FindsItself ==
  /\ put # NoPut /\ put.at = "write" => cell[put.slot] = Blank
  /\ put = NoPut => Scan(cell) = [newest |-> newest, seq |-> seq, count |-> count]

(* The average takes each date once, in its newest record, and no older    *)
(* date while a newer one is left: a date filed twice does not weigh twice. *)
EachDateOnce ==
  put = NoPut =>
  \A days \in 1 .. Cardinality(Times) :
    LET recs  == {cell[i] : i \in Valid}
        heads == {r \in recs : ~\E q \in recs : q.t = r.t /\ q.seq > r.seq}
    IN  Average(days) = {r \in heads : Cardinality({q \in heads : q.seq > r.seq}) < days}

(* The ring in flash is such a log at every moment, and is read as one. *)
RingSound == KeepsLog /\ [](FindsItself /\ EachDateOnce)
=============================================================================
