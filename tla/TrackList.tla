------------------------------ MODULE TrackList ------------------------------
(***************************************************************************)
(* What the playback queue promises a listener: one list of tracks and a   *)
(* cursor in it.  How the tracks are grouped into albums, and how albums   *)
(* are split to make room, does not show at this level.                    *)
(*                                                                         *)
(* Edits leave the cursor on the track it was on; only navigation, and the *)
(* removal of the very block that holds the cursor, may move it.  The      *)
(* removal of one track can be undone until the next edit.                 *)
(***************************************************************************)
EXTENDS Integers, SequencesExt

CONSTANT Tracks

VARIABLES
  list,  \* every queued track, played and upcoming, in playing order
  pos,   \* the place of the current track in `list`, 0 when there is none
  held   \* the list an undo would bring back, <<>> when none is offered

TypeOK == list \in Seq(Tracks) /\ pos \in 0..Len(list) /\ held \in Seq(Tracks)

Init == list = <<>> /\ pos = 0 /\ held = <<>>

Cut(i, j) == SubSeq(list, 1, i - 1) \o SubSeq(list, j + 1, Len(list))
Paste(s, k, block) == SubSeq(s, 1, k) \o block \o SubSeq(s, k + 1, Len(s))

(* Any number of tracks arrive at the end; play-now also moves onto them.  *)
AppendTracks ==
  /\ IsPrefix(list, list')
  /\ pos' \in {pos} \cup (IF Len(list') > Len(list) THEN {Len(list) + 1} ELSE {})

(* Tracks scheduled next go directly behind the current one.  With nothing *)
(* current no place is promised.                                           *)
ScheduleNext ==
  \E k \in 0..Len(list) :
    LET n == Len(list') - Len(list) IN
    /\ n > 0
    /\ pos # 0 => k = pos
    /\ list' = Paste(list, k, SubSeq(list', k + 1, k + n))
    /\ pos' = pos

MoveUpcoming ==
  \E i, j \in pos + 1 .. Len(list) :
    list' = InsertAt(RemoveAt(list, i), j, list[i]) /\ pos' = pos

(* The cursor stays on its track unless the block takes it away; then it   *)
(* goes to the track behind the block, or, when the block was the end of   *)
(* the list, to any place before it or nowhere.  With nothing current the  *)
(* queue may still hold a cursor it can play nothing from, and give it a   *)
(* place again here.                                                       *)
RemoveBlock ==
  \E i, j \in DOMAIN list :
    /\ i <= j
    /\ list' = Cut(i, j)
    /\ CASE pos # 0 /\ pos < i -> pos' = pos
         [] pos > j            -> pos' = pos - (j - i + 1)
         [] pos \in i..j       -> IF i <= Len(list') THEN pos' = i ELSE pos' \in 0..Len(list')
         [] pos = 0            -> pos' \in 0..Len(list')

MoveBlock ==
  \E i, j \in DOMAIN list :
    \E k \in 0..(Len(list) - (j - i + 1)) :
      LET n == j - i + 1 IN
      /\ i <= j
      /\ list' = Paste(Cut(i, j), k, SubSeq(list, i, j))
      /\ pos' = CASE pos \in i..j           -> k + (pos - i + 1)
                  [] pos < i /\ pos > k     -> pos + n
                  [] pos > j /\ pos <= k + n -> pos - n
                  [] OTHER                  -> pos

Clear == list' = <<>> /\ pos' = 0

(* Every edit withdraws the undo; navigation and the removal of one        *)
(* upcoming track do not.                                                  *)
Edit ==
  /\ AppendTracks \/ ScheduleNext \/ MoveUpcoming \/ RemoveBlock \/ MoveBlock \/ Clear
  /\ held' = <<>>

RemoveUpcoming ==
  \E i \in pos + 1 .. Len(list) : list' = RemoveAt(list, i) /\ pos' = pos /\ held' = list

(* Undo of that removal: the cursor stays on its track. *)
PutBack ==
  \E i \in DOMAIN held :
    /\ list = RemoveAt(held, i)
    /\ list' = held
    /\ pos' = IF pos # 0 /\ i <= pos THEN pos + 1 ELSE pos
    /\ held' = <<>>

Navigate ==
  /\ list' = list
  /\ pos' \in 0..Len(list) /\ (pos # 0 => pos' # 0)
  /\ held' = held

Next == Edit \/ RemoveUpcoming \/ PutBack \/ Navigate

Spec == Init /\ [][Next]_<<list, pos, held>>
=============================================================================
