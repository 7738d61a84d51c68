------------------------- MODULE PluginUpdatesProofs -------------------------
(***************************************************************************)
(* Proofs about PluginUpdates for every set of slots and values and any    *)
(* number of edits and faults.  ApplyPursued is inductive beside TypeOK.   *)
(* EngineFollows is not: it speaks of moments at which nothing is under    *)
(* way.  Follows says for every moment what the commands under way will    *)
(* leave in the engine, and CleanRollback why taking a routing back        *)
(* restores what the engine runs when at most one command was sent since.  *)
(***************************************************************************)
EXTENDS PluginUpdates, SequenceTheorems, TLAPS

(* The last command that writes a slot writes what the rack shows. *)
Latest(i, s) == s \in sent[i].slots /\ \A j \in DOMAIN sent : s \in sent[j].slots => j <= i
Unwritten(s) == \A i \in DOMAIN sent : s \notin sent[i].slots
FollowsAt(s) ==
  /\ \A i \in DOMAIN sent : Latest(i, s) => sent[i].graph[s] = live[s]
  /\ Unwritten(s) => engine[s] = live[s]
Follows == \A s \in Slots \ (pending \cup lost) : FollowsAt(s)

(* What a routing that fails goes back to is what the engine runs. *)
CleanRollback == original # None /\ sends <= 1 =>
  /\ sends = 0 => sent = <<>> /\ ack = None
  /\ Len(sent) <= 1
  /\ sends = 0 \/ sent # <<>> \/ ~alive \/ (ack # None /\ ack.outcome = "failed") => engine = original
  /\ ~alive \/ (ack # None /\ ack.outcome = "failed") => sent = <<>>

IInv == TypeOK /\ ApplyPursued /\ Follows /\ CleanRollback

Drafting == BeginDraft \/ EditDraft \/ Discard

-----------------------------------------------------------------------------
(* Types. *)

LEMMA NoneApart == \A x \in Graphs \cup Receipts : x # None
BY PluginUpdatesAssumption

LEMMA Fields ==
  ASSUME NEW g \in Graphs, NEW r \in BOOLEAN, NEW o \in {"waiting", "ok", "failed"}
  PROVE  [graph |-> g, routing |-> r, outcome |-> o] \in Receipts
BY DEF Receipts

(* Settling a receipt changes nothing but its outcome. *)
LEMMA SettledReceipt ==
  ASSUME TypeOK, NEW o \in {"ok", "failed"}, Settled(o)
  PROVE  /\ ack' \in Receipts \cup {None}
         /\ ack' = None <=> ack = None
         /\ ack # None => ack'.graph = ack.graph /\ ack'.routing = ack.routing
         /\ ack # None => ack'.outcome \in {ack.outcome, o}
<1>1. CASE ack' = ack
  BY <1>1 DEF TypeOK
<1>2. CASE ack' # ack
  <2>1. ack # None /\ ack \in Receipts /\ ack' = [ack EXCEPT !.outcome = o]
    BY <1>2 DEF Settled, TypeOK
  <2>2. ack' \in Receipts /\ ack'.graph = ack.graph /\ ack'.routing = ack.routing /\ ack'.outcome = o
    BY <2>1 DEF Receipts
  <2>3. QED
    BY <2>1, <2>2, NoneApart
<1>3. QED
  BY <1>1, <1>2

(* A graph is two parts of its slots: the shape and the parameters. *)
LEMMA Whole == Slots \in SUBSET Slots /\ {} \in SUBSET Slots /\ Slots # {}
               /\ \A p \in Params : {p} \in SUBSET Slots /\ {p} # Slots
BY PluginUpdatesAssumption DEF Params

(* Finishing a routing keeps the types, and ends it. *)
LEMMA FinishedType ==
  ASSUME TypeOK, NEW b \in BOOLEAN, Finished(b)
  PROVE  /\ live' \in Graphs /\ draft' \in Graphs \cup {None} /\ base' \in Graphs \cup {None}
         /\ original' = None /\ lost' \in SUBSET Slots
BY Whole DEF TypeOK, Finished

LEMMA TypeInit == Init => TypeOK
<1> SUFFICES ASSUME Init PROVE TypeOK
  OBVIOUS
<1>1. polled \in BOOLEAN /\ alive \in BOOLEAN
  BY DEF Init
<1>2. QED
  BY <1>1, PluginUpdatesAssumption DEF Init, TypeOK

LEMMA TypeNext == TypeOK /\ [Next]_vars => TypeOK'
<1> SUFFICES ASSUME TypeOK, [Next]_vars PROVE TypeOK'
  OBVIOUS
<1> USE PluginUpdatesAssumption
<1>0. polled' \in BOOLEAN /\ alive' \in BOOLEAN
  BY DEF Next, EditParameter, EditRack, Load, BeginDraft, EditDraft, Discard, Apply, Poll, Send, Run,
         Fail, Die, TypeOK, vars
<1>1. CASE EditParameter
  <2>1. PICK p \in Params, v \in Values : v # live[p] /\ live' = [live EXCEPT ![p] = v] /\ Recorded(p)
    BY <1>1 DEF EditParameter
  <2>2. live' \in Graphs
    BY <2>1 DEF TypeOK, Graphs
  <2>3. pending' \in SUBSET Slots /\ lost' \in SUBSET Slots
    BY <2>1, Whole DEF TypeOK, Recorded
  <2>4. edits' \in 0..MaxEdits /\ faults' \in 0..MaxFaults
    BY <1>1 DEF EditParameter, Edit, TypeOK
  <2>5. QED
    BY <1>1, <2>2, <2>3, <2>4 DEF EditParameter, TypeOK, draftVars
<1>2. CASE EditRack
  <2>1. live' \in Graphs
    BY <1>2 DEF EditRack, TypeOK, Graphs
  <2>2. QED
    BY <1>2, <2>1, Whole DEF EditRack, Edit, TypeOK, draftVars
<1>3. CASE Load
  <2>1. live' \in Graphs
    BY <1>3 DEF Load, TypeOK, Graphs
  <2>2. [slots |-> Slots, graph |-> live', receipt |-> FALSE] \in Commands
    BY <2>1, Whole DEF Commands
  <2>3. sent' \in Seq(Commands)
    BY <1>3, <2>2 DEF Load, TypeOK
  <2>4. QED
    BY <1>3, <2>1, <2>3, Whole DEF Load, Edit, OneMore, TypeOK, draftVars
<1>4. CASE Drafting
  BY <1>4 DEF Drafting, BeginDraft, EditDraft, Discard, Edit, TypeOK, Graphs, bounds, history
<1>5. CASE Apply
  BY <1>5, Whole DEF Apply, TypeOK, bounds
<1>6. CASE Poll
  <2>1. CASE ack = None \/ ack.outcome = "waiting"
    BY <1>6, <2>1 DEF Poll, TypeOK, draftVars, bounds
  <2>2. CASE ack # None /\ ack.outcome # "waiting"
    <3>1. CASE ack.graph # live
      BY <1>6, <2>2, <3>1, Whole DEF Poll, TypeOK, draftVars, bounds
    <3>2. CASE ack.graph = live
      <4>1. live' \in Graphs /\ draft' \in Graphs \cup {None} /\ base' \in Graphs \cup {None}
            /\ original' \in Graphs \cup {None} /\ lost' \in SUBSET Slots
        BY <1>6, <2>2, <3>2, FinishedType DEF Poll, TypeOK, draftVars
      <4>2. QED
        BY <1>6, <2>2, <3>2, <4>1 DEF Poll, TypeOK, bounds
    <3>3. QED
      BY <3>1, <3>2
  <2>3. QED
    BY <2>1, <2>2
<1>7. CASE Send
  <2>1. CASE Kept
    BY <1>7, <2>1, Whole DEF Send, Kept, TypeOK, draftVars, bounds
  <2>2. CASE SentWhole
    <3>1. [slots |-> Slots, graph |-> live, receipt |-> TRUE] \in Commands
      BY Whole DEF TypeOK, Commands
    <3>2. sent' \in Seq(Commands)
      BY <2>2, <3>1 DEF SentWhole, TypeOK
    <3>3. ack' \in Receipts
      BY <2>2, Fields DEF SentWhole, TypeOK
    <3>4. QED
      BY <1>0, <1>7, <2>2, <3>2, <3>3, Whole DEF Send, SentWhole, OneMore, TypeOK, draftVars, bounds
  <2>3. CASE SentParameter
    <3>1. PICK slots \in {pending, Slots} :
            sent' = Append(sent, [slots |-> slots, graph |-> live, receipt |-> FALSE])
      BY <2>3 DEF SentParameter
    <3>2. [slots |-> slots, graph |-> live, receipt |-> FALSE] \in Commands
      BY Whole DEF TypeOK, Commands
    <3>3. sent' \in Seq(Commands)
      BY <3>1, <3>2 DEF TypeOK
    <3>4. QED
      BY <1>0, <1>7, <2>3, <3>3, Whole DEF Send, SentParameter, OneMore, TypeOK, draftVars, bounds
  <2>4. CASE NotSent
    <3>1. live' \in Graphs /\ draft' \in Graphs \cup {None} /\ base' \in Graphs \cup {None}
          /\ original' \in Graphs \cup {None} /\ lost' \in SUBSET Slots
      BY <2>4, FinishedType DEF NotSent, TypeOK, draftVars
    <3>2. QED
      BY <1>0, <1>7, <2>4, <3>1, Whole DEF Send, NotSent, OneMore, TypeOK, bounds
  <2>5. CASE ParameterAbsent
    <3>1. lost' \in SUBSET Slots /\ sends' = sends /\ pending' = {}
      BY <2>5 DEF ParameterAbsent, TypeOK
    <3>2. QED
      BY <1>0, <1>7, <2>5, <3>1 DEF Send, ParameterAbsent, TypeOK, draftVars, bounds
  <2>6. QED
    BY <1>7, <2>1, <2>2, <2>3, <2>4, <2>5 DEF Send
<1>8. CASE Run
  <2>1. Head(sent) \in Commands /\ Tail(sent) \in Seq(Commands)
    BY <1>8 DEF Run, TypeOK
  <2>2. engine' \in Graphs
    BY <1>8, <2>1 DEF Run, Changed, Commands, TypeOK, Graphs
  <2>3. ack' \in Receipts \cup {None}
    BY <1>8, SettledReceipt DEF Run
  <2>4. /\ sent' = Tail(sent)
        /\ UNCHANGED <<live, draft, base, original, pending, edits, faults, lost, sends>>
    BY <1>8 DEF Run, draftVars, bounds, history
  <2>5. QED
    BY <1>0, <2>1, <2>2, <2>3, <2>4 DEF TypeOK
<1>9. CASE Fail
  <2>0. Head(sent) \in Commands /\ Tail(sent) \in Seq(Commands)
    BY <1>9 DEF Fail, TypeOK
  <2>1. Head(sent).slots \in SUBSET Slots /\ Tail(sent) \in Seq(Commands)
    BY <2>0 DEF Commands
  <2>2. ack' \in Receipts \cup {None}
    BY <1>9, SettledReceipt DEF Fail
  <2>3. /\ sent' = Tail(sent) /\ lost' = lost \cup Head(sent).slots
        /\ faults < MaxFaults /\ faults' = faults + 1
        /\ UNCHANGED <<live, draft, base, original, pending, engine, edits, sends>>
    BY <1>9 DEF Fail, draftVars
  <2>4. QED
    BY <1>0, <2>1, <2>2, <2>3 DEF TypeOK
<1>10. CASE Die
  <2>1. /\ sent' = <<>> /\ lost' = Slots
        /\ faults < MaxFaults /\ faults' = faults + 1
        /\ UNCHANGED <<live, draft, base, original, pending, ack, engine, edits, sends>>
    BY <1>10 DEF Die, draftVars
  <2>2. QED
    BY <1>0, <2>1, Whole DEF TypeOK
<1>11. CASE UNCHANGED vars
  BY <1>11 DEF vars, draftVars, bounds, history, TypeOK
<1>12. QED
  BY <1>1, <1>2, <1>3, <1>4, <1>5, <1>6, <1>7, <1>8, <1>9, <1>10, <1>11 DEF Next, Drafting

(* Graphs, drafts, receipts and commands have their types whatever is *)
(* edited, sent, run or lost.                                         *)
THEOREM TypeCorrect == Spec => []TypeOK
BY TypeInit, TypeNext, PTL DEF Spec

-----------------------------------------------------------------------------
(* A routing that is being applied. *)

LEMMA PursuedNext == TypeOK /\ ApplyPursued /\ [Next]_vars => ApplyPursued'
<1> SUFFICES ASSUME TypeOK, ApplyPursued, [Next]_vars, original' # None
             PROVE  pending' = Slots \/ (ack' # None /\ ack'.routing)
  BY DEF ApplyPursued
<1>1. CASE EditParameter
  <2>1. UNCHANGED <<original, ack>> /\ \E p \in Params : Recorded(p)
    BY <1>1 DEF EditParameter, draftVars
  <2>2. QED
    BY <2>1 DEF ApplyPursued, Recorded
<1>2. CASE EditRack \/ Apply
  BY <1>2 DEF EditRack, Apply
<1>3. CASE Load \/ Drafting
  BY <1>3 DEF Load, Drafting, BeginDraft, EditDraft, Discard, draftVars, ApplyPursued
<1>4. CASE Poll
  <2>1. CASE ack = None \/ ack.outcome = "waiting"
    BY <1>4, <2>1 DEF Poll, draftVars, ApplyPursued
  <2>2. CASE ack # None /\ ack.outcome # "waiting" /\ ack.graph # live
    BY <1>4, <2>2 DEF Poll
  <2>3. CASE ack # None /\ ack.outcome # "waiting" /\ ack.graph = live
    <3>1. CASE ack.routing
      BY <1>4, <2>3, <3>1 DEF Poll, Finished
    <3>2. CASE ~ack.routing
      BY <1>4, <2>3, <3>2 DEF Poll, draftVars, ApplyPursued
    <3>3. QED
      BY <3>1, <3>2
  <2>4. QED
    BY <2>1, <2>2, <2>3
<1>5. CASE Send
  <2>1. CASE Kept
    BY <2>1 DEF Kept, draftVars, ApplyPursued
  <2>2. CASE SentWhole
    <3>1. original # None
      BY <2>2 DEF SentWhole, draftVars
    <3>2. ack' \in Receipts /\ ack'.routing
      BY <2>2, <3>1, Fields DEF SentWhole, TypeOK
    <3>3. QED
      BY <3>2, NoneApart
  <2>3. CASE SentParameter
    BY <2>3 DEF SentParameter, draftVars, ApplyPursued
  <2>4. CASE NotSent
    BY <2>4 DEF NotSent, Finished, draftVars
  <2>5. CASE ParameterAbsent
    BY <2>5 DEF ParameterAbsent, draftVars, ApplyPursued
  <2>6. QED
    BY <1>5, <2>1, <2>2, <2>3, <2>4, <2>5 DEF Send
<1>6. CASE Run \/ Fail
  <2>1. UNCHANGED <<original, pending>>
    BY <1>6 DEF Run, Fail, draftVars
  <2>2. \E o \in {"ok", "failed"} : Settled(o)
    BY <1>6 DEF Run, Fail
  <2>3. QED
    BY <2>1, <2>2, SettledReceipt DEF ApplyPursued
<1>7. CASE Die \/ UNCHANGED vars
  BY <1>7 DEF Die, vars, draftVars, ApplyPursued
<1>8. QED
  BY <1>1, <1>2, <1>3, <1>4, <1>5, <1>6, <1>7 DEF Next, Drafting

(* As long as a routing is being applied, a rebuild is due or the receipt  *)
(* of one that settles it is out (plugin.rs:1049), whatever fails.         *)
THEOREM Pursued == Spec => []ApplyPursued
<1>1. Init => ApplyPursued
  BY DEF Init, ApplyPursued
<1>2. QED
  BY <1>1, PursuedNext, TypeCorrect, PTL DEF Spec

-----------------------------------------------------------------------------
(* What the commands under way will leave in a slot. *)

LEMMA FollowsAppend ==
  ASSUME TypeOK, NEW c \in Commands, NEW s \in Slots,
         sent' = Append(sent, c), engine' = engine,
         \/ s \in c.slots /\ c.graph[s] = live'[s]
         \/ s \notin c.slots /\ FollowsAt(s) /\ live'[s] = live[s]
  PROVE  FollowsAt(s)'
<1>0. PICK n \in Nat : n = Len(sent)
  BY DEF TypeOK
<1>1. /\ n \in Nat /\ DOMAIN sent = 1..n /\ DOMAIN sent' = 1..n + 1
      /\ 1..n \subseteq 1..n + 1 /\ n + 1 \in 1..n + 1
      /\ sent'[n + 1] = c /\ \A i \in 1..n : sent'[i] = sent[i]
  BY <1>0 DEF TypeOK
<1>2. CASE s \in c.slots /\ c.graph[s] = live'[s]
  <2>1. \A i \in 1..n : ~Latest(i, s)'
    BY <1>1, <1>2 DEF Latest
  <2>2. ~Unwritten(s)'
    BY <1>1, <1>2 DEF Unwritten
  <2>3. QED
    BY <1>1, <1>2, <2>1, <2>2 DEF FollowsAt
<1>3. CASE s \notin c.slots /\ FollowsAt(s) /\ live'[s] = live[s]
  <2>1. ~Latest(n + 1, s)'
    BY <1>1, <1>3 DEF Latest
  <2>2. \A i \in 1..n : Latest(i, s)' => Latest(i, s)
    BY <1>1 DEF Latest
  <2>3. Unwritten(s)' => Unwritten(s)
    BY <1>1 DEF Unwritten
  <2>4. \A i \in DOMAIN sent' : i = n + 1 \/ i \in 1..n
    BY <1>1
  <2>5. QED
    BY <1>1, <1>3, <2>1, <2>2, <2>3, <2>4 DEF FollowsAt
<1>4. QED
  BY <1>2, <1>3

LEMMA FollowsTail ==
  ASSUME TypeOK, NEW s \in Slots, FollowsAt(s), live' = live,
         sent # <<>>, sent' = Tail(sent),
         \/ engine' = Changed(engine, Head(sent))
         \/ s \notin Head(sent).slots /\ engine' = engine
  PROVE  FollowsAt(s)'
<1> DEFINE n == Len(sent)
<1>1. /\ n \in Nat \ {0} /\ DOMAIN sent = 1..n /\ DOMAIN sent' = 1..n - 1
      /\ Head(sent) = sent[1] /\ \A i \in 1..n - 1 : sent'[i] = sent[i + 1]
  BY DEF TypeOK
<1>2. \A i \in 1..n - 1 : Latest(i, s)' => Latest(i + 1, s)
  <2> SUFFICES ASSUME NEW i \in 1..n - 1, Latest(i, s)' PROVE Latest(i + 1, s)
    OBVIOUS
  <2>1. s \in sent[i + 1].slots
    BY <1>1 DEF Latest
  <2>2. ASSUME NEW j \in 1..n, s \in sent[j].slots PROVE j <= i + 1
    <3>1. CASE j = 1
      BY <3>1, <1>1
    <3>2. CASE j # 1
      <4>1. j - 1 \in 1..n - 1 /\ sent'[j - 1] = sent[j]
        BY <1>1, <3>2
      <4>2. j - 1 <= i
        BY <1>1, <2>2, <4>1 DEF Latest
      <4>3. QED
        BY <4>2, <1>1
    <3>3. QED
      BY <3>1, <3>2
  <2>3. QED
    BY <1>1, <2>1, <2>2 DEF Latest
<1>3. \A i \in DOMAIN sent' : Latest(i, s)' => sent'[i].graph[s] = live'[s]
  BY <1>1, <1>2 DEF FollowsAt
<1>4. ASSUME Unwritten(s)' PROVE engine'[s] = live'[s]
  <2>1. \A i \in 2..n : s \notin sent[i].slots
    <3> SUFFICES ASSUME NEW i \in 2..n PROVE s \notin sent[i].slots
      OBVIOUS
    <3>1. i - 1 \in 1..n - 1 /\ sent'[i - 1] = sent[i]
      BY <1>1
    <3>2. QED
      BY <1>1, <1>4, <3>1 DEF Unwritten
  <2>2. CASE s \in Head(sent).slots
    <3>1. Latest(1, s)
      BY <1>1, <2>1, <2>2 DEF Latest
    <3>2. engine'[s] = sent[1].graph[s]
      BY <1>1, <2>2 DEF Changed
    <3>3. QED
      BY <1>1, <3>1, <3>2 DEF FollowsAt
  <2>3. CASE s \notin Head(sent).slots
    <3>1. Unwritten(s)
      BY <1>1, <2>1, <2>3 DEF Unwritten
    <3>2. engine'[s] = engine[s]
      BY <2>3 DEF Changed
    <3>3. QED
      BY <3>1, <3>2 DEF FollowsAt
  <2>4. QED
    BY <2>2, <2>3
<1>5. QED
  BY <1>3, <1>4 DEF FollowsAt

(* With nothing under way every slot is what the rack shows. *)
LEMMA FollowsInStep ==
  ASSUME TypeOK, Follows, InStep
  PROVE  engine = live
<1>1. \A s \in Slots : engine[s] = live[s]
  <2>1. \A s \in Slots : FollowsAt(s)
    BY DEF Follows, InStep
  <2>2. DOMAIN sent = {}
    BY DEF InStep
  <2>3. QED
    BY <2>1, <2>2 DEF FollowsAt, Unwritten
<1>2. QED
  BY <1>1 DEF TypeOK, Graphs

(* A routing that fails is taken back to what the engine runs, or else *)
(* every slot is given up.                                             *)
LEMMA FollowsFinished ==
  ASSUME TypeOK, Follows, CleanRollback, Finished(FALSE), original # None,
         ~alive \/ (ack # None /\ ack.outcome = "failed"),
         UNCHANGED <<sent, engine>>
  PROVE  \A s \in Slots \ lost' : FollowsAt(s)'
<1>1. CASE sends <= 1
  <2>1. engine = original /\ sent = <<>> /\ live' = original
    BY <1>1 DEF CleanRollback, Finished
  <2>2. QED
    BY <2>1 DEF FollowsAt
<1>2. CASE ~(sends <= 1)
  BY <1>2 DEF Finished
<1>3. QED
  BY <1>1, <1>2

LEMMA FollowsNext ==
  TypeOK /\ Follows /\ CleanRollback /\ [Next]_vars => Follows'
<1> SUFFICES ASSUME TypeOK, Follows, CleanRollback, [Next]_vars,
                    NEW s \in Slots, s \notin pending' \cup lost'
             PROVE  FollowsAt(s)'
  BY DEF Follows
<1>0. s \notin pending \cup lost => FollowsAt(s)
  BY DEF Follows
<1>1. ASSUME UNCHANGED <<sent, engine>>, live'[s] = live[s], s \notin pending \cup lost
      PROVE  FollowsAt(s)'
  <2>1. \A i \in DOMAIN sent : Latest(i, s)' => Latest(i, s)
    BY <1>1 DEF Latest
  <2>2. Unwritten(s)' => Unwritten(s)
    BY <1>1 DEF Unwritten
  <2>3. QED
    BY <1>0, <1>1, <2>1, <2>2 DEF FollowsAt
<1>2. CASE EditParameter
  <2>1. PICK p \in Params, v \in Values : live' = [live EXCEPT ![p] = v] /\ Recorded(p)
    BY <1>2 DEF EditParameter
  <2>2. s \notin pending \cup lost /\ s # p
    BY <2>1 DEF Recorded
  <2>3. live'[s] = live[s]
    BY <2>1, <2>2 DEF TypeOK, Graphs
  <2>4. QED
    BY <1>1, <1>2, <2>2, <2>3 DEF EditParameter
<1>3. CASE EditRack \/ Apply
  BY <1>3 DEF EditRack, Apply
<1>4. CASE Load
  <2>1. live' \in Graphs
    BY <1>4 DEF Load, TypeOK, Graphs
  <2>2. alive
    BY <1>4 DEF Load
  <2>3. PICK c \in Commands : c.slots = Slots /\ c.graph = live' /\ sent' = Append(sent, c)
    BY <1>4, <2>1, <2>2 DEF Load, Commands
  <2>4. engine' = engine
    BY <1>4 DEF Load
  <2>5. QED
    BY <2>3, <2>4, FollowsAppend
<1>5. CASE Drafting
  BY <1>1, <1>5 DEF Drafting, BeginDraft, EditDraft, Discard, history
<1>6. CASE Poll
  <2>1. CASE ack = None \/ ack.outcome = "waiting"
    BY <1>1, <1>6, <2>1 DEF Poll
  <2>2. CASE ack # None /\ ack.outcome # "waiting" /\ ack.graph # live
    BY <1>6, <2>2 DEF Poll
  <2>3. CASE ack # None /\ ack.outcome # "waiting" /\ ack.graph = live
    <3>1. CASE ack.routing /\ ack.outcome = "failed" /\ original # None
      <4>1. Finished(FALSE)
        BY <1>6, <2>3, <3>1 DEF Poll
      <4>2. QED
        BY <1>6, <2>3, <3>1, <4>1, FollowsFinished DEF Poll
    <3>2. CASE ~(ack.routing /\ ack.outcome = "failed" /\ original # None)
      <4>1. ack.outcome \in {"ok", "failed"}
        BY <2>3 DEF TypeOK, Receipts
      <4>2. UNCHANGED <<live, pending, lost>>
        BY <1>6, <2>3, <3>2, <4>1 DEF Poll, Finished
      <4>3. QED
        BY <1>1, <1>6, <4>2 DEF Poll
    <3>3. QED
      BY <3>1, <3>2
  <2>4. QED
    BY <2>1, <2>2, <2>3
<1>7. CASE Send
  <2>0. engine' = engine
    BY <1>7 DEF Send
  <2>1. CASE Kept
    BY <1>1, <2>0, <2>1 DEF Kept
  <2>2. CASE SentWhole
    <3>1. PICK c \in Commands : c.slots = Slots /\ c.graph = live /\ sent' = Append(sent, c)
      BY <2>2 DEF SentWhole, TypeOK, Commands
    <3>2. QED
      BY <2>0, <2>2, <3>1, FollowsAppend DEF SentWhole
  <2>3. CASE SentParameter
    <3>1. PICK slots \in {pending, Slots} :
            sent' = Append(sent, [slots |-> slots, graph |-> live, receipt |-> FALSE])
      BY <2>3 DEF SentParameter
    <3>2. slots \in SUBSET Slots
      BY DEF TypeOK
    <3>3. PICK c \in Commands : c.slots = slots /\ c.graph = live /\ sent' = Append(sent, c)
      BY <3>1, <3>2 DEF TypeOK, Commands
    <3>4. live' = live /\ lost' = lost
      BY <2>3 DEF SentParameter
    <3>5. s \in slots \/ FollowsAt(s)
      BY <1>0, <3>4
    <3>6. QED
      BY <2>0, <3>3, <3>4, <3>5, FollowsAppend
  <2>4. CASE NotSent
    <3>1. CASE original = None
      BY <1>1, <2>0, <2>4, <3>1 DEF NotSent
    <3>2. CASE original # None
      BY <2>0, <2>4, <3>2, FollowsFinished DEF NotSent
    <3>3. QED
      BY <3>1, <3>2
  <2>5. CASE ParameterAbsent
    BY <1>1, <2>0, <2>5 DEF ParameterAbsent
  <2>6. QED
    BY <1>7, <2>1, <2>2, <2>3, <2>4, <2>5 DEF Send
<1>8. CASE Run
  BY <1>0, <1>8, FollowsTail DEF Run, history
<1>9. CASE Fail
  BY <1>0, <1>9, FollowsTail DEF Fail
<1>10. CASE Die
  BY <1>10 DEF Die
<1>11. CASE UNCHANGED vars
  BY <1>1, <1>11 DEF vars, history
<1>12. QED
  BY <1>2, <1>3, <1>4, <1>5, <1>6, <1>7, <1>8, <1>9, <1>10, <1>11 DEF Next, Drafting

LEMMA CleanNext ==
  TypeOK /\ Follows /\ CleanRollback /\ [Next]_vars => CleanRollback'
<1> DEFINE Failed == ack # None /\ ack.outcome = "failed"
           Clean == /\ sends = 0 => sent = <<>> /\ ack = None
                    /\ Len(sent) <= 1
                    /\ sends = 0 \/ sent # <<>> \/ ~alive \/ Failed => engine = original
                    /\ ~alive \/ Failed => sent = <<>>
<1> SUFFICES ASSUME TypeOK, Follows, CleanRollback, [Next]_vars, original' # None, sends' <= 1
             PROVE  Clean'
  BY DEF CleanRollback
<1>0. OneMore <= 1 => sends = 0 /\ OneMore = 1
  BY DEF OneMore, TypeOK
<1>1. ASSUME UNCHANGED <<original, sent, engine, alive, sends>>, ack' \in {ack, None}
      PROVE  Clean'
  BY <1>1 DEF CleanRollback
<1>2. CASE EditParameter \/ EditRack \/ Drafting
  BY <1>1, <1>2 DEF EditParameter, EditRack, Drafting, BeginDraft, EditDraft, Discard, draftVars, history
<1>3. CASE Load
  <2>1. original' = original /\ ack' = ack /\ engine' = engine /\ alive' = alive /\ sends' = 1 /\ sends = 0
    BY <1>0, <1>3 DEF Load, draftVars
  <2>2. sent = <<>> /\ ack = None /\ engine = original
    BY <2>1 DEF CleanRollback
  <2>3. CASE alive
    <3>1. Len(sent') = 1
      BY <1>3, <2>2, <2>3 DEF Load
    <3>2. QED
      BY <2>1, <2>2, <2>3, <3>1
  <2>4. CASE ~alive
    <3>1. sent' = <<>>
      BY <1>3, <2>2, <2>4 DEF Load
    <3>2. QED
      BY <2>1, <2>2, <3>1
  <2>5. QED
    BY <2>3, <2>4
<1>4. CASE Apply
  <2>1. InStep /\ sends' = 0
    BY <1>4 DEF Apply
  <2>2. engine = live
    BY <2>1, FollowsInStep
  <2>3. QED
    BY <1>4, <2>1, <2>2 DEF Apply, InStep
<1>5. CASE Poll
  <2>1. original' = original /\ ack' \in {ack, None}
    BY <1>5 DEF Poll, Finished, draftVars
  <2>2. QED
    BY <1>1, <1>5, <2>1 DEF Poll
<1>6. CASE Send
  <2>0. engine' = engine /\ alive' = alive
    BY <1>6 DEF Send
  <2>1. CASE Kept
    BY <1>1, <2>0, <2>1 DEF Kept, draftVars
  <2>2. CASE SentWhole
    <3>1. original' = original /\ sends' = 1 /\ sends = 0 /\ alive
      BY <1>0, <2>2 DEF SentWhole, draftVars
    <3>2. sent = <<>> /\ engine = original
      BY <3>1 DEF CleanRollback
    <3>3. Len(sent') = 1 /\ ack'.outcome = "waiting"
      BY <2>2, <3>2 DEF SentWhole
    <3>4. QED
      BY <2>0, <3>1, <3>2, <3>3
  <2>3. CASE SentParameter
    <3>1. original' = original /\ ack' = ack /\ sends' = 1 /\ sends = 0 /\ alive
      BY <1>0, <2>3 DEF SentParameter, draftVars
    <3>2. sent = <<>> /\ engine = original /\ ack = None
      BY <3>1 DEF CleanRollback
    <3>3. Len(sent') = 1
      BY <2>3, <3>2 DEF SentParameter
    <3>4. QED
      BY <2>0, <3>1, <3>2, <3>3
  <2>4. CASE NotSent
    BY <2>4 DEF NotSent, Finished, draftVars
  <2>5. CASE ParameterAbsent
    <3>1. UNCHANGED <<original, sent, engine, alive, sends>> /\ ack' = ack
      BY <1>6, <2>5 DEF Send, ParameterAbsent, draftVars
    <3>2. QED
      BY <1>1, <3>1
  <2>6. QED
    BY <1>6, <2>1, <2>2, <2>3, <2>4, <2>5 DEF Send
<1>7. CASE Run \/ Fail \/ Die
  <2>1. original' = original /\ sends' = sends /\ sent # <<>> /\ alive
    BY <1>7 DEF Run, Fail, Die, draftVars, history
  <2>0. sent \in Seq(Commands) /\ sends \in Nat
    BY DEF TypeOK
  <2>2. Len(sent) = 1 /\ sends = 1 /\ engine = original /\ ~Failed
    <3>0. Len(sent) <= 1
      BY <2>1 DEF CleanRollback
    <3>1. sends # 0 /\ engine = original /\ ~Failed
      BY <2>1 DEF CleanRollback
    <3>2. Len(sent) \in Nat \ {0}
      BY <2>0, <2>1, EmptySeq
    <3>3. Len(sent) = 1
      <4>1. \A n \in Nat \ {0} : n <= 1 => n = 1
        OBVIOUS
      <4>2. QED
        BY ONLY <3>0, <3>2, <4>1
    <3>4. sends <= 1
      BY <2>1
    <3>5. sends = 1
      BY <2>0, <3>1, <3>4
    <3>6. QED
      BY <3>1, <3>3, <3>5
  <2>3. Tail(sent) = <<>>
    <3>1. Tail(sent) \in Seq(Commands) /\ Len(Tail(sent)) = Len(sent) - 1
      BY <2>0, <2>1, HeadTailProperties
    <3>2. Len(Tail(sent)) = 0
      BY <2>2, <3>1
    <3>3. QED
      BY <3>1, <3>2, EmptySeq
  <2>4. sent' = <<>>
    BY <1>7, <2>3 DEF Run, Fail, Die
  <2>5. CASE Run
    <3>1. alive' = alive
      BY <2>5 DEF Run
    <3>2. alive'
      BY <2>1, <3>1
    <3>3. ~Failed'
      <4>1. ack' = None <=> ack = None
        BY <2>5, SettledReceipt DEF Run
      <4>2. ack # None => ack'.outcome \in {ack.outcome, "ok"}
        BY <2>5, SettledReceipt DEF Run
      <4>3. QED
        BY <2>2, <4>1, <4>2
    <3>4. sends' = 1
      BY <2>1, <2>2
    <3>5. Len(sent') = 0
      BY <2>4
    <3>6. QED
      BY <2>4, <3>2, <3>3, <3>4, <3>5
  <2>6. CASE Fail \/ Die
    <3>1. engine' = engine
      BY <2>6 DEF Fail, Die
    <3>2. QED
      BY <2>1, <2>2, <2>4, <3>1
  <2>7. QED
    BY <1>7, <2>5, <2>6
<1>8. CASE UNCHANGED vars
  BY <1>1, <1>8 DEF vars, draftVars, history
<1>9. QED
  BY <1>2, <1>3, <1>4, <1>5, <1>6, <1>7, <1>8 DEF Next, Drafting

-----------------------------------------------------------------------------
(* What the commands under way leave in the engine, and what a rollback    *)
(* finds there, is known at every moment.                                  *)
THEOREM Invariant == Spec => []IInv
<1>1. Init => IInv
  <2> SUFFICES ASSUME Init PROVE IInv
    OBVIOUS
  <2>1. Follows
    BY DEF Init, Follows, FollowsAt
  <2>2. QED
    BY <2>1, TypeInit DEF Init, IInv, ApplyPursued, CleanRollback
<1>2. IInv /\ [Next]_vars => IInv'
  BY TypeNext, PursuedNext, FollowsNext, CleanNext DEF IInv
<1>3. QED
  BY <1>1, <1>2, PTL DEF Spec

(* When nothing is pending, sent or awaited the engine runs what the rack  *)
(* shows, but for the slots whose change was given up.                     *)
THEOREM EngineRunsRack == Spec => []EngineFollows
<1>1. IInv => EngineFollows
  <2> SUFFICES ASSUME IInv, pending = {}, sent = <<>>, NEW s \in Slots \ lost
               PROVE  engine[s] = live[s]
    BY DEF EngineFollows
  <2>1. FollowsAt(s) /\ DOMAIN sent = {}
    BY DEF IInv, Follows
  <2>2. QED
    BY <2>1 DEF FollowsAt, Unwritten
<1>2. QED
  BY <1>1, Invariant, PTL
=============================================================================
