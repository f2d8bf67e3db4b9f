------------------------------ MODULE SdkProofs ------------------------------
(***************************************************************************)
(* Proofs about the bundler service and the SDK in front of it, for all    *)
(* numbers of requests, ticks, debug calls, accounts, modes and blocks:    *)
(*   - two attempts never give cause for crashedHandleOps to each other;   *)
(*   - what wait() reports is what became of the operation;                *)
(*   - the flag isPhantom is right.                                        *)
(* The three are conjuncts, or consequences, of one inductive invariant.   *)
(* On top of it come who is in which queue, and that an account's nonce is *)
(* at most the number of blocks; from these follow                         *)
(*   - the types;                                                          *)
(*   - that the two mutexes never wait for each other in a circle.         *)
(***************************************************************************)
EXTENDS Sdk, SequenceTheorems, FiniteSetTheorems, TLAPS

(* The shapes of the variables: no more of their types is needed. *)
Shapes ==
    /\ \E S : chain \in Seq(S)
    /\ \E S : bundleQueue \in Seq(S)
    /\ params = [r \in Request |-> params[r]]
    /\ stage = [c \in Caller |-> stage[c]]
    /\ bundle = [c \in Caller |-> bundle[c]]
    /\ isPhantom \in [Account -> BOOLEAN]
    /\ draft = [t \in Request |-> [pc |-> draft[t].pc, initCode |-> draft[t].initCode,
                                   nonce |-> draft[t].nonce]]
    /\ listener = [t \in Request |-> [at |-> listener[t].at, from |-> listener[t].from,
                                      event |-> listener[t].event]]
    /\ \A t \in Request : listener[t].from \in Nat
    /\ outcome = [t \in Request |-> outcome[t]]

(* Who creates or sends a bundle is the holder of the mutex. *)
Exclusive ==
    \A c \in Caller : stage[c] \in {"create", "send"} => HoldsBundle(c)

(* What a bundle was checked for stays so until it is sent, unless an       *)
(* operation is overtaken; and nothing comes to the node meanwhile.         *)
StillValid ==
    \A c \in Caller :
        stage[c] = "send" =>
           /\ \A op \in bundle[c] : Valid(op) \/ Overtaken(op)
           /\ inFlight \subseteq waited

(* A request carries the operation of its draft, which is final. *)
DraftIsSent ==
    \A t \in Request :
        IF draft[t].pc = "sent" THEN stage[t] # "idle" /\ params[t] = UserOp(t)
        ELSE stage[t] = "idle"

PhantomUndeployed == \A a \in Account : isPhantom[a] \/ Deployed(a)

(* A listener holds, and reports, an event of its own operation. *)
ListenerIsTrue(t) ==
    /\ listener[t].at = "none" => listener[t].event = {} /\ outcome[t] = "none"
    /\ listener[t].at # "none" => draft[t].pc = "sent"
    /\ \A e \in listener[t].event :
          e \in Events /\ e.op = UserOp(t) /\ e = [op |-> e.op, result |-> e.result]
    /\ outcome[t] \in Results => [op |-> UserOp(t), result |-> outcome[t]] \in Events
    /\ listener[t].at = "deployed?" => Deployed(SenderOf[t])
    /\ listener[t].at = "returned" => ~ isPhantom[SenderOf[t]]

EventsAreRecords == \A e \in Events : e = [op |-> e.op, result |-> e.result]

(* What concerns the service, and what concerns its clients too. *)
ServiceInv ==
    /\ Shapes /\ EventsAreRecords
    /\ Exclusive /\ StillValid /\ NoSelfInflictedCrash
    /\ DraftIsSent

SdkInv ==
    /\ ServiceInv
    /\ PhantomUndeployed
    /\ \A t \in Request : ListenerIsTrue(t)

---------------------------------------------------------------------------
(* The chain and the queue.                                                *)

(* A block adds its events. *)
LEMMA BlockAddsEvents ==
    ASSUME Shapes, NEW B, chain' = Append(chain, B)
    PROVE  /\ \E S : chain' \in Seq(S)
           /\ Events' = Events \cup B
<1>1. PICK S : chain \in Seq(S)
  BY DEF Shapes
<1>2. chain \in Seq(S \cup {B})
  BY <1>1
<1>3. chain' \in Seq(S \cup {B})
  BY <1>2
<1>4. Events \subseteq Events'
  <2> SUFFICES ASSUME NEW i \in DOMAIN chain, NEW e \in chain[i]
               PROVE  e \in Events'
    BY DEF Events, ToSet
  <2>1. i \in DOMAIN chain' /\ chain'[i] = chain[i]
    BY <1>2
  <2> QED
    BY <2>1 DEF Events, ToSet
<1>5. B \subseteq Events'
  <2>1. Len(chain) + 1 \in DOMAIN chain' /\ chain'[Len(chain) + 1] = B
    BY <1>2
  <2> QED
    BY <2>1 DEF Events, ToSet
<1>6. Events' \subseteq Events \cup B
  <2> SUFFICES ASSUME NEW i \in DOMAIN chain', NEW e \in chain'[i]
               PROVE  e \in Events \cup B
    BY DEF Events, ToSet
  <2>1. (i \in DOMAIN chain /\ chain'[i] = chain[i]) \/ chain'[i] = B
    BY <1>2
  <2> QED
    BY <2>1 DEF Events, ToSet
<1> QED
  BY <1>3, <1>4, <1>5, <1>6

(* A mined block adds the events of its operations. *)
LEMMA MineAddsEvents ==
    ASSUME Shapes, NEW ops, NEW results, Mine(ops, results)
    PROVE  /\ \E S : chain' \in Seq(S)
           /\ Events \subseteq Events'
           /\ Included' = Included \cup ops
           /\ EventsAreRecords => EventsAreRecords'
<1>1. PICK result \in [ops -> results] :
         chain' = Append(chain, {[op |-> op, result |-> result[op]] : op \in ops})
  BY DEF Mine
<1> DEFINE B == {[op |-> op, result |-> result[op]] : op \in ops}
<1>2. (\E S : chain' \in Seq(S)) /\ Events' = Events \cup B
  BY <1>1, BlockAddsEvents
<1>3. {e.op : e \in B} = ops
  <2>1. \A op \in ops : [op |-> op, result |-> result[op]].op = op
    OBVIOUS
  <2>2. \A op \in ops : [op |-> op, result |-> result[op]] \in B
    OBVIOUS
  <2>3. \A op \in ops : op \in {e.op : e \in B}
    BY <2>1, <2>2
  <2>4. \A e \in B : e.op \in ops
    BY <2>1
  <2> QED
    BY <2>3, <2>4
<1>4. \A e \in B : e = [op |-> e.op, result |-> e.result]
  OBVIOUS
<1>5. Included' = Included \cup ops
  BY <1>2, <1>3 DEF Included
<1>6. EventsAreRecords => EventsAreRecords'
  BY <1>2, <1>4 DEF EventsAreRecords
<1> QED
  BY <1>2, <1>5, <1>6

(* Who releases or asks for a mutex does not disturb its holder. *)
LEMMA HolderStays ==
    ASSUME NEW S, NEW queue \in Seq(S), NEW c, NEW d, Holds(queue, c), c # d, NEW result
    PROVE  /\ Holds(Released(queue, d, result), c)
           /\ Holds(Append(queue, d), c)
<1>1. Released(queue, d, result) = queue
  BY DEF Released, Holds
<1>2. Append(queue, d) # <<>> /\ Head(Append(queue, d)) = Head(queue)
  BY HeadTailAppend DEF Holds
<1> QED
  BY <1>1, <1>2 DEF Holds

(* A queue remains one. *)
LEMMA QueueStays ==
    ASSUME Shapes, NEW c, NEW result
    PROVE  /\ \E S : Released(bundleQueue, c, result) \in Seq(S)
           /\ \E S : Append(bundleQueue, c) \in Seq(S)
<1>1. PICK S : bundleQueue \in Seq(S)
  BY DEF Shapes
<1>2. bundleQueue \in Seq(S \cup {c})
  BY <1>1
<1>3. Append(bundleQueue, c) \in Seq(S \cup {c})
  BY <1>2
<1>4. Released(bundleQueue, c, result) \in Seq(S)
  BY <1>1, HeadTailProperties DEF Released, Holds
<1> QED
  BY <1>3, <1>4

---------------------------------------------------------------------------
(* One caller moves on.                                                    *)

QueueOf(c) ==
    \/ bundleQueue' = bundleQueue
    \/ bundleQueue' = Append(bundleQueue, c)
    \/ \E result : bundleQueue' = Released(bundleQueue, c, result)

(* A caller c that goes on to s, with a bundle b, leaves the chain alone;   *)
(* the holder of the mutex may hand its bundle to the node.                 *)
Moves(c, s, b) ==
    /\ stage' = [stage EXCEPT ![c] = s]
    /\ bundle' = [bundle EXCEPT ![c] = b]
    /\ params' = params
    /\ s # "idle"
    /\ c \in Request => stage[c] # "idle"
    /\ QueueOf(c)
    /\ s \in {"create", "send"} => HoldsBundle(c) /\ bundleQueue' = bundleQueue
    /\ chain' = chain
    /\ waited \subseteq waited'
    /\ inFlight' = inFlight \/ (stage[c] = "send" /\ HoldsBundle(c) /\ s # "send")
    /\ s = "send" => (\A op \in b : Valid(op)) /\ inFlight \subseteq waited' /\ inFlight' = inFlight
    /\ \A op \in crashed' : op \in crashed \/ Overtaken(op)

(* While the chain is as it is, what is overtaken remains so. *)
LEMMA SameChain ==
    ASSUME chain' = chain
    PROVE  /\ Events' = Events /\ Included' = Included
           /\ \A op : Valid(op)' = Valid(op)
           /\ waited \subseteq waited' => \A op : Overtaken(op) => Overtaken(op)'
           /\ waited' = waited => \A op : Overtaken(op)' = Overtaken(op)
<1>1. Events' = Events /\ Included' = Included
  BY DEF Events, Included
<1>2. \A op : Valid(op)' = Valid(op)
  BY <1>1 DEF Valid, NonceOf, Deployed
<1> QED
  BY <1>1, <1>2 DEF Overtaken

LEMMA MoveKeepsExclusive ==
    ASSUME Shapes, Exclusive, NEW c \in Caller, NEW s, NEW b, Moves(c, s, b)
    PROVE  Exclusive'
<1> SUFFICES ASSUME NEW d \in Caller, stage'[d] \in {"create", "send"}
             PROVE  Holds(bundleQueue', d)
  BY DEF Exclusive, HoldsBundle
<1>1. CASE d = c
  <2>1. s \in {"create", "send"}
    BY <1>1 DEF Moves, Shapes
  <2> QED
    BY <1>1, <2>1 DEF Moves, HoldsBundle
<1>2. CASE d # c
  <2>1. Holds(bundleQueue, d)
    BY <1>2 DEF Moves, Shapes, Exclusive, HoldsBundle
  <2>2. PICK S : bundleQueue \in Seq(S)
    BY DEF Shapes
  <2>3. Holds(Append(bundleQueue, c), d)
    BY <1>2, <2>1, <2>2, HolderStays
  <2>4. ASSUME NEW result PROVE Holds(Released(bundleQueue, c, result), d)
    BY <1>2, <2>1, <2>2, HolderStays
  <2> QED
    BY <2>1, <2>3, <2>4 DEF Moves, QueueOf
<1> QED
  BY <1>1, <1>2

LEMMA MoveKeepsStillValid ==
    ASSUME Shapes, Exclusive, StillValid, NEW c \in Caller, NEW s, NEW b, Moves(c, s, b)
    PROVE  StillValid'
<1> SUFFICES ASSUME NEW d \in Caller, stage'[d] = "send"
             PROVE  ((\A op \in bundle[d] : Valid(op) \/ Overtaken(op)) /\ inFlight \subseteq waited)'
  BY DEF StillValid
<1>1. /\ \A op : Valid(op)' = Valid(op)
      /\ \A op : Overtaken(op) => Overtaken(op)'
  BY SameChain DEF Moves
<1>2. CASE d = c
  <2>1. s = "send" /\ bundle'[d] = b
    BY <1>2 DEF Moves, Shapes
  <2> QED
    BY <1>1, <2>1 DEF Moves
<1>3. CASE d # c
  <2>1. stage[d] = "send" /\ bundle'[d] = bundle[d]
    BY <1>3 DEF Moves, Shapes
  <2>2. ~ (stage[c] = "send" /\ HoldsBundle(c))
    BY <1>3, <2>1 DEF Exclusive, HoldsBundle, Holds
  <2>3. inFlight' = inFlight /\ waited \subseteq waited'
    BY <2>2 DEF Moves
  <2> QED
    BY <1>1, <2>1, <2>3 DEF StillValid
<1> QED
  BY <1>2, <1>3

(* A move of a caller keeps the invariant of the service. *)
LEMMA MoveKeepsServiceInv ==
    ASSUME ServiceInv, NEW c \in Caller, NEW s, NEW b, Moves(c, s, b), UNCHANGED sdkVars
    PROVE  ServiceInv' /\ Events \subseteq Events'
<1>1. Shapes /\ EventsAreRecords /\ Exclusive /\ StillValid /\ DraftIsSent
  BY DEF ServiceInv
<1>2. /\ \E S : chain' \in Seq(S)
      /\ Events \subseteq Events'
      /\ EventsAreRecords'
  BY <1>1, SameChain DEF Moves, Shapes, EventsAreRecords
<1>3. Shapes'
  <2>1. \E S : bundleQueue' \in Seq(S)
    <3>1. CASE bundleQueue' = bundleQueue
      BY <1>1, <3>1 DEF Shapes
    <3>2. CASE bundleQueue' = Append(bundleQueue, c)
      BY <1>1, <3>2, QueueStays
    <3>3. ASSUME NEW result, bundleQueue' = Released(bundleQueue, c, result)
          PROVE  \E S : bundleQueue' \in Seq(S)
      BY <1>1, <3>3, QueueStays
    <3> QED
      BY <3>1, <3>2, <3>3 DEF Moves, QueueOf
  <2>2. /\ params' = [r \in Request |-> params'[r]]
        /\ stage' = [d \in Caller |-> stage'[d]]
        /\ bundle' = [d \in Caller |-> bundle'[d]]
    BY <1>1 DEF Shapes, Moves
  <2> QED
    BY <1>1, <1>2, <2>1, <2>2 DEF Shapes, sdkVars
<1>4. NoSelfInflictedCrash'
  <2>1. \A op : Overtaken(op) => Overtaken(op)'
    BY SameChain DEF Moves
  <2> QED
    BY <2>1 DEF Moves, ServiceInv, NoSelfInflictedCrash
<1>5. DraftIsSent'
  <2> SUFFICES ASSUME NEW t \in Request
               PROVE  IF draft[t].pc = "sent" THEN stage'[t] # "idle" /\ params'[t] = UserOp(t)
                      ELSE stage'[t] = "idle"
    BY DEF DraftIsSent, sdkVars, UserOp
  <2>1. t \in Caller /\ stage'[t] = IF t = c THEN s ELSE stage[t]
    BY <1>1 DEF Moves, Shapes, Caller
  <2> QED
    BY <1>1, <2>1 DEF Moves, DraftIsSent
<1> QED
  BY <1>1, <1>2, <1>3, <1>4, <1>5, MoveKeepsExclusive, MoveKeepsStillValid
     DEF ServiceInv

---------------------------------------------------------------------------
(* The steps of the service.                                               *)

(* Every step of a caller at an await is a move. *)
LEMMA RequestMoves ==
    ASSUME ServiceInv, NEW r \in Request,
           Validated(r) \/ ValidationFailed(r) \/ PoolUserOp(r) \/ ReplacementRefused(r)
    PROVE  \E s, b : Moves(r, s, b)
<1>1. Shapes /\ r \in Caller
  BY DEF ServiceInv, Caller
<1>2. bundle = [bundle EXCEPT ![r] = bundle[r]]
  BY <1>1 DEF Shapes
<1>3. CASE Validated(r)
  BY <1>1, <1>2, <1>3 DEF Validated, Moves, QueueOf, nodeVars
<1>4. CASE ValidationFailed(r)
  BY <1>1, <1>2, <1>4 DEF ValidationFailed, Refuse, Moves, QueueOf, nodeVars
<1>5. CASE PoolUserOp(r)
  <2>1. \E s \in {"scan", "done"} : stage' = [stage EXCEPT ![r] = s]
    BY <1>5 DEF PoolUserOp, End
  <2>2. QueueOf(r)
    BY <1>5 DEF PoolUserOp, QueueOf
  <2> QED
    BY <1>1, <1>2, <1>5, <2>1, <2>2 DEF PoolUserOp, Moves, nodeVars
<1>6. CASE ReplacementRefused(r)
  BY <1>1, <1>2, <1>6 DEF ReplacementRefused, Refuse, Moves, QueueOf, nodeVars
<1> QED
  BY <1>3, <1>4, <1>5, <1>6

(* Leaving the mutex with nothing more to send. *)
LEMMA LeavingMoves ==
    ASSUME ServiceInv, NEW c \in Caller, stage[c] \in {"create", "send"}, LeaveBundle(c),
           params' = params, chain' = chain, waited \subseteq waited',
           inFlight' = inFlight \/ (stage[c] = "send" /\ HoldsBundle(c)),
           \A op \in crashed' : op \in crashed \/ Overtaken(op)
    PROVE  \E s, b : Moves(c, s, b)
<1>1. \E s \in {"flush", "done"} : stage' = [stage EXCEPT ![c] = s]
  BY DEF LeaveBundle, End
<1>2. bundle' = [bundle EXCEPT ![c] = {}] /\ QueueOf(c)
  BY DEF LeaveBundle, QueueOf
<1>3. PICK s \in {"flush", "done"} : stage' = [stage EXCEPT ![c] = s]
  BY <1>1
<1>4. Moves(c, s, {})
  BY <1>2, <1>3 DEF Moves
<1> QED
  BY <1>4

LEMMA AttemptMoves ==
    ASSUME ServiceInv, NEW c \in Caller, Attempt(c)
    PROVE  \E s, b : Moves(c, s, b)
<1>1. Shapes /\ StillValid
  BY DEF ServiceInv
<1>2. bundle = [bundle EXCEPT ![c] = bundle[c]]
  BY <1>1 DEF Shapes
<1>3. CASE ScanEvents(c)
  BY <1>1, <1>2, <1>3 DEF ScanEvents, Moves, QueueOf, nodeVars
<1>4. CASE CreateBundle(c)
  <2>1. PICK ops \in SUBSET {op \in pool : Valid(op)} :
           /\ waited' = waited \cup inFlight
           /\ IF ops = {} THEN LeaveBundle(c)
              ELSE /\ bundle' = [bundle EXCEPT ![c] = ops]
                   /\ stage' = [stage EXCEPT ![c] = "send"]
                   /\ UNCHANGED <<bundleQueue, execQueue, answer>>
    BY <1>4 DEF CreateBundle
  <2>2. UNCHANGED <<chain, params, inFlight, crashed>> /\ stage[c] = "create" /\ HoldsBundle(c)
    BY <1>4 DEF CreateBundle
  <2>3. CASE ops = {}
    BY <1>1, <2>1, <2>2, <2>3, LeavingMoves
  <2>4. CASE ops # {}
    <3>1. Moves(c, "send", ops)
      BY <1>1, <2>1, <2>2, <2>4 DEF Moves, QueueOf
    <3> QED
      BY <3>1
  <2> QED
    BY <2>3, <2>4
<1>5. CASE SendBundle(c)
  <2>1. \A op \in crashed' : op \in crashed \/ Overtaken(op)
    BY <1>1, <1>5 DEF SendBundle, StillValid
  <2>2. UNCHANGED <<chain, params, waited>> /\ stage[c] = "send" /\ HoldsBundle(c) /\ LeaveBundle(c)
    BY <1>5 DEF SendBundle
  <2> QED
    BY <2>1, <2>2, LeavingMoves
<1>6. CASE Flush(c)
  BY <1>1, <1>2, <1>6 DEF Flush, End, Moves, QueueOf, nodeVars
<1>7. CASE AttemptFails(c)
  <2>1. stage' = [stage EXCEPT ![c] = "done"] /\ bundle' = [bundle EXCEPT ![c] = {}]
    BY <1>7 DEF AttemptFails, End
  <2>2. QueueOf(c)
    BY <1>7 DEF AttemptFails, QueueOf
  <2>3. stage[c] # "idle"
    BY <1>7 DEF AttemptFails
  <2> QED
    BY <1>1, <1>7, <2>1, <2>2, <2>3 DEF AttemptFails, Moves, nodeVars
<1> QED
  BY <1>3, <1>4, <1>5, <1>6, <1>7 DEF Attempt

LEMMA ForceMoves ==
    ASSUME ServiceInv, NEW c \in Ticks \cup BundleNow, c \notin Request, ForceBundle(c)
    PROVE  Moves(c, "scan", bundle[c])
<1>1. Shapes /\ c \in Caller
  BY DEF ServiceInv, Caller
<1>2. bundle = [bundle EXCEPT ![c] = bundle[c]]
  BY <1>1 DEF Shapes
<1> QED
  BY <1>1, <1>2 DEF ForceBundle, Moves, QueueOf, nodeVars

(* The nonces of an account go up by its operations in the block: a valid   *)
(* operation stays so, or one with its nonce was mined.                     *)
LEMMA MinedOrValid ==
    ASSUME Shapes, NEW ops, NEW results, Mine(ops, results), \A o \in ops : Valid(o),
           NEW op, Valid(op)
    PROVE  Valid(op)' \/ \E o \in ops : o.sender = op.sender /\ o.nonce = op.nonce
<1>1. Included' = Included \cup ops
  BY MineAddsEvents
<1>2. CASE \E o \in ops : o.sender = op.sender
  BY <1>2 DEF Valid
<1>3. CASE \A o \in ops : o.sender # op.sender
  <2>1. {o \in Included' : o.sender = op.sender} = {o \in Included : o.sender = op.sender}
    BY <1>1, <1>3
  <2>2. NonceOf(op.sender)' = NonceOf(op.sender) /\ Deployed(op.sender)' = Deployed(op.sender)
    BY <1>1, <1>3, <2>1 DEF NonceOf, Deployed
  <2> QED
    BY <2>2 DEF Valid
<1> QED
  BY <1>2, <1>3

(* A block of valid operations that are another client's, or were in flight *)
(* when the bundle that is about to be sent was built.                      *)
LEMMA BlockKeepsServiceInv ==
    ASSUME ServiceInv, NEW ops, NEW results, Mine(ops, results), \A o \in ops : Valid(o),
           (\A o \in ops : o.call = Foreign) \/ ops \subseteq inFlight,
           UNCHANGED <<params, bundleQueue, stage, bundle, crashed, waited>>,
           inFlight' \subseteq inFlight, UNCHANGED sdkVars
    PROVE  ServiceInv' /\ Events \subseteq Events'
<1>1. Shapes
  BY DEF ServiceInv
<1>2. /\ \E S : chain' \in Seq(S)
      /\ Events \subseteq Events'
      /\ Included' = Included \cup ops
      /\ EventsAreRecords => EventsAreRecords'
  BY <1>1, MineAddsEvents
<1>3. Shapes'
  BY <1>1, <1>2 DEF Shapes, sdkVars
<1>4. Exclusive'
  BY DEF ServiceInv, Exclusive, HoldsBundle
<1>5. \A op : Overtaken(op) => Overtaken(op)'
  BY <1>2 DEF Overtaken
<1>6. StillValid'
  <2> SUFFICES ASSUME NEW c \in Caller, stage[c] = "send"
               PROVE  /\ \A op \in bundle[c] : Valid(op)' \/ Overtaken(op)'
                      /\ inFlight' \subseteq waited'
    BY DEF StillValid
  <2>1. inFlight \subseteq waited /\ \A op \in bundle[c] : Valid(op) \/ Overtaken(op)
    BY DEF ServiceInv, StillValid
  <2>2. \A o \in ops : o \in Included' /\ (o.call = Foreign \/ o \in waited')
    BY <1>2, <2>1
  <2>3. ASSUME NEW op \in bundle[c] PROVE Valid(op)' \/ Overtaken(op)'
    <3>1. CASE Overtaken(op)
      BY <1>5, <3>1
    <3>2. CASE Valid(op)
      <4>1. Valid(op)' \/ \E o \in ops : o.sender = op.sender /\ o.nonce = op.nonce
        BY <1>1, <3>2, MinedOrValid
      <4> QED
        BY <2>2, <4>1 DEF Overtaken
    <3> QED
      BY <2>1, <3>1, <3>2
  <2> QED
    BY <2>1, <2>3
<1>7. NoSelfInflictedCrash'
  BY <1>5 DEF ServiceInv, NoSelfInflictedCrash
<1>8. DraftIsSent'
  BY DEF ServiceInv, DraftIsSent, sdkVars, UserOp
<1> QED
  BY <1>2, <1>3, <1>4, <1>6, <1>7, <1>8 DEF ServiceInv

LEMMA MiningKeepsServiceInv ==
    ASSUME ServiceInv, MineElsewhere \/ MineInFlight, UNCHANGED sdkVars
    PROVE  ServiceInv' /\ Events \subseteq Events'
<1>1. /\ UNCHANGED <<params, bundleQueue, stage, bundle, crashed, waited>>
      /\ inFlight' \subseteq inFlight
  BY DEF MineElsewhere, MineInFlight, nodeVars
<1>2. \E ops, results :
         /\ Mine(ops, results)
         /\ \A o \in ops : Valid(o)
         /\ (\A o \in ops : o.call = Foreign) \/ ops \subseteq inFlight
  <2>1. CASE Mine({}, {})
    BY <2>1
  <2>2. ASSUME NEW a,
               Mine({[sender |-> a, nonce |-> NonceOf(a), initCode |-> ~ Deployed(a), call |-> Foreign]},
                    {"success"})
        PROVE  \E ops, results :
                  /\ Mine(ops, results)
                  /\ \A o \in ops : Valid(o)
                  /\ (\A o \in ops : o.call = Foreign) \/ ops \subseteq inFlight
    <3> DEFINE o == [sender |-> a, nonce |-> NonceOf(a), initCode |-> ~ Deployed(a), call |-> Foreign]
    <3>1. o.sender = a /\ o.nonce = NonceOf(a) /\ o.initCode = ~ Deployed(a) /\ o.call = Foreign
      OBVIOUS
    <3>2. Mine({o}, {"success"})
      BY <2>2
    <3> HIDE DEF o
    <3>3. Valid(o)
      BY <3>1 DEF Valid
    <3> QED
      BY <3>1, <3>2, <3>3
  <2>3. CASE (\A o \in inFlight : Valid(o)) /\ Mine(inFlight, Results)
    BY <2>3
  <2> QED
    BY <2>1, <2>2, <2>3 DEF MineElsewhere, MineInFlight
<1> QED
  BY <1>1, <1>2, BlockKeepsServiceInv

(* The debug calls that are no attempts. *)
LEMMA DebugKeepsServiceInv ==
    ASSUME ServiceInv, ClearState \/ (\E m \in Modes : SetBundleInterval(m)), UNCHANGED sdkVars
    PROVE  ServiceInv' /\ Events \subseteq Events'
<1>1. UNCHANGED <<chain, params, bundleQueue, stage, bundle, inFlight, crashed, waited>>
  BY DEF ClearState, SetBundleInterval, nodeVars
<1>2. /\ Events' = Events /\ Included' = Included
      /\ \A op : Valid(op)' = Valid(op) /\ Overtaken(op)' = Overtaken(op)
  BY <1>1, SameChain
<1>3. Shapes' /\ EventsAreRecords' /\ Exclusive' /\ NoSelfInflictedCrash' /\ DraftIsSent'
  BY <1>1, <1>2 DEF ServiceInv, Shapes, EventsAreRecords, Exclusive, HoldsBundle,
     NoSelfInflictedCrash, DraftIsSent, UserOp, sdkVars
<1>4. StillValid'
  BY <1>1, <1>2 DEF ServiceInv, StillValid
<1> QED
  BY <1>2, <1>3, <1>4 DEF ServiceInv

(* Every step of the service. *)
LEMMA ServiceStep ==
    ASSUME ServiceInv, ExecStep, UNCHANGED sdkVars
    PROVE  ServiceInv' /\ Events \subseteq Events'
<1>1. ASSUME NEW r \in Request,
             Validated(r) \/ ValidationFailed(r) \/ PoolUserOp(r) \/ ReplacementRefused(r)
      PROVE  ServiceInv' /\ Events \subseteq Events'
  BY <1>1, RequestMoves, MoveKeepsServiceInv DEF Caller
<1>2. ASSUME NEW c \in Caller, Attempt(c)
      PROVE  ServiceInv' /\ Events \subseteq Events'
  BY <1>2, AttemptMoves, MoveKeepsServiceInv
<1>3. ASSUME NEW c \in Ticks \cup BundleNow, ForceBundle(c)
      PROVE  ServiceInv' /\ Events \subseteq Events'
  BY <1>3, ExecutionAssumption, ForceMoves, MoveKeepsServiceInv DEF Caller
<1> QED
  BY <1>1, <1>2, <1>3, MiningKeepsServiceInv, DebugKeepsServiceInv DEF ExecStep, Serve

---------------------------------------------------------------------------
(* The clients.                                                            *)

(* Whatever the service does, what a client knows stays true. *)
LEMMA ClientsAreRight ==
    ASSUME PhantomUndeployed, \A t \in Request : ListenerIsTrue(t),
           Events \subseteq Events', UNCHANGED sdkVars
    PROVE  PhantomUndeployed' /\ \A t \in Request : ListenerIsTrue(t)'
<1>1. \A a : Deployed(a) => Deployed(a)'
  BY DEF Deployed, Included
<1>2. PhantomUndeployed'
  BY <1>1 DEF PhantomUndeployed, sdkVars
<1>3. \A t : UserOp(t)' = UserOp(t)
  BY DEF UserOp, sdkVars
<1> QED
  BY <1>1, <1>2, <1>3 DEF ListenerIsTrue, sdkVars

(* A step of transaction t that leaves the service alone, and the drafts    *)
(* that were sent.                                                          *)
ClientMoves(t) ==
    /\ UNCHANGED execVars
    /\ Shapes'
    /\ PhantomUndeployed'
    /\ \A a \in Account : ~ isPhantom[a] => ~ isPhantom'[a]
    /\ draft[t].pc # "sent" \/ draft' = draft
    /\ draft'[t].pc = "sent" => draft' = draft
    /\ \A u \in Request : u # t => draft'[u] = draft[u] /\ listener'[u] = listener[u]
                                 /\ outcome'[u] = outcome[u]

LEMMA ClientMovesKeepInv ==
    ASSUME SdkInv, NEW t \in Request, ClientMoves(t), ListenerIsTrue(t)'
    PROVE  SdkInv'
<1>1. UNCHANGED execVars
  BY DEF ClientMoves
<1>2. /\ Events' = Events /\ Included' = Included
      /\ \A op : Valid(op)' = Valid(op) /\ Overtaken(op)' = Overtaken(op)
  BY <1>1, SameChain DEF execVars
<1>3. EventsAreRecords' /\ Exclusive' /\ StillValid' /\ NoSelfInflictedCrash'
  BY <1>1, <1>2 DEF SdkInv, ServiceInv, EventsAreRecords, Exclusive, HoldsBundle, StillValid,
     NoSelfInflictedCrash, execVars
<1>4. DraftIsSent'
  BY DEF SdkInv, ServiceInv, DraftIsSent, UserOp, ClientMoves, execVars
<1>5. ASSUME NEW u \in Request, u # t PROVE ListenerIsTrue(u)'
  <2>1. UserOp(u)' = UserOp(u)
    BY <1>5 DEF UserOp, ClientMoves
  <2>2. Deployed(SenderOf[u])' = Deployed(SenderOf[u]) /\ SenderOf[u] \in Account
    BY <1>2, SdkAssumption DEF Deployed
  <2> QED
    BY <1>2, <1>5, <2>1, <2>2 DEF SdkInv, ListenerIsTrue, ClientMoves
<1> QED
  BY <1>3, <1>4, <1>5 DEF SdkInv, ServiceInv, ClientMoves

(* The check of the flag. *)
LEMMA CheckIsRight ==
    ASSUME SdkInv, NEW a \in Account, CheckAccountPhantom(a), UNCHANGED execVars
    PROVE  /\ isPhantom' \in [Account -> BOOLEAN]
           /\ PhantomUndeployed'
           /\ \A b \in Account : ~ isPhantom[b] => ~ isPhantom'[b]
           /\ Deployed(a) => ~ isPhantom'[a]
<1>1. isPhantom \in [Account -> BOOLEAN] /\ PhantomUndeployed
  BY DEF SdkInv, ServiceInv, Shapes
<1>2. \A b \in Account : isPhantom'[b] = IF b = a THEN isPhantom[a] /\ ~ Deployed(a) ELSE isPhantom[b]
  BY <1>1 DEF CheckAccountPhantom
<1>3. \A b : Deployed(b)' = Deployed(b)
  BY DEF Deployed, Included, Events, execVars
<1>4. isPhantom' \in [Account -> BOOLEAN]
  BY <1>1 DEF CheckAccountPhantom
<1> QED
  BY <1>1, <1>2, <1>3, <1>4 DEF PhantomUndeployed

(* One draft is written, the others are not. *)
Redrafts(t, pc, initCode, nonce) ==
    draft' = [draft EXCEPT ![t] = [pc |-> pc, initCode |-> initCode, nonce |-> nonce]]

LEMMA RedraftedShape ==
    ASSUME Shapes, NEW t \in Request, NEW pc, NEW i, NEW n, Redrafts(t, pc, i, n)
    PROVE  /\ draft' = [u \in Request |-> [pc |-> draft'[u].pc, initCode |-> draft'[u].initCode,
                                           nonce |-> draft'[u].nonce]]
           /\ draft'[t] = [pc |-> pc, initCode |-> i, nonce |-> n]
           /\ \A u \in Request : u # t => draft'[u] = draft[u]
<1>1. DOMAIN draft = Request
  BY DEF Shapes
<1>2. draft'[t] = [pc |-> pc, initCode |-> i, nonce |-> n]
  BY <1>1 DEF Redrafts
<1>3. \A u \in Request : u # t => draft'[u] = draft[u]
  BY <1>1 DEF Redrafts
<1>4. \A u \in Request : draft[u] = [pc |-> draft[u].pc, initCode |-> draft[u].initCode,
                                     nonce |-> draft[u].nonce]
  BY DEF Shapes
<1>5. draft' = [u \in Request |-> draft'[u]]
  BY <1>1 DEF Redrafts
<1>6. \A u \in Request : draft'[u] = [pc |-> draft'[u].pc, initCode |-> draft'[u].initCode,
                                      nonce |-> draft'[u].nonce]
  BY <1>2, <1>3, <1>4
<1> QED
  BY <1>2, <1>3, <1>5, <1>6

(* An update of some fields writes the record. *)
LEMMA UpdatesRedraft ==
    ASSUME Shapes, NEW t \in Request, NEW pc, NEW x
    PROVE  /\ draft' = [draft EXCEPT ![t].pc = pc]
              => Redrafts(t, pc, draft[t].initCode, draft[t].nonce)
           /\ draft' = [draft EXCEPT ![t].pc = pc, ![t].initCode = x]
              => Redrafts(t, pc, x, draft[t].nonce)
           /\ draft' = [draft EXCEPT ![t].pc = pc, ![t].nonce = x]
              => Redrafts(t, pc, draft[t].initCode, x)
<1>1. draft = [u \in Request |-> draft[u]]
  BY DEF Shapes
<1>2. draft[t] = [pc |-> draft[t].pc, initCode |-> draft[t].initCode, nonce |-> draft[t].nonce]
  BY DEF Shapes
<1> DEFINE d == draft[t]
<1>3. [d EXCEPT !.pc = pc] = [pc |-> pc, initCode |-> d.initCode, nonce |-> d.nonce]
  BY <1>2
<1>4. [[d EXCEPT !.pc = pc] EXCEPT !.initCode = x] = [pc |-> pc, initCode |-> x, nonce |-> d.nonce]
  <2>1. \A i, n : [[pc |-> pc, initCode |-> i, nonce |-> n] EXCEPT !.initCode = x]
                  = [pc |-> pc, initCode |-> x, nonce |-> n]
    OBVIOUS
  <2>2. [[pc |-> pc, initCode |-> d.initCode, nonce |-> d.nonce] EXCEPT !.initCode = x]
           = [pc |-> pc, initCode |-> x, nonce |-> d.nonce]
    BY <2>1
  <2> QED
    BY <1>3, <2>2, Zenon
<1>5. [[d EXCEPT !.pc = pc] EXCEPT !.nonce = x] = [pc |-> pc, initCode |-> d.initCode, nonce |-> x]
  <2>1. \A i, n : [[pc |-> pc, initCode |-> i, nonce |-> n] EXCEPT !.nonce = x]
                  = [pc |-> pc, initCode |-> i, nonce |-> x]
    OBVIOUS
  <2>2. [[pc |-> pc, initCode |-> d.initCode, nonce |-> d.nonce] EXCEPT !.nonce = x]
           = [pc |-> pc, initCode |-> d.initCode, nonce |-> x]
    BY <2>1
  <2> QED
    BY <1>3, <2>2, Zenon
<1> HIDE DEF d
<1> QED
  BY <1>1, <1>3, <1>4, <1>5 DEF Redrafts, d

(* Building the operation. *)
LEMMA DraftingKeepsInv ==
    ASSUME SdkInv, NEW t \in Request, GetInitCode(t) \/ GetNonce(t) \/ ReadNonce(t)
    PROVE  SdkInv'
<1>1. Shapes /\ PhantomUndeployed /\ ListenerIsTrue(t) /\ SenderOf[t] \in Account
  BY SdkAssumption DEF SdkInv, ServiceInv
<1>2. UNCHANGED <<execVars, listener, outcome>> /\ draft[t].pc # "sent"
  BY DEF GetInitCode, GetNonce, ReadNonce
<1>3. /\ draft' = [u \in Request |-> [pc |-> draft'[u].pc, initCode |-> draft'[u].initCode,
                                      nonce |-> draft'[u].nonce]]
      /\ draft'[t].pc # "sent"
      /\ \A u \in Request : u # t => draft'[u] = draft[u]
  <2>1. \E pc \in {"nonce", "account", "send"} : \E i, n : Redrafts(t, pc, i, n)
    <3>1. CASE GetInitCode(t)
      BY <1>1, <3>1, UpdatesRedraft DEF GetInitCode
    <3>2. CASE GetNonce(t)
      BY <1>1, <3>2, UpdatesRedraft DEF GetNonce
    <3>3. CASE ReadNonce(t)
      BY <1>1, <3>3, UpdatesRedraft DEF ReadNonce
    <3> QED
      BY <3>1, <3>2, <3>3
  <2>2. PICK pc \in {"nonce", "account", "send"} : \E i, n : Redrafts(t, pc, i, n)
    BY <2>1
  <2>3. PICK i, n : Redrafts(t, pc, i, n)
    BY <2>2
  <2>4. /\ draft' = [u \in Request |-> [pc |-> draft'[u].pc, initCode |-> draft'[u].initCode,
                                        nonce |-> draft'[u].nonce]]
        /\ draft'[t] = [pc |-> pc, initCode |-> i, nonce |-> n]
        /\ \A u \in Request : u # t => draft'[u] = draft[u]
    BY <1>1, <2>3, RedraftedShape
  <2>5. draft'[t].pc # "sent"
    BY <2>4
  <2> QED
    BY <2>4, <2>5
<1>4. /\ isPhantom' \in [Account -> BOOLEAN]
      /\ PhantomUndeployed'
      /\ \A a \in Account : ~ isPhantom[a] => ~ isPhantom'[a]
  <2>1. CASE CheckAccountPhantom(SenderOf[t])
    BY <1>1, <1>2, <2>1, CheckIsRight
  <2>2. CASE isPhantom' = isPhantom
    <3>1. \A a : Deployed(a)' = Deployed(a)
      BY <1>2 DEF Deployed, Included, Events, execVars
    <3> QED
      BY <1>1, <2>2, <3>1 DEF Shapes, PhantomUndeployed
  <2> QED
    BY <2>1, <2>2 DEF GetInitCode, GetNonce, ReadNonce
<1>5. Shapes'
  BY <1>1, <1>2, <1>3, <1>4 DEF Shapes, execVars
<1>6. ListenerIsTrue(t)'
  BY <1>1, <1>2 DEF ListenerIsTrue, Results
<1>7. ClientMoves(t)
  BY <1>2, <1>3, <1>4, <1>5 DEF ClientMoves
<1> QED
  BY <1>6, <1>7, ClientMovesKeepInv

(* The operation goes to the bundler. *)
LEMMA SendingKeepsInv ==
    ASSUME SdkInv, NEW t \in Request, SendUserOpToBundler(t)
    PROVE  SdkInv'
<1>1. Shapes /\ t \in Caller
  BY DEF SdkInv, ServiceInv, Caller
<1>2. /\ stage[t] = "idle" /\ stage' = [stage EXCEPT ![t] = "validate"]
      /\ params' = [params EXCEPT ![t] = UserOp(t)]
      /\ draft' = [draft EXCEPT ![t].pc = "sent"]
      /\ UNCHANGED <<chain, bundleQueue, bundle, inFlight, crashed, waited,
                     isPhantom, listener, outcome>>
  BY DEF SendUserOpToBundler, Arrive, nodeVars
<1>3. /\ Events' = Events /\ Included' = Included
      /\ \A op : Valid(op)' = Valid(op) /\ Overtaken(op)' = Overtaken(op)
  BY <1>2, SameChain
<1>4. Shapes'
  <2>1. draft' = [u \in Request |-> [pc |-> draft'[u].pc, initCode |-> draft'[u].initCode,
                                     nonce |-> draft'[u].nonce]]
    BY <1>1, <1>2, UpdatesRedraft, RedraftedShape
  <2>2. stage' = [c \in Caller |-> stage'[c]] /\ params' = [r \in Request |-> params'[r]]
    BY <1>1, <1>2 DEF Shapes
  <2> QED
    BY <1>1, <1>2, <2>1, <2>2 DEF Shapes
<1>5. \A u \in Request : UserOp(u)' = UserOp(u)
  BY <1>1, <1>2 DEF Shapes, UserOp
<1>6. DraftIsSent'
  <2> SUFFICES ASSUME NEW u \in Request
               PROVE  (IF draft[u].pc = "sent" THEN stage[u] # "idle" /\ params[u] = UserOp(u)
                       ELSE stage[u] = "idle")'
    BY DEF DraftIsSent
  <2>1. u \in Caller
    BY DEF Caller
  <2>2. CASE u = t
    BY <1>1, <1>2, <1>5, <2>1, <2>2 DEF Shapes
  <2>3. CASE u # t
    <3>1. draft'[u] = draft[u] /\ stage'[u] = stage[u] /\ params'[u] = params[u]
      BY <1>1, <1>2, <2>1, <2>3 DEF Shapes
    <3> QED
      BY <1>5, <3>1 DEF SdkInv, ServiceInv, DraftIsSent
  <2> QED
    BY <2>2, <2>3
<1>8. Exclusive' /\ EventsAreRecords' /\ NoSelfInflictedCrash'
  BY <1>1, <1>2, <1>3 DEF SdkInv, ServiceInv, Shapes, Exclusive, HoldsBundle, EventsAreRecords,
     NoSelfInflictedCrash
<1>9. StillValid'
  BY <1>1, <1>2, <1>3 DEF SdkInv, ServiceInv, Shapes, StillValid
<1>10. PhantomUndeployed' /\ \A u \in Request : ListenerIsTrue(u)'
  <2>1. \A a : Deployed(a)' = Deployed(a)
    BY <1>3 DEF Deployed
  <2>2. \A u \in Request : draft[u].pc = "sent" => draft'[u].pc = "sent"
    BY <1>1, <1>2 DEF Shapes
  <2>3. PhantomUndeployed'
    BY <1>2, <2>1 DEF SdkInv, PhantomUndeployed
  <2>4. ASSUME NEW u \in Request PROVE ListenerIsTrue(u)'
    BY <1>2, <1>3, <1>5, <2>1, <2>2 DEF SdkInv, ListenerIsTrue
  <2> QED
    BY <2>3, <2>4
<1> QED
  BY <1>4, <1>6, <1>8, <1>9, <1>10 DEF SdkInv, ServiceInv

---------------------------------------------------------------------------
(* The listener.                                                           *)

(* One listener is written, and one outcome. *)
Relistens(t, at, from, event) ==
    listener' = [listener EXCEPT ![t] = [at |-> at, from |-> from, event |-> event]]

LEMMA RelistenedShape ==
    ASSUME Shapes, NEW t \in Request, NEW at, NEW from \in Nat, NEW event,
           Relistens(t, at, from, event)
    PROVE  /\ listener' = [u \in Request |-> [at |-> listener'[u].at, from |-> listener'[u].from,
                                              event |-> listener'[u].event]]
           /\ \A u \in Request : listener'[u].from \in Nat
           /\ listener'[t] = [at |-> at, from |-> from, event |-> event]
           /\ \A u \in Request : u # t => listener'[u] = listener[u]
<1>1. DOMAIN listener = Request
  BY DEF Shapes
<1>2. listener'[t] = [at |-> at, from |-> from, event |-> event]
  BY <1>1 DEF Relistens
<1>3. \A u \in Request : u # t => listener'[u] = listener[u]
  BY <1>1 DEF Relistens
<1>4. \A u \in Request : /\ listener[u] = [at |-> listener[u].at, from |-> listener[u].from,
                                          event |-> listener[u].event]
                         /\ listener[u].from \in Nat
  BY DEF Shapes
<1>5. listener' = [u \in Request |-> listener'[u]]
  BY <1>1 DEF Relistens
<1>6. listener'[t].from = from
  BY <1>2
<1>7. \A u \in Request : /\ listener'[u] = [at |-> listener'[u].at, from |-> listener'[u].from,
                                           event |-> listener'[u].event]
                         /\ listener'[u].from \in Nat
  BY <1>2, <1>3, <1>4, <1>6
<1> QED
  BY <1>2, <1>3, <1>5, <1>7

(* An update of some fields writes the record. *)
LEMMA UpdatesRelisten ==
    ASSUME Shapes, NEW t \in Request, NEW at, NEW x
    PROVE  /\ listener' = [listener EXCEPT ![t].at = at]
              => Relistens(t, at, listener[t].from, listener[t].event)
           /\ listener' = [listener EXCEPT ![t].at = at, ![t].event = x]
              => Relistens(t, at, listener[t].from, x)
           /\ listener' = [listener EXCEPT ![t] = [listener[t] EXCEPT !.at = at]]
              => Relistens(t, at, listener[t].from, listener[t].event)
           /\ listener' = [listener EXCEPT ![t] = [listener[t] EXCEPT !.from = x]]
              => Relistens(t, listener[t].at, x, listener[t].event)
<1>1. listener = [u \in Request |-> listener[u]]
  BY DEF Shapes
<1>2. listener[t] = [at |-> listener[t].at, from |-> listener[t].from, event |-> listener[t].event]
  BY DEF Shapes
<1> DEFINE l == listener[t]
<1>3. [l EXCEPT !.at = at] = [at |-> at, from |-> l.from, event |-> l.event]
  BY <1>2
<1>4. [[l EXCEPT !.at = at] EXCEPT !.event = x] = [at |-> at, from |-> l.from, event |-> x]
  <2>1. \A f, e : [[at |-> at, from |-> f, event |-> e] EXCEPT !.event = x]
                  = [at |-> at, from |-> f, event |-> x]
    OBVIOUS
  <2>2. [[at |-> at, from |-> l.from, event |-> l.event] EXCEPT !.event = x]
           = [at |-> at, from |-> l.from, event |-> x]
    BY <2>1
  <2> QED
    BY <1>3, <2>2, Zenon
<1>5. [l EXCEPT !.from = x] = [at |-> l.at, from |-> x, event |-> l.event]
  BY <1>2
<1> HIDE DEF l
<1> QED
  BY <1>1, <1>3, <1>4, <1>5 DEF Relistens, l

(* What a listener finds is an event of its operation on the chain. *)
LEMMA FoundIsOwn ==
    ASSUME Shapes, EventsAreRecords, NEW t \in Request, NEW from \in Nat, from > 0,
           NEW e \in EventsFor(t, from)
    PROVE  e \in Events /\ e.op = UserOp(t) /\ e = [op |-> e.op, result |-> e.result]
<1>1. PICK n \in from..Len(chain) : e \in chain[n]
  BY DEF EventsFor
<1>2. n \in DOMAIN chain
  BY <1>1 DEF Shapes
<1>3. e \in Events
  BY <1>1, <1>2 DEF Events, ToSet
<1> QED
  BY <1>3 DEF EventsFor, EventsAreRecords

(* Steps in which the listener is registered, searches, or hears. *)
LEMMA ListeningKeepsInv ==
    ASSUME SdkInv, NEW t \in Request, NEW at, NEW from \in Nat, NEW event,
           Relistens(t, at, from, event),
           at \notin {"none", "deployed?", "returned"}, draft[t].pc = "sent",
           UNCHANGED <<execVars, isPhantom, draft, outcome>>,
           \A e \in event : e \in Events /\ e.op = UserOp(t)
                              /\ e = [op |-> e.op, result |-> e.result]
    PROVE  SdkInv'
<1>1. Shapes /\ ListenerIsTrue(t) /\ PhantomUndeployed
  BY DEF SdkInv, ServiceInv
<1>2. /\ listener' = [u \in Request |-> [at |-> listener'[u].at, from |-> listener'[u].from,
                                         event |-> listener'[u].event]]
      /\ \A u \in Request : listener'[u].from \in Nat
      /\ listener'[t] = [at |-> at, from |-> from, event |-> event]
      /\ \A u \in Request : u # t => listener'[u] = listener[u]
  BY <1>1, RelistenedShape
<1>3. Events' = Events /\ Included' = Included /\ UserOp(t)' = UserOp(t)
  BY DEF Events, Included, UserOp, execVars
<1>4. Shapes'
  BY <1>1, <1>2 DEF Shapes, execVars
<1>5. PhantomUndeployed'
  BY <1>1, <1>3 DEF PhantomUndeployed, Deployed
<1>6. ListenerIsTrue(t)'
  <2>1. listener'[t].at = at /\ listener'[t].event = event
    BY <1>2
  <2> QED
    BY <1>1, <1>3, <2>1 DEF ListenerIsTrue
<1>7. ClientMoves(t)
  BY <1>2, <1>4, <1>5 DEF ClientMoves
<1> QED
  BY <1>6, <1>7, ClientMovesKeepInv

LEMMA SearchingKeepsInv ==
    ASSUME SdkInv, NEW t \in Request, Wait(t) \/ QueryLatest(t) \/ Poll(t)
    PROVE  SdkInv'
<1>1. /\ Shapes /\ EventsAreRecords /\ ListenerIsTrue(t)
      /\ listener[t].from \in Nat
      /\ \E S : chain \in Seq(S)
  BY DEF SdkInv, ServiceInv, Shapes
<1>2. Len(chain) \in Nat /\ (chain # <<>> => Len(chain) > 0)
  BY <1>1
<1>3. UNCHANGED <<execVars, isPhantom, draft, outcome>>
  BY DEF Wait, QueryLatest, Poll
<1>4. CASE Wait(t)
  <2>1. Relistens(t, "delay", listener[t].from, listener[t].event) /\ draft[t].pc = "sent"
    BY <1>1, <1>4, UpdatesRelisten DEF Wait
  <2> QED
    BY <1>1, <1>3, <2>1, ListeningKeepsInv DEF ListenerIsTrue
<1>5. ASSUME NEW e, e \in Events /\ e.op = UserOp(t) /\ e = [op |-> e.op, result |-> e.result],
             listener' = [listener EXCEPT ![t].at = "callback", ![t].event = {e}],
             listener[t].at # "none"
      PROVE  SdkInv'
  <2>1. Relistens(t, "callback", listener[t].from, {e})
    BY <1>1, <1>5, UpdatesRelisten
  <2> QED
    BY <1>1, <1>3, <1>5, <2>1, ListeningKeepsInv DEF ListenerIsTrue
<1>6. CASE QueryLatest(t)
  <2> DEFINE from == IF chain = <<>> THEN 1 ELSE Len(chain)
  <2>1. from \in Nat /\ from > 0
    BY <1>2
  <2>2. \/ \E e \in EventsFor(t, from) :
              listener' = [listener EXCEPT ![t].at = "callback", ![t].event = {e}]
        \/ listener' = [listener EXCEPT ![t] = [listener[t] EXCEPT !.at = "once"]]
    BY <1>6 DEF QueryLatest, Hear
  <2>3. listener[t].at # "none"
    BY <1>6 DEF QueryLatest
  <2>4. CASE listener' = [listener EXCEPT ![t] = [listener[t] EXCEPT !.at = "once"]]
    <3>1. Relistens(t, "once", listener[t].from, listener[t].event)
      BY <1>1, <2>4, UpdatesRelisten
    <3> QED
      BY <1>1, <1>3, <2>3, <3>1, ListeningKeepsInv DEF ListenerIsTrue
  <2> HIDE DEF from
  <2> QED
    BY <1>1, <1>5, <2>1, <2>2, <2>3, <2>4, FoundIsOwn
<1>7. CASE Poll(t)
  <2> DEFINE first == IF listener[t].from = 0 THEN Len(chain) ELSE listener[t].from
  <2>1. first \in Nat /\ first > 0
    BY <1>1, <1>2, <1>7 DEF Poll
  <2>2. \/ \E e \in EventsFor(t, first) :
              listener' = [listener EXCEPT ![t].at = "callback", ![t].event = {e}]
        \/ listener' = [listener EXCEPT ![t] = [listener[t] EXCEPT !.from = Len(chain) + 1]]
    BY <1>7 DEF Poll, Hear
  <2>3. listener[t].at = "once"
    BY <1>7 DEF Poll
  <2>4. CASE listener' = [listener EXCEPT ![t] = [listener[t] EXCEPT !.from = Len(chain) + 1]]
    <3>1. Relistens(t, "once", Len(chain) + 1, listener[t].event)
      BY <1>1, <2>3, <2>4, UpdatesRelisten
    <3>2. Len(chain) + 1 \in Nat
      BY <1>2
    <3> QED
      BY <1>1, <1>3, <2>3, <3>1, <3>2, ListeningKeepsInv DEF ListenerIsTrue
  <2> HIDE DEF first
  <2> QED
    BY <1>1, <1>5, <2>1, <2>2, <2>3, <2>4, FoundIsOwn
<1> QED
  BY <1>4, <1>6, <1>7

(* Steps in which the promise settles, or wait() goes on. *)
LEMMA SettlingKeepsInv ==
    ASSUME SdkInv, NEW t \in Request, ListenerCallback(t) \/ TimedOut(t) \/ WaitReturns(t)
    PROVE  SdkInv'
<1>1. /\ Shapes /\ PhantomUndeployed /\ ListenerIsTrue(t)
      /\ SenderOf[t] \in Account
      /\ listener[t].from \in Nat
  BY SdkAssumption DEF SdkInv, ServiceInv, Shapes
<1>2. UNCHANGED <<execVars, draft>> /\ listener[t].at # "none"
  BY DEF ListenerCallback, TimedOut, WaitReturns
<1>3. Events' = Events /\ Included' = Included /\ UserOp(t)' = UserOp(t)
  BY <1>2 DEF Events, Included, UserOp, execVars
<1>4. \A a : Deployed(a)' = Deployed(a)
  BY <1>3 DEF Deployed
<1>5. CASE ListenerCallback(t)
  <2>1. PICK e \in listener[t].event :
           outcome' = [outcome EXCEPT ![t] = IF @ = "none" THEN e.result ELSE @]
    BY <1>5 DEF ListenerCallback, Settle
  <2>2. e \in Events /\ e.op = UserOp(t) /\ e = [op |-> e.op, result |-> e.result]
    BY <1>1 DEF ListenerIsTrue
  <2>3. outcome'[t] = (IF outcome[t] = "none" THEN e.result ELSE outcome[t])
    BY <1>1, <2>1 DEF Shapes
  <2>4. outcome'[t] \in Results => [op |-> UserOp(t), result |-> outcome'[t]] \in Events
    BY <1>1, <2>2, <2>3 DEF ListenerIsTrue
  <2>5. PICK at \in {"deployed?", "end"} :
           /\ Relistens(t, at, 0, {})
           /\ at = "deployed?" => outcome'[t] \in Results
    BY <1>5 DEF ListenerCallback, Relistens, Results
  <2>6. /\ listener' = [u \in Request |-> [at |-> listener'[u].at, from |-> listener'[u].from,
                                           event |-> listener'[u].event]]
        /\ \A u \in Request : listener'[u].from \in Nat
        /\ listener'[t] = [at |-> at, from |-> 0, event |-> {}]
        /\ \A u \in Request : u # t => listener'[u] = listener[u]
    BY <1>1, <2>5, RelistenedShape
  <2>7. at = "deployed?" => Deployed(SenderOf[t])
    <3> SUFFICES ASSUME at = "deployed?" PROVE Deployed(SenderOf[t])
      OBVIOUS
    <3>1. UserOp(t) \in Included
      BY <2>2 DEF Included
    <3>2. UserOp(t).sender = SenderOf[t]
      BY DEF UserOp
    <3> QED
      BY <3>1, <3>2 DEF Deployed
  <2>8. isPhantom' = isPhantom
    BY <1>5 DEF ListenerCallback
  <2>9. Shapes'
    <3>1. outcome' = [u \in Request |-> outcome'[u]]
      BY <1>1, <2>1 DEF Shapes
    <3> QED
      BY <1>1, <1>2, <2>6, <2>8, <3>1 DEF Shapes, execVars
  <2>10. ListenerIsTrue(t)'
    <3>1. listener'[t].at = at /\ listener'[t].event = {}
      BY <2>6
    <3>2. draft'[t].pc = "sent"
      BY <1>1, <1>2 DEF ListenerIsTrue
    <3> QED
      BY <1>3, <1>4, <2>4, <2>7, <3>1, <3>2 DEF ListenerIsTrue
  <2>11. \A u \in Request : u # t => outcome'[u] = outcome[u]
    BY <1>1, <2>1 DEF Shapes
  <2>12. ClientMoves(t)
    BY <1>1, <1>2, <1>4, <2>6, <2>8, <2>9, <2>11 DEF ClientMoves, PhantomUndeployed
  <2> QED
    BY <2>10, <2>12, ClientMovesKeepInv
<1>6. CASE TimedOut(t)
  <2>1. /\ outcome[t] = "none" /\ UNCHANGED <<listener, isPhantom>>
        /\ outcome' = [outcome EXCEPT ![t] = "timeout"]
    BY <1>1, <1>6 DEF TimedOut, Settle, Shapes
  <2>2. outcome'[t] = "timeout" /\ \A u \in Request : u # t => outcome'[u] = outcome[u]
    BY <1>1, <2>1 DEF Shapes
  <2>3. Shapes'
    BY <1>1, <1>2, <2>1 DEF Shapes, execVars
  <2>4. ListenerIsTrue(t)'
    BY <1>1, <1>2, <1>3, <1>4, <2>1, <2>2 DEF ListenerIsTrue, Results
  <2>5. ClientMoves(t)
    BY <1>1, <1>2, <1>4, <2>1, <2>2, <2>3 DEF ClientMoves, PhantomUndeployed
  <2> QED
    BY <2>4, <2>5, ClientMovesKeepInv
<1>7. CASE WaitReturns(t)
  <2>1. /\ listener[t].at = "deployed?" /\ CheckAccountPhantom(SenderOf[t])
        /\ outcome' = outcome
        /\ listener' = [listener EXCEPT ![t].at = "returned"]
    BY <1>7 DEF WaitReturns
  <2>2. Relistens(t, "returned", listener[t].from, listener[t].event)
    BY <1>1, <2>1, UpdatesRelisten
  <2>3. /\ listener' = [u \in Request |-> [at |-> listener'[u].at, from |-> listener'[u].from,
                                           event |-> listener'[u].event]]
        /\ \A u \in Request : listener'[u].from \in Nat
        /\ listener'[t] = [at |-> "returned", from |-> listener[t].from,
                           event |-> listener[t].event]
        /\ \A u \in Request : u # t => listener'[u] = listener[u]
    BY <1>1, <2>2, RelistenedShape
  <2>4. /\ isPhantom' \in [Account -> BOOLEAN]
        /\ PhantomUndeployed'
        /\ \A a \in Account : ~ isPhantom[a] => ~ isPhantom'[a]
        /\ ~ isPhantom'[SenderOf[t]]
    BY <1>1, <1>2, <2>1, CheckIsRight DEF ListenerIsTrue
  <2>5. Shapes'
    BY <1>1, <1>2, <2>1, <2>3, <2>4 DEF Shapes, execVars
  <2>6. ListenerIsTrue(t)'
    <3>1. listener'[t].at = "returned" /\ listener'[t].event = listener[t].event
      BY <2>3
    <3> QED
      BY <1>1, <1>2, <1>3, <1>4, <2>1, <2>4, <3>1 DEF ListenerIsTrue
  <2>7. ClientMoves(t)
    BY <1>2, <2>1, <2>3, <2>4, <2>5 DEF ClientMoves
  <2> QED
    BY <2>6, <2>7, ClientMovesKeepInv
<1> QED
  BY <1>5, <1>6, <1>7

---------------------------------------------------------------------------
(* The invariant.                                                          *)

LEMMA InitInv == SdkInit => SdkInv
<1> SUFFICES ASSUME SdkInit PROVE SdkInv
  OBVIOUS
<1>1. Events = {} /\ Included = {}
  BY DEF SdkInit, ExecInit, Events, Included, ToSet
<1>2. Shapes
  <2>1. chain \in Seq({}) /\ bundleQueue \in Seq({})
    BY DEF SdkInit, ExecInit
  <2> QED
    BY <2>1 DEF SdkInit, ExecInit, Shapes
<1>3. ServiceInv
  BY <1>1, <1>2 DEF SdkInit, ExecInit, ServiceInv, EventsAreRecords, Exclusive, StillValid,
     NoSelfInflictedCrash, DraftIsSent, Caller
<1>4. PhantomUndeployed /\ \A t \in Request : ListenerIsTrue(t)
  BY <1>1 DEF SdkInit, PhantomUndeployed, ListenerIsTrue, Results
<1> QED
  BY <1>3, <1>4 DEF SdkInv

LEMMA NextInv == SdkInv /\ [SdkNext]_vars => SdkInv'
<1> SUFFICES ASSUME SdkInv, [SdkNext]_vars PROVE SdkInv'
  OBVIOUS
<1>1. CASE ExecStep /\ UNCHANGED sdkVars
  BY <1>1, ServiceStep, ClientsAreRight DEF SdkInv
<1>2. ASSUME NEW t \in Request,
             \/ GetInitCode(t) \/ GetNonce(t) \/ ReadNonce(t) \/ SendUserOpToBundler(t)
             \/ Wait(t) \/ Listen(t)
      PROVE  SdkInv'
  BY <1>2, DraftingKeepsInv, SendingKeepsInv, SearchingKeepsInv, SettlingKeepsInv DEF Listen
<1>3. CASE UNCHANGED vars
  <2>1. UNCHANGED <<execVars, sdkVars>>
    BY <1>3 DEF vars
  <2>2. UNCHANGED <<chain, params, bundleQueue, stage, bundle, inFlight, crashed, waited>>
        /\ UNCHANGED <<isPhantom, draft, listener, outcome>>
    BY <2>1 DEF execVars, sdkVars
  <2>3. /\ Events' = Events /\ Included' = Included
        /\ \A op : Valid(op)' = Valid(op) /\ Overtaken(op)' = Overtaken(op)
    BY <2>2, SameChain
  <2>4. \A t : UserOp(t)' = UserOp(t)
    BY <2>2 DEF UserOp
  <2>5. ServiceInv'
    BY <2>2, <2>3, <2>4 DEF SdkInv, ServiceInv, Shapes, EventsAreRecords, Exclusive, HoldsBundle,
       StillValid, NoSelfInflictedCrash, DraftIsSent
  <2>6. PhantomUndeployed' /\ \A t \in Request : ListenerIsTrue(t)'
    BY <2>1, <2>3, ClientsAreRight DEF SdkInv
  <2> QED
    BY <2>5, <2>6 DEF SdkInv
<1> QED
  BY <1>1, <1>2, <1>3 DEF SdkNext

(* The service and its clients keep what they rely on: one at a time        *)
(* creates and sends a bundle; what it was checked for stays so until it is *)
(* sent, although blocks come in between, or its nonce went to an operation *)
(* of another client or to one that was in flight when it was built; and    *)
(* what a listener holds is an event of its own operation.                  *)
THEOREM InvHolds == SdkSpec => []SdkInv
<1>1. SdkInit => SdkInv
  BY InitInv
<1>2. SdkInv /\ [SdkNext]_vars => SdkInv'
  BY NextInv
<1> QED
  BY <1>1, <1>2, PTL DEF SdkSpec

(* However many requests, ticks and sendBundleNow overlap at the two        *)
(* mutexes, and whenever the node mines, crashedHandleOps is called only    *)
(* for an operation that was overtaken by one of another client, or by one  *)
(* that was submitted, and pooled still, when the bundle was built.         *)
THEOREM CrashFree == SdkSpec => []NoSelfInflictedCrash
<1>1. SdkInv => NoSelfInflictedCrash
  BY DEF SdkInv, ServiceInv
<1> QED
  BY <1>1, InvHolds, PTL

(* A wait() that settled with the fate of an operation tells that of its    *)
(* own operation, which is in a block.                                      *)
THEOREM OutcomeHolds == SdkSpec => []OutcomeIsTrue
<1>1. SdkInv => OutcomeIsTrue
  BY DEF SdkInv, ListenerIsTrue, OutcomeIsTrue
<1> QED
  BY <1>1, InvHolds, PTL

(* An account API never takes an account for deployed that is not, and      *)
(* knows that it is once a wait() has returned.                             *)
THEOREM PhantomHolds == SdkSpec => []PhantomFlagIsRight
<1>1. SdkInv => PhantomFlagIsRight
  BY DEF SdkInv, PhantomUndeployed, ListenerIsTrue, PhantomFlagIsRight
<1> QED
  BY <1>1, InvHolds, PTL

---------------------------------------------------------------------------
(* The two mutexes: who is in which queue.                                 *)

(* The queue holds just these, each once. *)
IsQueueOf(queue, members) ==
    /\ queue \in Seq(members)
    /\ ToSet(queue) = members
    /\ \A i, j \in 1..Len(queue) : queue[i] = queue[j] => i = j

(* Who comes is last, who goes was first. *)
LEMMA Joins ==
    ASSUME NEW members, NEW queue, IsQueueOf(queue, members), NEW c, c \notin members
    PROVE  IsQueueOf(Append(queue, c), members \cup {c})
<1> DEFINE longer == Append(queue, c)
<1>1. queue \in Seq(members) /\ ToSet(queue) = members
  BY DEF IsQueueOf
<1>2. /\ Len(longer) = Len(queue) + 1
      /\ longer[Len(queue) + 1] = c
      /\ \A i \in 1..Len(queue) : longer[i] = queue[i] /\ queue[i] \in members
      /\ longer \in Seq(members \cup {c})
      /\ Len(queue) \in Nat
  BY <1>1
<1>3. DOMAIN longer = 1..(Len(queue) + 1) /\ DOMAIN queue = 1..Len(queue)
  BY <1>1, <1>2
<1>4. ToSet(longer) = members \cup {c}
  BY <1>1, <1>2, <1>3 DEF ToSet
<1>5. ASSUME NEW i \in 1..Len(longer), NEW j \in 1..Len(longer), longer[i] = longer[j]
      PROVE  i = j
  BY <1>2, <1>5 DEF IsQueueOf
<1> QED
  BY <1>2, <1>4, <1>5 DEF IsQueueOf

LEMMA Leaves ==
    ASSUME NEW members, NEW queue, IsQueueOf(queue, members), NEW c, NEW result
    PROVE  /\ Holds(queue, c) => IsQueueOf(Released(queue, c, result), members \ {c})
           /\ c \notin members => Released(queue, c, result) = queue
<1>1. queue \in Seq(members) /\ ToSet(queue) = members
  BY DEF IsQueueOf
<1>2. DOMAIN queue = 1..Len(queue) /\ Len(queue) \in Nat
  BY <1>1
<1>3. ASSUME Holds(queue, c) PROVE IsQueueOf(Tail(queue), members \ {c})
  <2> DEFINE rest == Tail(queue)
  <2>1. queue # <<>> /\ queue[1] = c /\ Len(queue) > 0
    BY <1>1, <1>3 DEF Holds
  <2>2. /\ Len(rest) = Len(queue) - 1
        /\ \A i \in 1..Len(rest) : rest[i] = queue[i + 1]
        /\ rest \in Seq(members)
    BY <1>1, <2>1
  <2>3. DOMAIN rest = 1..Len(rest) /\ Len(rest) \in Nat
    BY <2>2
  <2> HIDE DEF rest
  <2>4. \A i \in 1..Len(rest) : rest[i] \in members \ {c}
    <3> TAKE i \in 1..Len(rest)
    <3>1. i + 1 \in 1..Len(queue) /\ 1 \in 1..Len(queue) /\ i + 1 # 1
      BY <1>2, <2>1, <2>2
    <3>2. queue[i + 1] # queue[1]
      BY <3>1 DEF IsQueueOf
    <3>3. rest[i] \in members
      BY <2>2, <2>3
    <3> QED
      BY <2>1, <2>2, <3>2, <3>3
  <2>5. rest \in Seq(members \ {c})
    BY <2>2, <2>3, <2>4, SeqDef
  <2>6. ASSUME NEW d \in members \ {c} PROVE d \in ToSet(rest)
    <3>1. PICK i \in 1..Len(queue) : queue[i] = d
      BY <1>1, <1>2 DEF ToSet
    <3>2. i - 1 \in 1..Len(rest) /\ i = (i - 1) + 1
      BY <1>2, <2>1, <2>2, <3>1
    <3>3. rest[i - 1] = d
      BY <2>2, <3>1, <3>2
    <3> QED
      BY <2>3, <3>2, <3>3 DEF ToSet
  <2>7. ToSet(rest) = members \ {c}
    BY <2>3, <2>4, <2>6 DEF ToSet
  <2>8. ASSUME NEW i \in 1..Len(rest), NEW j \in 1..Len(rest), rest[i] = rest[j]
        PROVE  i = j
    <3>1. i + 1 \in 1..Len(queue) /\ j + 1 \in 1..Len(queue)
      BY <1>2, <2>2
    <3>2. queue[i + 1] = queue[j + 1]
      BY <2>2, <2>8
    <3>3. i + 1 = j + 1
      BY <3>1, <3>2 DEF IsQueueOf
    <3> QED
      BY <2>3, <3>3
  <2> QED
    BY <2>5, <2>7, <2>8 DEF IsQueueOf, rest
<1>4. ASSUME c \notin members PROVE ~ Holds(queue, c)
  <2> SUFFICES ASSUME queue # <<>> PROVE Head(queue) # c
    BY DEF Holds
  <2>1. Head(queue) \in members
    BY <1>1
  <2> QED
    BY <1>4, <2>1
<1> QED
  BY <1>3, <1>4 DEF Released

(* A mutex that somebody asked for is held by one of those who did. *)
LEMMA SomebodyHolds ==
    ASSUME NEW members, NEW queue, IsQueueOf(queue, members), members # {}
    PROVE  \E c \in members : Holds(queue, c)
<1>1. queue \in Seq(members) /\ ToSet(queue) = members
  BY DEF IsQueueOf
<1>2. queue # <<>>
  BY <1>1 DEF ToSet
<1>3. Head(queue) \in members
  BY <1>1, <1>2
<1> QED
  BY <1>2, <1>3 DEF Holds

ExecStages == {"validate", "hash", "scan", "create", "send", "flush"}
BundleStages == {"scan", "create", "send"}

AtExec == {r \in Request : stage[r] \in ExecStages}
AtBundle == {c \in Caller : stage[c] \in BundleStages}

(* Where everyone stands tells who is in which queue, and past its          *)
(* validation a request is at the head of the first.                        *)
QueueInv ==
    /\ stage \in [Caller -> {"idle", "done", "refused"} \cup ExecStages]
    /\ answer \in [Request -> {"none", "ok", "error"}]
    /\ \A c \in Caller : c \notin Request => stage[c] \notin {"validate", "hash", "refused"}
    /\ IsQueueOf(execQueue, AtExec)
    /\ IsQueueOf(bundleQueue, AtBundle)
    /\ \A r \in AtExec : stage[r] = "validate" \/ HoldsExec(r)
    /\ \A r \in Request : answer[r] = "none" => stage[r] \notin {"done", "refused"}
    /\ \A r \in Request : stage[r] = "idle" => params[r] = NoOp

(* Caller c goes from one await to the next, to s. *)
Goes(c, s) ==
    /\ stage' = [stage EXCEPT ![c] = s]
    /\ s \in {"done", "refused"} \cup ExecStages
    /\ c \notin Request => s \notin {"validate", "hash", "refused"}
    /\ \/ c \notin Request /\ execQueue' = execQueue
       \/ /\ c \in AtExec /\ HoldsExec(c) /\ s \in ExecStages \ {"validate"}
          /\ execQueue' = execQueue
       \/ /\ c \in AtExec /\ HoldsExec(c) /\ s \in {"done", "refused"}
          /\ \E result : execQueue' = Released(execQueue, c, result)
       \/ /\ c \in Request /\ stage[c] = "idle" /\ s = "validate"
          /\ execQueue' = Append(execQueue, c)
    /\ \/ (c \in AtBundle <=> s \in BundleStages) /\ bundleQueue' = bundleQueue
       \/ c \notin AtBundle /\ s \in BundleStages /\ bundleQueue' = Append(bundleQueue, c)
       \/ /\ s \notin BundleStages
          /\ c \in AtBundle => HoldsBundle(c)
          /\ \E result : bundleQueue' = Released(bundleQueue, c, result)
    /\ answer' \in [Request -> {"none", "ok", "error"}]
    /\ \A r \in Request : answer'[r] = answer[r] \/ answer'[r] # "none"
    /\ c \in Request /\ s \in {"done", "refused"} => answer'[c] # "none"
    /\ \A r \in Request : r # c => params'[r] = params[r]

LEMMA GoingKeepsQueues ==
    ASSUME QueueInv, NEW c \in Caller, NEW s, Goes(c, s)
    PROVE  QueueInv'
<1>1. /\ stage' \in [Caller -> {"idle", "done", "refused"} \cup ExecStages]
      /\ stage'[c] = s
      /\ \A d \in Caller : d # c => stage'[d] = stage[d]
      /\ Request \subseteq Caller
  BY DEF QueueInv, Goes, Caller
<1>2. /\ IsQueueOf(execQueue, AtExec) /\ IsQueueOf(bundleQueue, AtBundle)
      /\ execQueue \in Seq(AtExec) /\ bundleQueue \in Seq(AtBundle)
  BY DEF QueueInv, IsQueueOf
<1>3. IsQueueOf(execQueue', AtExec')
  <2>1. CASE c \notin Request /\ execQueue' = execQueue
    <3>1. AtExec' = AtExec
      BY <1>1, <2>1 DEF AtExec
    <3> QED
      BY <1>2, <2>1, <3>1
  <2>2. CASE c \in AtExec /\ s \in ExecStages /\ execQueue' = execQueue
    <3>1. AtExec' = AtExec
      BY <1>1, <2>2 DEF AtExec
    <3> QED
      BY <1>2, <2>2, <3>1
  <2>3. CASE /\ c \in AtExec /\ HoldsExec(c) /\ s \in {"done", "refused"}
             /\ \E result : execQueue' = Released(execQueue, c, result)
    <3>1. AtExec' = AtExec \ {c}
      BY <1>1, <2>3 DEF AtExec, ExecStages
    <3> QED
      BY <1>2, <2>3, <3>1, Leaves DEF HoldsExec
  <2>4. CASE /\ c \in Request /\ stage[c] = "idle" /\ s = "validate"
             /\ execQueue' = Append(execQueue, c)
    <3>1. AtExec' = AtExec \cup {c} /\ c \notin AtExec
      BY <1>1, <2>4 DEF AtExec, ExecStages
    <3> QED
      BY <1>2, <2>4, <3>1, Joins
  <2> QED
    BY <2>1, <2>2, <2>3, <2>4 DEF Goes
<1>4. IsQueueOf(bundleQueue', AtBundle')
  <2>1. CASE (c \in AtBundle <=> s \in BundleStages) /\ bundleQueue' = bundleQueue
    <3>1. AtBundle' = AtBundle
      BY <1>1, <2>1 DEF AtBundle
    <3> QED
      BY <1>2, <2>1, <3>1
  <2>2. CASE c \notin AtBundle /\ s \in BundleStages /\ bundleQueue' = Append(bundleQueue, c)
    <3>1. AtBundle' = AtBundle \cup {c}
      BY <1>1, <2>2 DEF AtBundle
    <3> QED
      BY <1>2, <2>2, <3>1, Joins
  <2>3. CASE /\ s \notin BundleStages
             /\ c \in AtBundle => HoldsBundle(c)
             /\ \E result : bundleQueue' = Released(bundleQueue, c, result)
    <3>1. AtBundle' = AtBundle \ {c}
      BY <1>1, <2>3 DEF AtBundle
    <3>2. CASE c \in AtBundle
      BY <1>2, <2>3, <3>1, <3>2, Leaves DEF HoldsBundle
    <3>3. CASE c \notin AtBundle
      <4>1. bundleQueue' = bundleQueue /\ AtBundle' = AtBundle
        BY <1>2, <2>3, <3>1, <3>3, Leaves
      <4> QED
        BY <1>2, <4>1
    <3> QED
      BY <3>2, <3>3
  <2> QED
    BY <2>1, <2>2, <2>3 DEF Goes
<1>5. ASSUME NEW r \in AtExec' PROVE stage'[r] = "validate" \/ HoldsExec(r)'
  <2>1. CASE r = c
    <3>1. c \in Request /\ s \in ExecStages
      BY <1>1, <1>5, <2>1 DEF AtExec
    <3>2. s = "validate" \/ (HoldsExec(c) /\ execQueue' = execQueue)
      BY <3>1 DEF Goes, ExecStages
    <3> QED
      BY <1>1, <2>1, <3>2 DEF HoldsExec
  <2>2. CASE r # c
    <3>1. r \in AtExec /\ stage'[r] = stage[r]
      BY <1>1, <1>5, <2>2 DEF AtExec
    <3>2. CASE stage[r] = "validate"
      BY <3>1, <3>2
    <3>3. CASE HoldsExec(r)
      <4>1. /\ Holds(Append(execQueue, c), r)
            /\ \A result : Holds(Released(execQueue, c, result), r)
        BY <1>2, <2>2, <3>3, HolderStays DEF HoldsExec
      <4>2. \/ execQueue' = execQueue
            \/ execQueue' = Append(execQueue, c)
            \/ \E result : execQueue' = Released(execQueue, c, result)
        BY DEF Goes
      <4> QED
        BY <3>3, <4>1, <4>2 DEF HoldsExec
    <3> QED
      BY <3>1, <3>2, <3>3 DEF QueueInv
  <2> QED
    BY <2>1, <2>2
<1>6. ASSUME NEW r \in Request, answer'[r] = "none" PROVE stage'[r] \notin {"done", "refused"}
  <2>1. CASE r = c
    BY <1>1, <1>6, <2>1 DEF Goes
  <2>2. CASE r # c
    BY <1>1, <1>6, <2>2 DEF Goes, QueueInv
  <2> QED
    BY <2>1, <2>2
<1>7. ASSUME NEW r \in Request, stage'[r] = "idle" PROVE params'[r] = NoOp
  <2>1. r # c
    BY <1>1, <1>7 DEF Goes, ExecStages
  <2> QED
    BY <1>1, <1>7, <2>1 DEF Goes, QueueInv
<1>8. \A d \in Caller : d \notin Request => stage'[d] \notin {"validate", "hash", "refused"}
  BY <1>1 DEF Goes, QueueInv
<1>9. answer' \in [Request -> {"none", "ok", "error"}]
  BY DEF Goes
<1>10. NoOp' = NoOp
  BY DEF NoOp
<1> QED
  BY <1>1, <1>3, <1>4, <1>5, <1>6, <1>7, <1>8, <1>9, <1>10 DEF QueueInv

---------------------------------------------------------------------------
(* Every step of the service and of a client keeps the queues.             *)

LEMMA RequestsKeepQueues ==
    ASSUME SdkInv, QueueInv, NEW r \in Request,
           Validated(r) \/ ValidationFailed(r) \/ PoolUserOp(r) \/ ReplacementRefused(r)
    PROVE  QueueInv'
<1>1. r \in Caller /\ answer \in [Request -> {"none", "ok", "error"}]
  BY DEF Caller, QueueInv
<1>2. stage[r] = "hash" => r \in AtExec /\ HoldsExec(r) /\ r \notin AtBundle
  BY DEF QueueInv, AtExec, AtBundle, ExecStages, BundleStages
<1>3. stage[r] = "validate" => r \in AtExec /\ r \notin AtBundle
  BY DEF AtExec, AtBundle, ExecStages, BundleStages
<1>4. CASE Validated(r)
  <2>1. Goes(r, "hash")
    BY <1>1, <1>3, <1>4 DEF Validated, Goes, ExecStages, BundleStages
  <2> QED
    BY <1>1, <2>1, GoingKeepsQueues
<1>5. CASE ValidationFailed(r)
  <2>1. Goes(r, "refused")
    BY <1>1, <1>3, <1>5 DEF ValidationFailed, Refuse, Goes, ExecStages, BundleStages
  <2> QED
    BY <1>1, <2>1, GoingKeepsQueues
<1>6. CASE PoolUserOp(r)
  <2>1. CASE /\ bundleQueue' = Append(bundleQueue, r)
             /\ stage' = [stage EXCEPT ![r] = "scan"]
             /\ UNCHANGED <<answer, execQueue>>
    <3>1. Goes(r, "scan")
      BY <1>1, <1>2, <1>6, <2>1 DEF PoolUserOp, Goes, ExecStages, BundleStages
    <3> QED
      BY <1>1, <3>1, GoingKeepsQueues
  <2>2. CASE End(r, "ok") /\ UNCHANGED bundleQueue
    <3>1. Goes(r, "done")
      BY <1>1, <1>2, <1>6, <2>2 DEF PoolUserOp, End, Goes, ExecStages, BundleStages
    <3> QED
      BY <1>1, <3>1, GoingKeepsQueues
  <2> QED
    BY <1>6, <2>1, <2>2 DEF PoolUserOp
<1>7. CASE ReplacementRefused(r)
  <2>1. Goes(r, "refused")
    BY <1>1, <1>2, <1>7 DEF ReplacementRefused, Refuse, Goes, ExecStages, BundleStages
  <2> QED
    BY <1>1, <2>1, GoingKeepsQueues
<1> QED
  BY <1>4, <1>5, <1>6, <1>7

(* A caller whose attempt ends was at the head of both queues, as far as it *)
(* was in them.                                                             *)
LEMMA EndingGoes ==
    ASSUME QueueInv, NEW c \in Caller, NEW result \in {"ok", "error"}, End(c, result),
           stage[c] \in BundleStages \cup {"flush"}, c \in AtBundle => HoldsBundle(c),
           \/ bundleQueue' = bundleQueue /\ c \notin AtBundle
           \/ \E x : bundleQueue' = Released(bundleQueue, c, x),
           params' = params
    PROVE  Goes(c, "done")
<1>1. c \in Request => c \in AtExec /\ HoldsExec(c)
  BY DEF QueueInv, AtExec, ExecStages, BundleStages
<1>2. c \notin Request => execQueue' = execQueue
  <2> SUFFICES ASSUME c \notin Request PROVE execQueue' = execQueue
    OBVIOUS
  <2>1. IsQueueOf(execQueue, AtExec) /\ c \notin AtExec
    BY DEF QueueInv, AtExec
  <2>2. Released(execQueue, c, result) = execQueue
    BY <2>1, Leaves
  <2> QED
    BY <2>2 DEF End
<1>3. /\ answer' \in [Request -> {"none", "ok", "error"}]
      /\ \A r \in Request : answer'[r] = answer[r] \/ answer'[r] # "none"
      /\ c \in Request => answer'[c] # "none"
  <2>1. CASE c \in Request
    <3>1. answer' = [answer EXCEPT ![c] = result]
      BY <2>1 DEF End
    <3> QED
      BY <2>1, <3>1 DEF QueueInv
  <2>2. CASE c \notin Request
    <3>1. answer' = answer
      BY <2>2 DEF End
    <3> QED
      BY <2>2, <3>1 DEF QueueInv
  <2> QED
    BY <2>1, <2>2
<1>4. stage' = [stage EXCEPT ![c] = "done"]
  BY DEF End
<1>5. \E x : execQueue' = Released(execQueue, c, x)
  BY DEF End
<1>6. "done" \notin BundleStages /\ "done" \notin ExecStages
  BY DEF BundleStages, ExecStages
<1> QED
  BY <1>1, <1>2, <1>3, <1>4, <1>5, <1>6 DEF Goes

LEMMA LeavingKeepsQueues ==
    ASSUME QueueInv, NEW c \in Caller, stage[c] \in {"create", "send"}, HoldsBundle(c),
           LeaveBundle(c), params' = params
    PROVE  QueueInv'
<1>1. c \in AtBundle
  BY DEF AtBundle, BundleStages
<1>2. bundleQueue' = Released(bundleQueue, c, "ok")
  BY DEF LeaveBundle
<1>3. CASE stage' = [stage EXCEPT ![c] = "flush"] /\ UNCHANGED <<answer, execQueue>>
  <2>1. c \in Request => c \in AtExec /\ HoldsExec(c)
    BY DEF QueueInv, AtExec, ExecStages
  <2>2. answer \in [Request -> {"none", "ok", "error"}]
    BY DEF QueueInv
  <2>3. Goes(c, "flush")
    BY <1>2, <1>3, <2>1, <2>2 DEF Goes, ExecStages, BundleStages
  <2> QED
    BY <2>3, GoingKeepsQueues
<1>4. CASE End(c, "ok")
  <2>1. Goes(c, "done")
    BY <1>2, <1>4, EndingGoes DEF BundleStages
  <2> QED
    BY <2>1, GoingKeepsQueues
<1> QED
  BY <1>3, <1>4 DEF LeaveBundle

LEMMA AttemptsKeepQueues ==
    ASSUME SdkInv, QueueInv, NEW c \in Caller, Attempt(c)
    PROVE  QueueInv'
<1>1. /\ c \in Request /\ stage[c] \in ExecStages \ {"validate"}
           => c \in AtExec /\ HoldsExec(c)
      /\ answer \in [Request -> {"none", "ok", "error"}]
  BY DEF QueueInv, AtExec
<1>2. CASE ScanEvents(c)
  <2>1. Goes(c, "create")
    BY <1>1, <1>2 DEF ScanEvents, Goes, ExecStages, BundleStages, AtBundle
  <2> QED
    BY <2>1, GoingKeepsQueues
<1>3. CASE CreateBundle(c)
  <2>1. stage[c] = "create" /\ HoldsBundle(c) /\ params' = params
    BY <1>3 DEF CreateBundle
  <2>2. CASE LeaveBundle(c)
    BY <2>1, <2>2, LeavingKeepsQueues
  <2>3. CASE stage' = [stage EXCEPT ![c] = "send"] /\ UNCHANGED <<bundleQueue, execQueue, answer>>
    <3>1. Goes(c, "send")
      BY <1>1, <2>1, <2>3 DEF Goes, ExecStages, BundleStages, AtBundle
    <3> QED
      BY <3>1, GoingKeepsQueues
  <2>4. \/ LeaveBundle(c)
        \/ stage' = [stage EXCEPT ![c] = "send"] /\ UNCHANGED <<bundleQueue, execQueue, answer>>
    BY <1>3 DEF CreateBundle
  <2> QED
    BY <2>2, <2>3, <2>4
<1>4. CASE SendBundle(c)
  <2>1. stage[c] = "send" /\ HoldsBundle(c) /\ LeaveBundle(c) /\ params' = params
    BY <1>4 DEF SendBundle
  <2> QED
    BY <2>1, LeavingKeepsQueues
<1>5. CASE Flush(c)
  <2>1. stage[c] = "flush" /\ End(c, "ok") /\ UNCHANGED <<params, bundleQueue>>
    BY <1>5 DEF Flush
  <2>2. c \notin AtBundle
    BY <2>1 DEF AtBundle, BundleStages
  <2>3. Goes(c, "done")
    BY <2>1, <2>2, EndingGoes
  <2> QED
    BY <2>3, GoingKeepsQueues
<1>6. CASE AttemptFails(c)
  <2>1. /\ stage[c] = "flush" \/ (stage[c] \in BundleStages /\ HoldsBundle(c))
        /\ End(c, "error") /\ params' = params
        /\ bundleQueue' = Released(bundleQueue, c, "error")
    BY <1>6 DEF AttemptFails, BundleStages
  <2>2. c \in AtBundle => HoldsBundle(c)
    BY <2>1 DEF AtBundle, BundleStages
  <2>3. Goes(c, "done")
    BY <2>1, <2>2, EndingGoes
  <2> QED
    BY <2>3, GoingKeepsQueues
<1> QED
  BY <1>2, <1>3, <1>4, <1>5, <1>6 DEF Attempt

LEMMA NextKeepsQueues ==
    ASSUME SdkInv, QueueInv, [SdkNext]_vars
    PROVE  QueueInv'
<1>1. ASSUME UNCHANGED <<stage, answer, execQueue, bundleQueue, params>>
      PROVE  QueueInv'
  <2>1. AtExec' = AtExec /\ AtBundle' = AtBundle /\ NoOp' = NoOp
    BY <1>1 DEF AtExec, AtBundle, NoOp
  <2> QED
    BY <1>1, <2>1 DEF QueueInv, HoldsExec
<1>2. CASE Serve
  BY <1>2, RequestsKeepQueues, AttemptsKeepQueues DEF Serve
<1>3. ASSUME NEW c \in Ticks \cup BundleNow, ForceBundle(c)
      PROVE  QueueInv'
  <2>1. c \in Caller /\ c \notin Request
    BY ExecutionAssumption DEF Caller
  <2>2. Goes(c, "scan")
    <3>1. c \notin AtBundle
      BY <1>3 DEF ForceBundle, AtBundle, BundleStages
    <3>2. answer \in [Request -> {"none", "ok", "error"}]
      BY DEF QueueInv
    <3> QED
      BY <1>3, <2>1, <3>1, <3>2 DEF ForceBundle, Goes, ExecStages, BundleStages
  <2> QED
    BY <2>1, <2>2, GoingKeepsQueues
<1>4. CASE ClearState \/ MineElsewhere \/ MineInFlight \/ \E m \in Modes : SetBundleInterval(m)
  BY <1>1, <1>4 DEF ClearState, MineElsewhere, MineInFlight, SetBundleInterval
<1>5. ASSUME NEW t \in Request, SendUserOpToBundler(t)
      PROVE  QueueInv'
  <2>1. t \in Caller /\ Arrive(t, UserOp(t))
    BY <1>5 DEF Caller, SendUserOpToBundler
  <2>2. Goes(t, "validate")
    <3>1. t \notin AtBundle
      BY <2>1 DEF Arrive, AtBundle, BundleStages
    <3>2. \A r \in Request : r # t => params'[r] = params[r]
      BY <2>1 DEF Arrive, SdkInv, ServiceInv, Shapes
    <3>3. answer \in [Request -> {"none", "ok", "error"}]
      BY DEF QueueInv
    <3> QED
      BY <2>1, <3>1, <3>2, <3>3 DEF Arrive, Goes, ExecStages, BundleStages
  <2> QED
    BY <2>1, <2>2, GoingKeepsQueues
<1>6. ASSUME NEW t \in Request,
             GetInitCode(t) \/ GetNonce(t) \/ ReadNonce(t) \/ Wait(t) \/ Listen(t)
      PROVE  QueueInv'
  BY <1>1, <1>6 DEF GetInitCode, GetNonce, ReadNonce, Wait, Listen, QueryLatest, Poll,
     ListenerCallback, TimedOut, WaitReturns, execVars
<1>7. CASE UNCHANGED vars
  BY <1>1, <1>7 DEF vars, execVars
<1> QED
  BY <1>2, <1>3, <1>4, <1>5, <1>6, <1>7 DEF SdkNext, ExecStep

---------------------------------------------------------------------------
(* The nonce of an account counts its blocks.                              *)

OpsOf(a) == {op \in Included : op.sender = a}

OnePerSender(ops) == \A op1, op2 \in ops : op1.sender = op2.sender => op1 = op2

BlocksOK ==
    /\ Len(chain) <= MaxBlocks
    /\ \A a : IsFiniteSet(OpsOf(a)) /\ Cardinality(OpsOf(a)) <= Len(chain)
    /\ \A e \in Events : e.result \in Results

NonceInv ==
    /\ BlocksOK
    /\ \A c \in Caller : OnePerSender(bundle[c])
    /\ OnePerSender(inFlight)

LEMMA NoncesAreBounded ==
    ASSUME Shapes, BlocksOK, NEW a
    PROVE  NonceOf(a) \in 0..MaxBlocks
<1>1. PICK S : chain \in Seq(S)
  BY DEF Shapes
<1>2. Len(chain) \in Nat
  BY <1>1
<1>3. IsFiniteSet(OpsOf(a)) /\ Cardinality(OpsOf(a)) <= Len(chain)
  BY DEF BlocksOK
<1>4. Cardinality(OpsOf(a)) \in Nat
  BY <1>3, FS_CardinalityType
<1>5. Cardinality(OpsOf(a)) \in 0..MaxBlocks
  BY <1>2, <1>3, <1>4, ExecutionAssumption DEF BlocksOK
<1> QED
  BY <1>5 DEF NonceOf, OpsOf

(* A block holds at most one operation of each account. *)
LEMMA BlockRaisesNonceByOne ==
    ASSUME Shapes, BlocksOK, NEW ops, NEW results \in SUBSET Results, Mine(ops, results),
           OnePerSender(ops)
    PROVE  BlocksOK'
<1>1. PICK S : chain \in Seq(S)
  BY DEF Shapes
<1>2. Len(chain) \in Nat /\ Len(chain) < MaxBlocks /\ Len(chain') = Len(chain) + 1
  BY <1>1 DEF Mine
<1>3. Included' = Included \cup ops
  BY MineAddsEvents
<1>4. Len(chain') <= MaxBlocks
  BY <1>2, ExecutionAssumption
<1>5. ASSUME NEW a
      PROVE  IsFiniteSet(OpsOf(a)') /\ Cardinality(OpsOf(a)') <= Len(chain')
  <2>1. IsFiniteSet(OpsOf(a)) /\ Cardinality(OpsOf(a)) <= Len(chain)
    BY DEF BlocksOK
  <2>2. Cardinality(OpsOf(a)) \in Nat
    BY <2>1, FS_CardinalityType
  <2>3. CASE \A op \in ops : op.sender # a
    <3>1. OpsOf(a)' = OpsOf(a)
      BY <1>3, <2>3 DEF OpsOf
    <3> QED
      BY <1>2, <2>1, <2>2, <3>1
  <2>4. ASSUME NEW op \in ops, op.sender = a
        PROVE  IsFiniteSet(OpsOf(a)') /\ Cardinality(OpsOf(a)') <= Len(chain')
    <3>1. \A o \in ops : o.sender = a => o = op
      BY <2>4 DEF OnePerSender
    <3>2. OpsOf(a)' = OpsOf(a) \cup {op}
      BY <1>3, <2>4, <3>1 DEF OpsOf
    <3>3. /\ IsFiniteSet(OpsOf(a) \cup {op})
          /\ Cardinality(OpsOf(a) \cup {op}) <= Cardinality(OpsOf(a)) + 1
      BY <2>1, <2>2, FS_AddElement
    <3>4. Cardinality(OpsOf(a) \cup {op}) \in Nat
      BY <3>3, FS_CardinalityType
    <3> QED
      BY <1>2, <2>1, <2>2, <3>2, <3>3, <3>4
  <2> QED
    BY <2>3, <2>4
<1>6. ASSUME NEW e \in Events' PROVE e.result \in Results
  <2>1. PICK result \in [ops -> results] :
           chain' = Append(chain, {[op |-> op, result |-> result[op]] : op \in ops})
    BY DEF Mine
  <2>2. Events' = Events \cup {[op |-> op, result |-> result[op]] : op \in ops}
    BY <2>1, BlockAddsEvents
  <2>3. CASE e \in Events
    BY <2>3 DEF BlocksOK
  <2>4. ASSUME NEW op \in ops, e = [op |-> op, result |-> result[op]]
        PROVE  e.result \in Results
    BY <2>1, <2>4
  <2> QED
    BY <2>2, <2>3, <2>4
<1> QED
  BY <1>4, <1>5, <1>6 DEF BlocksOK

LEMMA NextKeepsNonces ==
    ASSUME SdkInv, NonceInv, [SdkNext]_vars
    PROVE  NonceInv'
<1>1. Shapes
  BY DEF SdkInv, ServiceInv
<1>2. ASSUME chain' = chain
      PROVE  BlocksOK'
  <2>1. Events' = Events /\ \A a : OpsOf(a)' = OpsOf(a)
    BY <1>2 DEF OpsOf, Included, Events
  <2> QED
    BY <1>2, <2>1 DEF NonceInv, BlocksOK
<1>3. ASSUME NEW c \in Caller, NEW ops, OnePerSender(ops), bundle' = [bundle EXCEPT ![c] = ops],
             chain' = chain, inFlight' \in {inFlight, bundle[c]}
      PROVE  NonceInv'
  <2>1. ASSUME NEW d \in Caller PROVE OnePerSender(bundle'[d])
    BY <1>1, <1>3 DEF Shapes, NonceInv
  <2>2. OnePerSender(inFlight')
    BY <1>3 DEF NonceInv
  <2> QED
    BY <1>2, <1>3, <2>1, <2>2 DEF NonceInv, OnePerSender
<1>4. ASSUME UNCHANGED <<bundle, chain, inFlight>>
      PROVE  NonceInv'
  BY <1>2, <1>4 DEF NonceInv, OnePerSender
<1>5. OnePerSender({})
  BY DEF OnePerSender
<1>6. ASSUME NEW c \in Caller, Attempt(c) PROVE NonceInv'
  <2>1. CASE ScanEvents(c) \/ Flush(c)
    BY <1>4, <2>1 DEF ScanEvents, Flush, nodeVars
  <2>2. CASE CreateBundle(c)
    <3>1. PICK ops : /\ OnePerSender(ops)
                     /\ LeaveBundle(c) \/ bundle' = [bundle EXCEPT ![c] = ops]
      BY <2>2 DEF CreateBundle, OnePerSender
    <3>2. UNCHANGED <<chain, inFlight>>
      BY <2>2 DEF CreateBundle
    <3>3. LeaveBundle(c) => bundle' = [bundle EXCEPT ![c] = {}]
      BY DEF LeaveBundle
    <3> QED
      BY <1>3, <1>5, <3>1, <3>2, <3>3
  <2>3. CASE SendBundle(c)
    <3>1. bundle' = [bundle EXCEPT ![c] = {}]
      BY <2>3 DEF SendBundle, LeaveBundle
    <3>2. chain' = chain /\ inFlight' \in {inFlight, bundle[c]}
      BY <2>3 DEF SendBundle
    <3> QED
      BY <1>3, <1>5, <3>1, <3>2
  <2>4. CASE AttemptFails(c)
    BY <1>3, <1>5, <2>4 DEF AttemptFails, nodeVars
  <2> QED
    BY <1>6, <2>1, <2>2, <2>3, <2>4 DEF Attempt
<1>7. ASSUME NEW r \in Request,
             Validated(r) \/ ValidationFailed(r) \/ PoolUserOp(r) \/ ReplacementRefused(r)
      PROVE  NonceInv'
  BY <1>4, <1>7 DEF Validated, ValidationFailed, PoolUserOp, ReplacementRefused, nodeVars
<1>8. CASE MineElsewhere \/ MineInFlight
  <2>1. bundle' = bundle /\ inFlight' \in {inFlight, {}}
    BY <1>8 DEF MineElsewhere, MineInFlight, nodeVars
  <2>2. BlocksOK'
    <3>1. \A op : OnePerSender({op})
      BY DEF OnePerSender
    <3>2. PICK results \in SUBSET Results : \E ops : OnePerSender(ops) /\ Mine(ops, results)
      <4>1. {} \in SUBSET Results /\ {"success"} \in SUBSET Results
        BY DEF Results
      <4>2. CASE Mine({}, {})
        BY <1>5, <4>1, <4>2
      <4>3. ASSUME NEW op, Mine({op}, {"success"})
            PROVE  \E results \in SUBSET Results :
                      \E ops : OnePerSender(ops) /\ Mine(ops, results)
        BY <3>1, <4>1, <4>3
      <4>4. CASE Mine(inFlight, Results)
        BY <4>4 DEF NonceInv
      <4>5. MineElsewhere => Mine({}, {}) \/ \E op : Mine({op}, {"success"})
        BY Zenon DEF MineElsewhere
      <4>6. MineInFlight => Mine({}, {}) \/ Mine(inFlight, Results)
        BY DEF MineInFlight
      <4> QED
        BY <1>8, <4>2, <4>3, <4>4, <4>5, <4>6
    <3>3. PICK ops : OnePerSender(ops) /\ Mine(ops, results)
      BY <3>2
    <3>4. BlocksOK
      BY DEF NonceInv
    <3> QED
      BY <1>1, <3>3, <3>4, BlockRaisesNonceByOne
  <2>3. OnePerSender(inFlight')
    BY <1>5, <2>1 DEF NonceInv
  <2> QED
    BY <2>1, <2>2, <2>3 DEF NonceInv, OnePerSender
<1>9. CASE \/ \E c \in Ticks \cup BundleNow : ForceBundle(c)
           \/ \E m \in Modes : SetBundleInterval(m)
           \/ ClearState
  BY <1>4, <1>9 DEF ForceBundle, SetBundleInterval, ClearState, nodeVars
<1>10. ASSUME NEW t \in Request, SendUserOpToBundler(t)
       PROVE  NonceInv'
  BY <1>4, <1>10 DEF SendUserOpToBundler, Arrive, nodeVars
<1>11. ASSUME NEW t \in Request,
              GetInitCode(t) \/ GetNonce(t) \/ ReadNonce(t) \/ Wait(t) \/ Listen(t)
       PROVE  NonceInv'
  BY <1>4, <1>11 DEF GetInitCode, GetNonce, ReadNonce, Wait, Listen, QueryLatest, Poll,
     ListenerCallback, TimedOut, WaitReturns, execVars
<1>12. CASE UNCHANGED vars
  BY <1>4, <1>12 DEF vars, execVars
<1> QED
  BY <1>6, <1>7, <1>8, <1>9, <1>10, <1>11, <1>12 DEF SdkNext, ExecStep, Serve

---------------------------------------------------------------------------
(* The clients.                                                            *)

ClientTypes(t) ==
    /\ draft[t].pc \in {"idle", "nonce", "account", "send", "sent"}
    /\ draft[t].nonce \in 0..MaxBlocks
    /\ listener[t].at \in {"none", "delay", "once", "callback", "deployed?", "returned", "end"}
    /\ outcome[t] \in {"none", "success", "failed", "reverted", "timeout"}

LEMMA NextKeepsClientTypes ==
    ASSUME SdkInv, BlocksOK, \A t \in Request : ClientTypes(t), [SdkNext]_vars
    PROVE  \A t \in Request : ClientTypes(t)'
<1>1. Shapes
  BY DEF SdkInv, ServiceInv
<1>2. ASSUME UNCHANGED <<draft, listener, outcome>>
      PROVE  \A t \in Request : ClientTypes(t)'
  BY <1>2 DEF ClientTypes
<1>3. ASSUME NEW t \in Request, ClientTypes(t)',
             \A u \in Request : u # t =>
                /\ draft'[u] = draft[u] /\ listener'[u] = listener[u]
                /\ outcome'[u] = outcome[u]
      PROVE  \A u \in Request : ClientTypes(u)'
  BY <1>3 DEF ClientTypes
<1>4. ASSUME NEW t \in Request, NEW pc \in {"idle", "nonce", "account", "send", "sent"},
             NEW i, NEW n \in 0..MaxBlocks, Redrafts(t, pc, i, n), UNCHANGED <<listener, outcome>>
      PROVE  \A u \in Request : ClientTypes(u)'
  <2>1. /\ draft'[t] = [pc |-> pc, initCode |-> i, nonce |-> n]
        /\ \A u \in Request : u # t => draft'[u] = draft[u]
    BY <1>1, <1>4, RedraftedShape
  <2>2. draft'[t].pc = pc /\ draft'[t].nonce = n
    BY <2>1
  <2>3. ClientTypes(t)'
    BY <1>4, <2>2 DEF ClientTypes
  <2> QED
    BY <1>3, <1>4, <2>1, <2>3
<1>5. ASSUME NEW t \in Request, NEW from \in Nat, NEW event,
             NEW at \in {"none", "delay", "once", "callback", "deployed?", "returned", "end"},
             Relistens(t, at, from, event), UNCHANGED draft,
             outcome' = outcome
                \/ \E r \in Results \cup {"none", "timeout"} : outcome' = [outcome EXCEPT ![t] = r]
      PROVE  \A u \in Request : ClientTypes(u)'
  <2>1. /\ listener'[t] = [at |-> at, from |-> from, event |-> event]
        /\ \A u \in Request : u # t => listener'[u] = listener[u]
    BY <1>1, <1>5, RelistenedShape
  <2>2. listener'[t].at = at
    BY <2>1
  <2>3. /\ outcome'[t] \in {"none", "success", "failed", "reverted", "timeout"}
        /\ \A u \in Request : u # t => outcome'[u] = outcome[u]
    BY <1>1, <1>5 DEF Shapes, Results, ClientTypes
  <2>4. ClientTypes(t)'
    BY <1>5, <2>2, <2>3 DEF ClientTypes
  <2> QED
    BY <1>3, <1>5, <2>1, <2>3, <2>4
<1>6. ASSUME NEW t \in Request, GetInitCode(t) \/ GetNonce(t) \/ SendUserOpToBundler(t)
      PROVE  \A u \in Request : ClientTypes(u)'
  <2>1. PICK pc \in {"idle", "nonce", "account", "send", "sent"} :
           \E i : Redrafts(t, pc, i, draft[t].nonce)
    BY <1>1, <1>6, UpdatesRedraft DEF GetInitCode, GetNonce, SendUserOpToBundler
  <2>2. UNCHANGED <<listener, outcome>>
    BY <1>6 DEF GetInitCode, GetNonce, SendUserOpToBundler
  <2>3. draft[t].nonce \in 0..MaxBlocks
    BY DEF ClientTypes
  <2> QED
    BY <1>4, <2>1, <2>2, <2>3
<1>7. ASSUME NEW t \in Request, ReadNonce(t)
      PROVE  \A u \in Request : ClientTypes(u)'
  <2>1. Redrafts(t, "send", draft[t].initCode, NonceOf(SenderOf[t]))
    BY <1>1, <1>7, UpdatesRedraft DEF ReadNonce
  <2>2. NonceOf(SenderOf[t]) \in 0..MaxBlocks
    BY <1>1, NoncesAreBounded
  <2>3. UNCHANGED <<listener, outcome>>
    BY <1>7 DEF ReadNonce
  <2> QED
    BY <1>4, <2>1, <2>2, <2>3
<1>8. ASSUME NEW t \in Request, Wait(t) \/ WaitReturns(t)
      PROVE  \A u \in Request : ClientTypes(u)'
  <2>1. PICK at \in {"delay", "returned"} :
           Relistens(t, at, listener[t].from, listener[t].event)
    BY <1>1, <1>8, UpdatesRelisten DEF Wait, WaitReturns
  <2>2. UNCHANGED <<draft, outcome>> /\ listener[t].from \in Nat
    BY <1>1, <1>8 DEF Wait, WaitReturns, Shapes
  <2> QED
    BY <1>5, <2>1, <2>2
<1>9. ASSUME NEW t \in Request, QueryLatest(t) \/ Poll(t)
      PROVE  \A u \in Request : ClientTypes(u)'
  <2>1. Len(chain) + 1 \in Nat /\ listener[t].from \in Nat
    BY <1>1 DEF Shapes
  <2>2. PICK at \in {"once", "callback"}, from \in Nat :
           \E event : Relistens(t, at, from, event)
    <3>1. CASE QueryLatest(t)
      <4>1. \/ \E e : listener' = [listener EXCEPT ![t].at = "callback", ![t].event = {e}]
            \/ listener' = [listener EXCEPT ![t] = [listener[t] EXCEPT !.at = "once"]]
        BY <3>1 DEF QueryLatest, Hear
      <4> QED
        BY <1>1, <2>1, <4>1, UpdatesRelisten
    <3>2. CASE Poll(t)
      <4>1. \/ \E e : listener' = [listener EXCEPT ![t].at = "callback", ![t].event = {e}]
            \/ listener' = [listener EXCEPT ![t] = [listener[t] EXCEPT !.from = Len(chain) + 1]]
        BY <3>2 DEF Poll, Hear
      <4>2. listener[t].at = "once"
        BY <3>2 DEF Poll
      <4>3. ASSUME NEW e, listener' = [listener EXCEPT ![t].at = "callback", ![t].event = {e}]
            PROVE  Relistens(t, "callback", listener[t].from, {e})
        BY <1>1, <4>3, UpdatesRelisten
      <4>4. ASSUME listener' = [listener EXCEPT ![t] = [listener[t] EXCEPT !.from = Len(chain) + 1]]
            PROVE  Relistens(t, "once", Len(chain) + 1, listener[t].event)
        BY <1>1, <4>2, <4>4, UpdatesRelisten
      <4> QED
        BY <2>1, <4>1, <4>3, <4>4
    <3> QED
      BY <1>9, <3>1, <3>2
  <2>3. UNCHANGED <<draft, outcome>>
    BY <1>9 DEF QueryLatest, Poll
  <2> QED
    BY <1>5, <2>2, <2>3
<1>10. ASSUME NEW t \in Request, ListenerCallback(t)
       PROVE  \A u \in Request : ClientTypes(u)'
  <2>1. PICK e \in listener[t].event : Settle(t, e.result)
    BY <1>10 DEF ListenerCallback
  <2>2. e.result \in Results
    BY DEF SdkInv, ListenerIsTrue, BlocksOK
  <2>3. PICK r \in Results \cup {"none", "timeout"} : outcome' = [outcome EXCEPT ![t] = r]
    <3>1. CASE outcome[t] = "none"
      BY <1>1, <2>1, <2>2, <3>1 DEF Settle, Shapes
    <3>2. CASE outcome[t] # "none"
      <4>1. outcome' = [outcome EXCEPT ![t] = outcome[t]]
        BY <1>1, <2>1, <3>2 DEF Settle, Shapes
      <4> QED
        BY <4>1 DEF ClientTypes, Results
    <3> QED
      BY <3>1, <3>2
  <2>4. PICK at \in {"deployed?", "end"} : Relistens(t, at, 0, {})
    BY <1>10 DEF ListenerCallback, Relistens
  <2>5. UNCHANGED draft
    BY <1>10 DEF ListenerCallback
  <2> QED
    BY <1>5, <2>3, <2>4, <2>5
<1>11. ASSUME NEW t \in Request, TimedOut(t)
       PROVE  \A u \in Request : ClientTypes(u)'
  <2>1. outcome' = [outcome EXCEPT ![t] = "timeout"] /\ UNCHANGED <<draft, listener>>
    BY <1>1, <1>11 DEF TimedOut, Settle, Shapes
  <2>2. outcome'[t] = "timeout" /\ \A u \in Request : u # t => outcome'[u] = outcome[u]
    BY <1>1, <2>1 DEF Shapes
  <2>3. ClientTypes(t)'
    BY <2>1, <2>2 DEF ClientTypes
  <2> QED
    BY <1>3, <2>1, <2>2, <2>3
<1>12. CASE (ExecStep /\ UNCHANGED sdkVars) \/ UNCHANGED vars
  BY <1>2, <1>12 DEF vars, sdkVars
<1> QED
  BY <1>6, <1>7, <1>8, <1>9, <1>10, <1>11, <1>12 DEF SdkNext, Listen

---------------------------------------------------------------------------
TypeInv ==
    /\ SdkInv /\ QueueInv /\ NonceInv
    /\ \A t \in Request : ClientTypes(t)

LEMMA InitTypes == SdkInit => TypeInv
<1> SUFFICES ASSUME SdkInit PROVE TypeInv
  OBVIOUS
<1>1. /\ chain = <<>> /\ execQueue = <<>> /\ bundleQueue = <<>>
      /\ params = [r \in Request |-> NoOp]
      /\ stage = [c \in Caller |-> "idle"]
      /\ bundle = [c \in Caller |-> {}]
      /\ answer = [r \in Request |-> "none"]
      /\ draft = [t \in Request |-> [pc |-> "idle", initCode |-> FALSE, nonce |-> 0]]
      /\ listener = [t \in Request |-> [at |-> "none", from |-> 0, event |-> {}]]
      /\ outcome = [t \in Request |-> "none"]
      /\ inFlight = {}
  BY DEF SdkInit, ExecInit
<1>2. AtExec = {} /\ AtBundle = {}
  BY <1>1 DEF AtExec, AtBundle, ExecStages, BundleStages, Caller
<1>3. IsQueueOf(<<>>, {})
  BY DEF IsQueueOf, ToSet
<1>4. QueueInv
  BY <1>1, <1>2, <1>3 DEF QueueInv, Caller
<1>5. Events = {} /\ Included = {}
  BY <1>1 DEF Events, Included, ToSet
<1>6. \A a : OpsOf(a) = {}
  BY <1>5 DEF OpsOf
<1>7. BlocksOK
  <2>1. Len(chain) = 0 /\ MaxBlocks \in Nat
    BY <1>1, ExecutionAssumption
  <2>2. ASSUME NEW a PROVE IsFiniteSet(OpsOf(a)) /\ Cardinality(OpsOf(a)) = 0
    BY <1>6, FS_EmptySet
  <2>3. ASSUME NEW a PROVE Cardinality(OpsOf(a)) <= 0
    BY <2>2
  <2>4. Len(chain) <= MaxBlocks
    BY <2>1
  <2> QED
    BY <1>5, <2>1, <2>2, <2>3, <2>4 DEF BlocksOK
<1>8. NonceInv
  BY <1>1, <1>7 DEF NonceInv, OnePerSender
<1>9. ASSUME NEW t \in Request PROVE ClientTypes(t)
  BY <1>1, ExecutionAssumption DEF ClientTypes
<1> QED
  BY <1>4, <1>8, <1>9, InitInv DEF TypeInv

(* The two invariants together, with who waits where and how many blocks    *)
(* there are, hold of every run.                                            *)
THEOREM TypesHold == SdkSpec => []TypeInv
<1>1. SdkInit => TypeInv
  BY InitTypes
<1>2. TypeInv /\ [SdkNext]_vars => TypeInv'
  BY NextInv, NextKeepsQueues, NextKeepsNonces, NextKeepsClientTypes DEF TypeInv, NonceInv
<1> QED
  BY <1>1, <1>2, PTL DEF SdkSpec

(* The queues of the two mutexes hold exactly the callers that wait for     *)
(* them or hold them, drafts carry nonces the chain can have, and every     *)
(* await is one the code has.                                               *)
THEOREM SdkTypeCorrect == SdkSpec => []SdkTypeOK
<1>1. TypeInv => SdkTypeOK
  <2> SUFFICES ASSUME TypeInv PROVE SdkTypeOK
    OBVIOUS
  <2>1. QueueInv /\ \A t \in Request : ClientTypes(t)
    BY DEF TypeInv
  <2>2. /\ \A c \in Caller : stage[c] \in {"idle", "validate", "hash", "scan", "create", "send",
                                           "flush", "done", "refused"}
        /\ \A r \in Request : r \in Caller
    BY <2>1 DEF QueueInv, ExecStages, Caller
  <2>3. AtExec = {r \in Request : stage[r] \notin {"idle", "done", "refused"}}
    BY <2>2 DEF AtExec, ExecStages
  <2>4. AtBundle = {c \in Caller : stage[c] \in {"scan", "create", "send"}}
    BY DEF AtBundle, BundleStages
  <2> QED
    BY <2>1, <2>2, <2>3, <2>4 DEF QueueInv, IsQueueOf, ClientTypes, SdkTypeOK
<1> QED
  BY <1>1, TypesHold, PTL

(* The guards under which the code of a caller goes on: it has the mutex it *)
(* is to have at its await.  What it finds there decides which way, not     *)
(* whether.                                                                 *)
GoesOn(c) ==
    \/ c \in Request /\ stage[c] = "validate" /\ HoldsExec(c)
    \/ c \in Request /\ stage[c] = "hash"
    \/ stage[c] \in {"scan", "create", "send"} /\ HoldsBundle(c)
    \/ stage[c] = "flush"

(* The mutexes never wait for each other in a circle: while a request is    *)
(* unanswered, the head of one of the two queues, or one that has left      *)
(* them, may go on.                                                         *)
NoCircularWait ==
    (\E r \in Request : params[r] # NoOp /\ answer[r] = "none") => \E c \in Caller : GoesOn(c)

(* However requests, the timer and debug calls overlap, and whatever fails, *)
(* the mutex of ExecutionManager, held while that of BundleManager is       *)
(* waited for, leads to no deadlock.                                        *)
THEOREM NoCircle == SdkSpec => []NoCircularWait
<1>1. TypeInv => NoCircularWait
  <2> SUFFICES ASSUME TypeInv, NEW r \in Request, params[r] # NoOp, answer[r] = "none"
               PROVE  \E c \in Caller : GoesOn(c)
    BY DEF NoCircularWait
  <2>1. QueueInv /\ Request \subseteq Caller
    BY DEF TypeInv, Caller
  <2>2. r \in AtExec
    BY <2>1 DEF QueueInv, AtExec
  <2>3. PICK h \in AtExec : HoldsExec(h)
    BY <2>1, <2>2, SomebodyHolds DEF QueueInv, HoldsExec
  <2>4. CASE stage[h] \in {"validate", "hash", "flush"}
    BY <2>1, <2>3, <2>4 DEF AtExec, GoesOn
  <2>5. CASE stage[h] \in BundleStages
    <3>1. h \in AtBundle
      BY <2>1, <2>5 DEF AtBundle, AtExec
    <3>2. PICK c \in AtBundle : HoldsBundle(c)
      BY <2>1, <3>1, SomebodyHolds DEF QueueInv, HoldsBundle
    <3> QED
      BY <3>2 DEF AtBundle, BundleStages, GoesOn
  <2> QED
    BY <2>3, <2>4, <2>5 DEF AtExec, ExecStages, BundleStages
<1> QED
  BY <1>1, TypesHold, PTL
=============================================================================
