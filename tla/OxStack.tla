------------------------------- MODULE OxStack -------------------------------
(***************************************************************************)
(* The operand stack of the engine and the mathcap of its peer: what the   *)
(* commands of nullserverCommand do (kxx/sm1stackmachine.c), how a failure *)
(* becomes an error packet (KSexecuteString and ErrorStack of              *)
(* Kan/stackmachine.c), and what SM_popCMO may send (plugin/oxmisc2.c).    *)
(*                                                                         *)
(* One step is one message; how it is read and written is in OxEngine.     *)
(* An object has the request that made it; its value is left out, but for  *)
(* lists, which are the sets of their elements.  Left out too: objects     *)
(* that nest deeper than lists of lists, executable arrays, the operands   *)
(* that a command pushes for itself and pops again, users' programs that   *)
(* change Strict or ErrorMessageMode, error packets sent by the client,    *)
(* and mathcaps with more than one data format.                            *)
(***************************************************************************)
EXTENDS Naturals, Sequences

CONSTANTS
  OspMax,       \* size of the operand stack
  ErrorMax,     \* size of ErrorStack
  MaxMessages   \* bound of the model: messages handled

ASSUME StackAssumption == OspMax \in Nat /\ ErrorMax \in Nat \ {0} /\ MaxMessages \in Nat

VARIABLES
  OperandStack,   \* its last element is the top
  ErrorStack,     \* the requests whose failures are kept
  mathcapList,    \* of the stream to the peer: empty (NULL) or one object
  bound,          \* empty, or what a name is bound to; one name is modelled
  nested,         \* KSexecuteString's counter is positive: it sets no jump buffer
  SerialCurrent,  \* the message handled last
  ran,            \* that message if it ran a program that left a result or failed, or 0
  answer,         \* the answer to that message: a header sent, a body, and ran before it
  misused         \* auxiliary: what was registered was not a fit mathcap just sent

vars == <<OperandStack, ErrorStack, mathcapList, bound, nested, SerialCurrent, ran, answer, misused>>

----------------------------------------------------------------------------
(***************************************************************************)
(* Objects.                                                                *)
(***************************************************************************)

\* Forms of a mathcap that is received as [(mathcap-object) [info, SM tags, data]]: data is
\* [[514, list of CMO tags]] with every tag, with those of simple objects, or with none; the
\* same without brackets around the pair, as stackmachine.tex prints it; or it has no OX_DATA.
Listing == {"all", "simple", "none"}
Forms == Listing \cup {"unpaired", "noData"}

Make(k, n) == [kind |-> k, of |-> n, tells |-> 0, form |-> "", elems |-> {}]
List(f, E, n) == [kind |-> "list", of |-> n, tells |-> 0, form |-> f, elems |-> E]
Received(f, n) == List(f, {Make("string", n), List("", {Make("int", n)}, n)}, n)

\* serial number and, in the message, whose failure it tells (0: nobody's).
Error(n, m) == [kind |-> "error", of |-> n, tells |-> m, form |-> "", elems |-> {}]
NullObject == Make("null", 0)

\* What a program may leave: a "handle" is an object of sm1 that has no CMO tag.
Results(n) == {Make(k, n) : k \in {"int", "tree", "handle"}} \cup {List("", {Make("tree", n)}, n)}

\* What a client sends.
Operands(n) ==
  {Make(k, n) : k \in {"int", "string"}} \cup {Received(f, n) : f \in Forms}
    \cup {List("", {List("", {Make(k, n)}, n)}, n) : k \in {"int", "tree"}}

typeTrans ==
  [null |-> "CMO_NULL", int |-> "CMO_INT32", string |-> "CMO_STRING", list |-> "CMO_LIST",
   tree |-> "CMO_TREE", error |-> "CMO_ERROR2", mathcap |-> "CMO_MATHCAP", handle |-> "unknown"]

Tags(form) ==
  CASE form = "all" -> {typeTrans[k] : k \in DOMAIN typeTrans \ {"handle"}}
    [] form = "simple" -> {"CMO_NULL", "CMO_INT32", "CMO_STRING", "CMO_LIST"}
    [] OTHER -> {}

----------------------------------------------------------------------------
(***************************************************************************)
(* The stacks.                                                             *)
(***************************************************************************)
Kpush(s, o) == Append(s, o)
Drop(s, k) == SubSeq(s, 1, Len(s) - k)
Kpop(s) == IF s = <<>> THEN s ELSE Drop(s, 1)
peek(s) == IF s = <<>> THEN NullObject ELSE s[Len(s)]

\* Kpush on the last place: with Strict a warning is an error, whose handling pushes again.
Lost == Len(OperandStack) >= OspMax

\* Mutant: it is reset one packet later.
pushErrorStackLate(n) ==
  IF Len(ErrorStack) >= ErrorMax THEN <<>> ELSE Append(ErrorStack, n)

pushErrorStack(n) ==
  IF Len(ErrorStack) + 1 >= ErrorMax THEN <<>> ELSE Append(ErrorStack, n)

\* Mutant: the oldest packet is taken.
popErrorStackOldest(es) == IF es = <<>> THEN 0 ELSE es[1]

popErrorStackByString(es) == IF es = <<>> THEN 0 ELSE es[Len(es)]

Interrupted == Make("string", 0)   \* "(Computation is interrupted.)"

----------------------------------------------------------------------------
(***************************************************************************)
(* How a message is handled.                                               *)
(***************************************************************************)
NoAnswer == [header |-> FALSE, body |-> <<>>, after |-> 0]

Handle(n) ==
  /\ ~Lost /\ SerialCurrent < MaxMessages
  /\ n = SerialCurrent + 1
  /\ SerialCurrent' = n

Quietly == ran' = 0 /\ answer' = NoAnswer

\* An error that nobody catches but nullserver: "Global jump by sm1 error".
JumpToNullserver(n, s) ==
  /\ ErrorStack' = pushErrorStack(n)
  /\ OperandStack' = Kpush(s, Error(n, 0))

\* KSexecuteString fails: its own jump buffer is used only when it has set one.
Fails(n, s) ==
  IF nested THEN JumpToNullserver(n, s)
            ELSE ErrorStack' = pushErrorStack(n) /\ OperandStack' = Kpush(s, Interrupted)

\* Mutant: the error is pushed before the stack machine has cleaned up.
FailsWithErrorBelow(n, s) ==
  IF nested THEN JumpToNullserver(n, s)
            ELSE LET es == pushErrorStack(n)
                 IN /\ OperandStack' = Kpush(Kpush(s, Error(n, popErrorStackByString(es))), Interrupted)
                    /\ ErrorStack' = Kpop(es)

\* The same, and the caller looks at the result: Sm1_popErrorMessage, Sm1_pushError2.
FailsWithError(n, s) ==
  IF nested THEN JumpToNullserver(n, s)
            ELSE LET es == pushErrorStack(n)
                 IN /\ OperandStack' = Kpush(Kpush(s, Interrupted), Error(n, popErrorStackByString(es)))
                    /\ ErrorStack' = Kpop(es)

----------------------------------------------------------------------------
(***************************************************************************)
(* The mathcap.                                                            *)
(***************************************************************************)
\* Mutant: elements of elements are not looked at.
cmoCheckFlat(o, cmo) ==
  /\ typeTrans[o.kind] \in cmo
  /\ \A e \in o.elems : typeTrans[e.kind] \in cmo

ListElements(o) == IF o.kind = "list" THEN o.elems ELSE {}

\* It calls itself for each element, down to the depth that objects of the model have.
cmoCheck00(o, cmo) ==
  \A e \in {o} \cup ListElements(o) : \A x \in {e} \cup ListElements(e) : typeTrans[x.kind] \in cmo

\* An empty list of tags lets everything pass (n = 0 means something else to cmoCheck00);
\* without OX_DATA two elements of an array are compared that nobody has written.
cmoCheckMathCap(o) ==
  IF mathcapList = <<>> THEN {"pass"}
  ELSE LET form == mathcapList[1].form
       IN CASE form \in {"", "unpaired"} -> {"error"}
            [] form = "noData" -> {"pass", "protect"}
            [] OTHER -> {IF Tags(form) = {} \/ cmoCheck00(o, Tags(form)) THEN "pass" ELSE "protect"}

----------------------------------------------------------------------------
(***************************************************************************)
(* Messages.                                                               *)
(***************************************************************************)
Init ==
  /\ OperandStack = <<>> /\ ErrorStack = <<>> /\ mathcapList = <<>> /\ bound = <<>>
  /\ nested = FALSE /\ SerialCurrent = 0 /\ ran = 0 /\ answer = NoAnswer /\ misused = FALSE

\* OX_DATA.  A body that the CMO parser rejects ends in a jump.
Sm1_pushCMO(n) ==
  /\ Handle(n) /\ Quietly
  /\ \/ \E o \in Operands(n) : OperandStack' = Kpush(OperandStack, o) /\ UNCHANGED ErrorStack
     \/ JumpToNullserver(n, OperandStack)
  /\ UNCHANGED <<mathcapList, bound, nested, misused>>

\* Commands that push one object and take none: SM_mathcap, SM_getsp, SM_dupErrors (a list
\* of the error packets on the stack) and SM_pushCMOtag.
Errors(s) == {s[i] : i \in {j \in DOMAIN s : s[j].kind = "error"}}

PushOne(n) ==
  /\ Handle(n) /\ Quietly
  /\ \E o \in {Make("mathcap", n), Make("int", n), List("", Errors(OperandStack), n),
               IF typeTrans[peek(OperandStack).kind] = "unknown" THEN Error(n, n) ELSE Make("int", n)} :
        OperandStack' = Kpush(OperandStack, o)
  /\ UNCHANGED <<ErrorStack, mathcapList, bound, nested, misused>>

\* Mutant: it is popped once more after it has been printed.
Sm1_setMathCapPrinted(n) ==
  /\ Handle(n) /\ Quietly
  /\ LET o == peek(OperandStack)
     IN /\ mathcapList' = <<peek(Kpop(OperandStack))>>
        /\ misused' = (misused \/ o.form \notin Listing \/ o.of # SerialCurrent)
  /\ OperandStack' = Kpop(Kpop(OperandStack))
  /\ UNCHANGED <<ErrorStack, bound, nested>>

\* What is on top is registered, whatever it is.
Sm1_setMathCap(n) ==
  /\ Handle(n) /\ Quietly
  /\ LET o == peek(OperandStack)
     IN /\ mathcapList' = <<o>>
        /\ misused' = (misused \/ o.form \notin Listing \/ o.of # SerialCurrent)
  /\ OperandStack' = Kpop(OperandStack)
  /\ UNCHANGED <<ErrorStack, bound, nested>>

\* A number on top: so many are dropped.  Anything else: "for" fails, and nobody looks.
Sm1_pops(n) ==
  /\ Handle(n) /\ Quietly
  /\ LET s == Kpop(OperandStack)
     IN IF peek(OperandStack).kind = "int"
          THEN (\E k \in 0 .. Len(s) : OperandStack' = Drop(s, k)) /\ UNCHANGED ErrorStack
          ELSE Fails(n, s)
  /\ UNCHANGED <<mathcapList, bound, nested, misused>>

\* toString makes a name of whatever is on top.
Sm1_setName(n) ==
  /\ Handle(n) /\ Quietly
  /\ LET s == Kpop(OperandStack)
     IN bound' = <<peek(s)>> /\ OperandStack' = Kpop(s)
  /\ UNCHANGED <<ErrorStack, mathcapList, nested, misused>>

Sm1_evalName(n) ==
  /\ Handle(n) /\ Quietly
  /\ LET s == Kpop(OperandStack)
     IN \/ bound # <<>> /\ OperandStack' = Kpush(s, bound[1])
        \/ OperandStack' = Kpush(s, Error(n, n))
  /\ UNCHANGED <<ErrorStack, mathcapList, bound, nested, misused>>

\* SM_executeStringByLocalParser and both SM_executeFunction: a program takes operands and
\* leaves a result or none, fails, or is interrupted by a reset, which leaves KSexecuteString
\* in the middle.
Sm1_executeStringByLocalParser(n) ==
  /\ Handle(n) /\ answer' = NoAnswer
  /\ \E k \in 0 .. Len(Kpop(OperandStack)) :
       LET s == Drop(Kpop(OperandStack), k)
       IN \/ /\ \E o \in Results(n) : OperandStack' = Kpush(s, o)
             /\ ran' = n /\ UNCHANGED <<ErrorStack, nested>>
          \/ /\ OperandStack' = s
             /\ ran' = 0 /\ UNCHANGED <<ErrorStack, nested>>
          \/ /\ FailsWithError(n, s)
             /\ ran' = n /\ UNCHANGED nested
          \/ /\ OperandStack' = Kpush(s, Interrupted)
             /\ nested' = TRUE /\ ran' = 0 /\ UNCHANGED ErrorStack
  /\ UNCHANGED <<mathcapList, bound, misused>>

Answers(o) == answer' = [header |-> TRUE, body |-> <<o>>, after |-> ran]

\* The header is on its way before the object is looked at.
Sm1_popCMO(n) ==
  /\ Handle(n) /\ ran' = 0
  /\ LET o == peek(OperandStack)
         s == Kpop(OperandStack)
     IN \E verdict \in cmoCheckMathCap(o) :
          \/ /\ verdict = "pass" /\ Answers(o)
             /\ OperandStack' = s /\ UNCHANGED ErrorStack
          \/ /\ verdict = "protect" /\ Answers(Error(n, n))
             /\ OperandStack' = s /\ UNCHANGED ErrorStack
          \/ /\ verdict = "error"
             /\ answer' = [header |-> TRUE, body |-> <<>>, after |-> ran]
             /\ JumpToNullserver(n, s)
  /\ UNCHANGED <<mathcapList, bound, nested, misused>>

\* The mathcap is not asked.
Sm1_popString(n) ==
  /\ Handle(n) /\ ran' = 0
  /\ Answers(Make("string", peek(OperandStack).of))
  /\ OperandStack' = Kpop(OperandStack)
  /\ UNCHANGED <<ErrorStack, mathcapList, bound, nested, misused>>

\* A reset that finds the engine at rest.  One that finds it busy elsewhere is only noted.
InterruptAtRest ==
  /\ ~Lost
  /\ OperandStack' = Kpush(OperandStack, Interrupted)
  /\ Quietly
  /\ UNCHANGED <<ErrorStack, mathcapList, bound, nested, SerialCurrent, misused>>

Next ==
  \/ InterruptAtRest
  \/ \E n \in 1 .. MaxMessages :
       \/ Sm1_pushCMO(n) \/ PushOne(n) \/ Sm1_setMathCap(n) \/ Sm1_pops(n)
       \/ Sm1_setName(n) \/ Sm1_evalName(n) \/ Sm1_executeStringByLocalParser(n)
       \/ Sm1_popCMO(n) \/ Sm1_popString(n)

Spec == Init /\ [][Next]_vars

----------------------------------------------------------------------------
(***************************************************************************)
(* Properties.                                                             *)
(***************************************************************************)
\* What has no elements, lists of such a set E, and the objects of n messages.
Plain(n) ==
  [kind : DOMAIN typeTrans \ {"list"}, of : 0 .. n, tells : 0 .. n, form : {""}, elems : {{}}]
Lists(n, E) ==
  [kind : {"list"}, of : 0 .. n, tells : {0}, form : Forms \cup {""}, elems : SUBSET E]
Objects(n) == Plain(n) \cup Lists(n, Plain(n) \cup Lists(n, Plain(n)))

\* Types.  The operand stack ends where the array does, but for the object and the error
\* that the handling of an overflow may add; ErrorStack is never full.
StackTypeOK ==
  /\ OperandStack \in Seq(Objects(SerialCurrent)) /\ Len(OperandStack) <= OspMax + 1
  /\ ErrorStack \in Seq(1 .. SerialCurrent) /\ Len(ErrorStack) < ErrorMax
  /\ mathcapList \in Seq(Objects(SerialCurrent)) /\ Len(mathcapList) <= 1
  /\ bound \in Seq(Objects(SerialCurrent)) /\ Len(bound) <= 1
  /\ nested \in BOOLEAN /\ misused \in BOOLEAN
  /\ SerialCurrent \in 0 .. MaxMessages /\ ran \in {0, SerialCurrent}
  /\ answer \in [header : BOOLEAN, body : Seq(Objects(SerialCurrent)), after : 0 .. SerialCurrent]

\* An object, its elements and their elements.
Within(o) == UNION {{e} \cup e.elems : e \in {o} \cup o.elems}

\* Whoever pops right after a program has failed or left a result gets that result, the
\* error packet of that failure, or the refusal of his own request: what a failure, an
\* interrupted program before it or a nested counter leaves on the stack is never on top.
OwnResult ==
  \A i \in DOMAIN answer.body :
     answer.after # 0 =>
       \/ answer.body[i].of = answer.after
       \/ answer.body[i].kind = "error" /\ answer.body[i].of = SerialCurrent

\* The message in an error packet is about the request whose number the packet has, or says
\* nothing: packets that SM_pops and jumps to nullserver leave on ErrorStack, and the
\* reset of a full ErrorStack, give no request the message of another.
TellsOwn(o) == \A x \in Within(o) : x.tells \in {0, x.of}

ErrorsTellOwnFailure ==
  /\ \A i \in DOMAIN OperandStack : TellsOwn(OperandStack[i])
  /\ \A i \in DOMAIN answer.body : TellsOwn(answer.body[i])

\* A client that has registered a mathcap, directly after sending it and with some tags in
\* it, is sent error packets and what it listed, in lists of lists too.
Sent(o) == {typeTrans[x.kind] : x \in Within(o)}

Protected ==
  \A i \in DOMAIN answer.body :
     ~misused /\ mathcapList # <<>> /\ answer.body[i].kind # "error" =>
       LET listed == Tags(mathcapList[1].form)
       IN listed = {} \/ Sent(answer.body[i]) \subseteq listed

\* A header is followed by a body, unless something else than a fit mathcap sent in the
\* message before has been registered.
AnswersAreWhole == answer.header /\ answer.body = <<>> => misused

=============================================================================
