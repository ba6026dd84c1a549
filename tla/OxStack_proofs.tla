---------------------------- MODULE OxStack_proofs ----------------------------
(***************************************************************************)
(* Proofs about OxStack, for stacks of any size and any number of          *)
(* messages.                                                               *)
(***************************************************************************)
EXTENDS OxStack, TLAPS

----------------------------------------------------------------------------
(***************************************************************************)
(* Stacks of a set S.                                                      *)
(***************************************************************************)
LEMMA Pushed ==
  ASSUME NEW S, NEW s \in Seq(S), NEW o \in S
  PROVE  /\ Kpush(s, o) \in Seq(S) /\ Len(Kpush(s, o)) = Len(s) + 1
         /\ Kpush(s, o) # <<>> /\ peek(Kpush(s, o)) = o
<1>1. Kpush(s, o) \in Seq(S) /\ Len(Kpush(s, o)) = Len(s) + 1 /\ Kpush(s, o)[Len(s) + 1] = o
  BY DEF Kpush
<1>2. Kpush(s, o) # <<>>
  BY <1>1
<1> QED BY <1>1, <1>2 DEF peek

LEMMA Dropped ==
  ASSUME NEW S, NEW s \in Seq(S), NEW k \in 0 .. Len(s)
  PROVE  Drop(s, k) \in Seq(S) /\ Len(Drop(s, k)) = Len(s) - k
<1>1. Len(s) \in Nat /\ Len(s) - k \in 0 .. Len(s)
  OBVIOUS
<1>2. \A i \in 1 .. Len(s) - k : i \in 1 .. Len(s)
  BY <1>1
<1> QED BY <1>1, <1>2 DEF Drop

LEMMA Popped ==
  ASSUME NEW S, NEW s \in Seq(S)
  PROVE  /\ Kpop(s) \in Seq(S) /\ Len(Kpop(s)) <= Len(s)
         /\ Len(s) # 0 => Len(Kpop(s)) = Len(s) - 1
<1>1. CASE s = <<>>
  BY <1>1 DEF Kpop
<1>2. CASE s # <<>>
  <2>1. Len(s) \in Nat /\ Len(s) # 0
    BY <1>2
  <2>2. 1 \in 0 .. Len(s)
    BY <2>1
  <2>3. Drop(s, 1) \in Seq(S) /\ Len(Drop(s, 1)) = Len(s) - 1
    BY <2>2, Dropped
  <2> QED BY <1>2, <2>1, <2>3 DEF Kpop
<1> QED BY <1>1, <1>2

LEMMA TopOf ==
  ASSUME NEW S, NEW s \in Seq(S), NullObject \in S
  PROVE  peek(s) \in S
<1>1. CASE s = <<>>
  BY <1>1 DEF peek
<1>2. CASE s # <<>>
  <2>1. Len(s) \in 1 .. Len(s)
    BY <1>2
  <2>2. s[Len(s)] \in S
    BY <2>1
  <2> QED BY <1>2, <2>2 DEF peek
<1> QED BY <1>1, <1>2

LEMMA OneOf ==
  ASSUME NEW S, NEW o \in S
  PROVE  <<o>> \in Seq(S) /\ Len(<<o>>) = 1 /\ <<o>>[1] = o /\ <<>> \in Seq(S) /\ Len(<<>>) = 0
  OBVIOUS

LEMMA AtMostOne ==
  ASSUME NEW S, NEW s \in Seq(S), Len(s) <= 1, NEW t, t = s \/ \E o \in S : t = <<o>>
  PROVE  t \in Seq(S) /\ Len(t) <= 1
<1>1. CASE t = s
  BY <1>1
<1>2. ASSUME NEW o \in S, t = <<o>>
      PROVE  t \in Seq(S) /\ Len(t) <= 1
  BY <1>2, OneOf
<1> QED BY <1>1, <1>2

LEMMA MoreSequences == ASSUME NEW S, NEW T, S \subseteq T PROVE Seq(S) \subseteq Seq(T)
  OBVIOUS

----------------------------------------------------------------------------
(***************************************************************************)
(* Objects whose error packets tell the failure of their own request.      *)
(***************************************************************************)
Own(n) == {o \in Objects(n) : TellsOwn(o)}

LEMMA Kinds ==
  DOMAIN typeTrans = {"null", "int", "string", "list", "tree", "error", "mathcap", "handle"}
  BY DEF typeTrans

LEMMA MorePlain ==
  ASSUME NEW m \in Nat, NEW n \in Nat, m <= n
  PROVE  Plain(m) \subseteq Plain(n)
<1>1. 0 .. m \subseteq 0 .. n
  OBVIOUS
<1> QED BY <1>1 DEF Plain

LEMMA MoreLists ==
  ASSUME NEW m \in Nat, NEW n \in Nat, m <= n, NEW E, NEW F, E \subseteq F
  PROVE  Lists(m, E) \subseteq Lists(n, F)
<1>1. 0 .. m \subseteq 0 .. n /\ SUBSET E \subseteq SUBSET F
  OBVIOUS
<1> QED BY <1>1 DEF Lists

LEMMA MoreObjects ==
  ASSUME NEW m \in Nat, NEW n \in Nat, m <= n
  PROVE  Own(m) \subseteq Own(n) /\ Seq(Own(m)) \subseteq Seq(Own(n))
<1>1. Plain(m) \subseteq Plain(n)
  BY MorePlain
<1>2. Plain(m) \cup Lists(m, Plain(m)) \subseteq Plain(n) \cup Lists(n, Plain(n))
  BY <1>1, MoreLists
<1>3. Objects(m) \subseteq Objects(n)
  BY <1>1, <1>2, MoreLists DEF Objects
<1>4. Own(m) \subseteq Own(n)
  BY <1>3 DEF Own
<1> QED BY <1>4, MoreSequences

LEMMA PlainMade ==
  ASSUME NEW n \in Nat, NEW k \in DOMAIN typeTrans \ {"list"}
  PROVE  Make(k, n) \in Plain(n) /\ Make(k, n).tells = 0 /\ Make(k, n).elems = {} /\ Make(k, n).of = n
  BY DEF Make, Plain

LEMMA PlainIsOwn ==
  ASSUME NEW n \in Nat, NEW o \in Plain(n), o.tells \in {0, o.of}
  PROVE  o \in Own(n)
<1>1. o \in Objects(n)
  BY DEF Objects
<1>2. o.elems = {}
  BY DEF Plain
<1>3. Within(o) = {o}
  BY <1>2 DEF Within
<1> QED BY <1>1, <1>3 DEF Own, TellsOwn

\* Lists of objects that have no elements, and lists of such lists.
OwnPlain(n) == {o \in Plain(n) : o.tells \in {0, o.of}}

LEMMA NumberItself == ASSUME NEW n \in Nat PROVE n \in 0 .. n
  OBVIOUS

LEMMA InRecord ==
  ASSUME NEW K, NEW N, NEW T, NEW P, NEW S, NEW k \in K, NEW m \in N, NEW z \in T, NEW g \in P, NEW D \in S
  PROVE  [kind |-> k, of |-> m, tells |-> z, form |-> g, elems |-> D]
           \in [kind : K, of : N, tells : T, form : P, elems : S]
  OBVIOUS

LEMMA ListMade ==
  ASSUME NEW n \in Nat, NEW E, NEW f \in Forms \cup {""}, NEW F, E \subseteq F
  PROVE  List(f, E, n) \in Lists(n, F)
<1>1. n \in 0 .. n
  BY NumberItself, Zenon
<1>2. 0 \in {0} /\ E \in SUBSET F /\ "list" \in {"list"}
  OBVIOUS
<1>3. [kind |-> "list", of |-> n, tells |-> 0, form |-> f, elems |-> E]
        \in [kind : {"list"}, of : 0 .. n, tells : {0}, form : Forms \cup {""}, elems : SUBSET F]
  BY <1>1, <1>2, InRecord, Zenon
<1> QED BY <1>3 DEF List, Lists

LEMMA ListIsOwn ==
  ASSUME NEW n \in Nat, NEW E, NEW f \in Forms \cup {""},
         \A e \in E : e \in OwnPlain(n) \/ \E D : D \subseteq OwnPlain(n) /\ e = List("", D, n)
  PROVE  List(f, E, n) \in Own(n) /\ List(f, E, n).of = n
<1>1. ASSUME NEW e \in E
      PROVE  /\ e \in Plain(n) \cup Lists(n, Plain(n)) /\ e.tells \in {0, e.of}
             /\ \A x \in e.elems : x.tells \in {0, x.of}
  <2>1. CASE e \in OwnPlain(n)
    BY <2>1 DEF OwnPlain, Plain
  <2>2. ASSUME NEW D, D \subseteq OwnPlain(n), e = List("", D, n)
        PROVE  /\ e \in Lists(n, Plain(n)) /\ e.tells \in {0, e.of}
               /\ \A x \in e.elems : x.tells \in {0, x.of}
    <3>1. D \subseteq Plain(n) /\ \A x \in D : x.tells \in {0, x.of}
      BY <2>2 DEF OwnPlain
    <3>2. e \in Lists(n, Plain(n))
      BY <2>2, <3>1, ListMade
    <3> QED BY <2>2, <3>1, <3>2 DEF List
  <2> QED BY <1>1, <2>1, <2>2
<1>2. List(f, E, n) \in Lists(n, Plain(n) \cup Lists(n, Plain(n)))
  <2>1. E \subseteq Plain(n) \cup Lists(n, Plain(n))
    BY <1>1
  <2> QED BY <2>1, ListMade
<1>3. \A x \in Within(List(f, E, n)) : x.tells \in {0, x.of}
  <2>1. List(f, E, n).elems = E /\ List(f, E, n).tells = 0
    BY DEF List
  <2> QED BY <1>1, <2>1 DEF Within
<1>4. List(f, E, n).of = n
  BY DEF List
<1> QED BY <1>2, <1>3, <1>4 DEF Own, Objects, TellsOwn

LEMMA ErrorIsOwn ==
  ASSUME NEW n \in Nat, NEW m \in {0, n}
  PROVE  Error(n, m) \in Own(n) /\ Error(n, m).of = n /\ Error(n, m).kind = "error"
<1>1. Error(n, m) \in Plain(n)
  BY Kinds DEF Error, Plain
<1>2. Error(n, m).tells = m /\ Error(n, m).of = n /\ Error(n, m).kind = "error"
  BY DEF Error
<1> QED BY <1>1, <1>2, PlainIsOwn

LEMMA MadeIsOwn ==
  ASSUME NEW n \in Nat, NEW k \in DOMAIN typeTrans \ {"list"}
  PROVE  Make(k, n) \in Own(n) /\ Make(k, n) \in OwnPlain(n) /\ Make(k, n).of = n
  BY PlainMade, PlainIsOwn DEF OwnPlain

LEMMA ConstantsAreOwn == ASSUME NEW n \in Nat PROVE NullObject \in Own(n) /\ Interrupted \in Own(n)
<1>1. Make("null", 0) \in Own(0) /\ Make("string", 0) \in Own(0)
  BY MadeIsOwn, Kinds
<1> QED BY <1>1, MoreObjects DEF NullObject, Interrupted

LEMMA ResultsAreOwn == ASSUME NEW n \in Nat, NEW o \in Results(n) PROVE o \in Own(n) /\ o.of = n
<1>1. CASE \E k \in {"int", "tree", "handle"} : o = Make(k, n)
  BY <1>1, MadeIsOwn, Kinds
<1>2. CASE o = List("", {Make("tree", n)}, n)
  <2>1. \A e \in {Make("tree", n)} : e \in OwnPlain(n)
    BY MadeIsOwn, Kinds
  <2> QED BY <1>2, <2>1, ListIsOwn
<1> QED BY <1>1, <1>2 DEF Results

LEMMA OperandsAreOwn == ASSUME NEW n \in Nat, NEW o \in Operands(n) PROVE o \in Own(n)
<1>1. CASE \E k \in {"int", "string"} : o = Make(k, n)
  BY <1>1, MadeIsOwn, Kinds
<1>2. ASSUME NEW f \in Forms, o = Received(f, n)
      PROVE  o \in Own(n)
  <2>1. {Make("int", n)} \subseteq OwnPlain(n) /\ Make("string", n) \in OwnPlain(n)
    BY MadeIsOwn, Kinds
  <2>2. \A e \in {Make("string", n), List("", {Make("int", n)}, n)} :
           e \in OwnPlain(n) \/ \E D : D \subseteq OwnPlain(n) /\ e = List("", D, n)
    BY <2>1
  <2> QED BY <1>2, <2>2, ListIsOwn DEF Received
<1>3. ASSUME NEW k \in {"int", "tree"}, o = List("", {List("", {Make(k, n)}, n)}, n)
      PROVE  o \in Own(n)
  <2>1. {Make(k, n)} \subseteq OwnPlain(n)
    BY MadeIsOwn, Kinds
  <2>2. \A e \in {List("", {Make(k, n)}, n)} : \E D : D \subseteq OwnPlain(n) /\ e = List("", D, n)
    BY <2>1
  <2> QED BY <1>3, <2>2, ListIsOwn
<1> QED BY <1>1, <1>2, <1>3 DEF Operands

----------------------------------------------------------------------------
(***************************************************************************)
(* The invariant.  Objects tell only failures of their own requests; while *)
(* the result or failure of a program is still to be fetched it is on top; *)
(* and a mathcap that was registered as it should be lists something.      *)
(***************************************************************************)
OwnTypeOK ==
  /\ OperandStack \in Seq(Own(SerialCurrent)) /\ Len(OperandStack) <= OspMax + 1
  /\ ErrorStack \in Seq(1 .. SerialCurrent) /\ Len(ErrorStack) < ErrorMax
  /\ mathcapList \in Seq(Own(SerialCurrent)) /\ Len(mathcapList) <= 1
  /\ bound \in Seq(Own(SerialCurrent)) /\ Len(bound) <= 1
  /\ nested \in BOOLEAN /\ misused \in BOOLEAN
  /\ SerialCurrent \in 0 .. MaxMessages /\ ran \in {0, SerialCurrent}
  /\ answer \in [header : BOOLEAN, body : Seq(Own(SerialCurrent)), after : 0 .. SerialCurrent]

ResultOnTop == ran # 0 => peek(OperandStack).of = ran

FitMathcap == mathcapList # <<>> /\ ~misused => mathcapList[1].form \in Listing

StackInvariant == OwnTypeOK /\ ResultOnTop /\ FitMathcap /\ OwnResult /\ Protected /\ AnswersAreWhole

LEMMA TypesAndErrors == OwnTypeOK => StackTypeOK /\ ErrorsTellOwnFailure
<1> SUFFICES ASSUME OwnTypeOK PROVE StackTypeOK /\ ErrorsTellOwnFailure
  OBVIOUS
<1>1. Own(SerialCurrent) \subseteq Objects(SerialCurrent)
  BY DEF Own
<1>2. Seq(Own(SerialCurrent)) \subseteq Seq(Objects(SerialCurrent))
  BY <1>1, MoreSequences
<1>3. StackTypeOK
  <2>1. answer \in [header : BOOLEAN, body : Seq(Objects(SerialCurrent)), after : 0 .. SerialCurrent]
    BY <1>2 DEF OwnTypeOK
  <2> QED BY <1>2, <2>1 DEF OwnTypeOK, StackTypeOK
<1>4. ASSUME NEW s \in Seq(Own(SerialCurrent)), NEW i \in DOMAIN s
      PROVE  TellsOwn(s[i])
  <2>1. s[i] \in Own(SerialCurrent)
    OBVIOUS
  <2> QED BY <2>1 DEF Own
<1>5. OperandStack \in Seq(Own(SerialCurrent)) /\ answer.body \in Seq(Own(SerialCurrent))
  BY DEF OwnTypeOK
<1> QED BY <1>3, <1>4, <1>5 DEF ErrorsTellOwnFailure

LEMMA NoAnswerIsFit ==
  ASSUME NEW n \in Nat
  PROVE  /\ NoAnswer \in [header : BOOLEAN, body : Seq(Own(n)), after : 0 .. n]
         /\ NoAnswer.body = <<>> /\ NoAnswer.header = FALSE
<1>1. <<>> \in Seq(Own(n)) /\ 0 \in 0 .. n
  OBVIOUS
<1> QED BY <1>1 DEF NoAnswer

LEMMA InitInvariant == Init => StackInvariant
<1> SUFFICES ASSUME Init PROVE StackInvariant
  OBVIOUS
<1>1. SerialCurrent = 0 /\ ran = 0 /\ mathcapList = <<>> /\ answer = NoAnswer
  BY DEF Init
<1>2. <<>> \in Seq(Own(0)) /\ <<>> \in Seq(1 .. 0) /\ Len(<<>>) = 0
  OBVIOUS
<1>3. 0 <= OspMax + 1 /\ 0 < ErrorMax /\ 0 \in 0 .. MaxMessages
  BY StackAssumption
<1>4. OwnTypeOK
  <2>1. answer \in [header : BOOLEAN, body : Seq(Own(0)), after : 0 .. 0]
    BY <1>1, NoAnswerIsFit
  <2>2. OperandStack = <<>> /\ ErrorStack = <<>> /\ bound = <<>> /\ nested = FALSE /\ misused = FALSE
    BY DEF Init
  <2>3. OperandStack \in Seq(Own(0)) /\ ErrorStack \in Seq(1 .. 0) /\ mathcapList \in Seq(Own(0)) /\ bound \in Seq(Own(0))
    BY <1>1, <1>2, <2>2
  <2>4. Len(OperandStack) = 0 /\ Len(ErrorStack) = 0 /\ Len(mathcapList) = 0 /\ Len(bound) = 0
    BY <1>1, <1>2, <2>2
  <2>5. /\ Len(OperandStack) <= OspMax + 1 /\ Len(ErrorStack) < ErrorMax
        /\ Len(mathcapList) <= 1 /\ Len(bound) <= 1
    BY <1>3, <2>4
  <2>6. nested \in BOOLEAN /\ misused \in BOOLEAN /\ SerialCurrent \in 0 .. MaxMessages /\ ran \in {0, SerialCurrent}
    BY <1>1, <1>3, <2>2
  <2> QED BY <1>1, <2>1, <2>3, <2>5, <2>6 DEF OwnTypeOK
<1>5. answer.body = <<>> /\ answer.header = FALSE
  BY <1>1, NoAnswerIsFit
<1>6. DOMAIN answer.body = {}
  BY <1>5
<1> QED BY <1>1, <1>4, <1>5, <1>6 DEF StackInvariant, ResultOnTop, FitMathcap, OwnResult, Protected, AnswersAreWhole

----------------------------------------------------------------------------
(***************************************************************************)
(* What the parts of a message do to the stacks.                           *)
(***************************************************************************)
LEMMA ErrorKept ==
  ASSUME OwnTypeOK, NEW n \in Nat, n = SerialCurrent + 1
  PROVE  /\ pushErrorStack(n) \in Seq(1 .. n) /\ Len(pushErrorStack(n)) < ErrorMax
         /\ popErrorStackByString(pushErrorStack(n)) \in {0, n}
         /\ Kpop(pushErrorStack(n)) \in Seq(1 .. n) /\ Len(Kpop(pushErrorStack(n))) < ErrorMax
<1>1. SerialCurrent \in Nat /\ 1 .. SerialCurrent \subseteq 1 .. n /\ n \in 1 .. n
  BY StackAssumption DEF OwnTypeOK
<1>2. ErrorStack \in Seq(1 .. n) /\ Len(ErrorStack) \in Nat /\ ErrorMax \in Nat \ {0}
  BY <1>1, MoreSequences, StackAssumption DEF OwnTypeOK
<1> DEFINE es == pushErrorStack(n)
<1>3. es \in Seq(1 .. n) /\ Len(es) < ErrorMax /\ popErrorStackByString(es) \in {0, n}
  <2>1. CASE Len(ErrorStack) + 1 >= ErrorMax
    <3>1. es = <<>>
      BY <2>1 DEF pushErrorStack
    <3>2. <<>> \in Seq(1 .. n) /\ Len(<<>>) = 0
      OBVIOUS
    <3>3. popErrorStackByString(es) = 0
      BY <3>1 DEF popErrorStackByString
    <3>4. 0 < ErrorMax
      BY <1>2
    <3> HIDE DEF es
    <3> QED BY <3>1, <3>2, <3>3, <3>4
  <2>2. CASE ~(Len(ErrorStack) + 1 >= ErrorMax)
    <3>1. es = Append(ErrorStack, n)
      BY <2>2 DEF pushErrorStack
    <3>2. es = Kpush(ErrorStack, n)
      BY <3>1 DEF Kpush
    <3>3. es \in Seq(1 .. n) /\ Len(es) = Len(ErrorStack) + 1 /\ peek(es) = n /\ es # <<>>
      BY <1>1, <1>2, <3>2, Pushed
    <3>4. popErrorStackByString(es) = n
      BY <3>3 DEF popErrorStackByString, peek
    <3> QED BY <1>2, <2>2, <3>3, <3>4
  <2> QED BY <2>1, <2>2
<1>4. Kpop(es) \in Seq(1 .. n) /\ Len(Kpop(es)) <= Len(es)
  BY <1>3, Popped
<1>5. Len(es) \in Nat /\ Len(Kpop(es)) \in Nat /\ ErrorMax \in Nat
  BY <1>2, <1>3, <1>4
<1>6. Len(Kpop(es)) < ErrorMax
  BY <1>3, <1>4, <1>5
<1> QED BY <1>3, <1>4, <1>6

\* The objects that there are when message n is handled.
LEMMA Before ==
  ASSUME OwnTypeOK, NEW n, Handle(n)
  PROVE  /\ n \in Nat /\ n # 0 /\ n = SerialCurrent + 1 /\ n \in 0 .. MaxMessages /\ SerialCurrent' = n
         /\ OperandStack \in Seq(Own(n)) /\ Len(OperandStack) < OspMax /\ OspMax \in Nat
         /\ Kpop(OperandStack) \in Seq(Own(n)) /\ Len(Kpop(OperandStack)) <= Len(OperandStack)
         /\ peek(OperandStack) \in Own(n)
         /\ ErrorStack \in Seq(1 .. n)
         /\ mathcapList \in Seq(Own(n)) /\ bound \in Seq(Own(n))
<1>1. SerialCurrent \in Nat /\ n = SerialCurrent + 1 /\ SerialCurrent' = n /\ n \in 0 .. MaxMessages
  BY StackAssumption DEF OwnTypeOK, Handle
<1>2. n \in Nat /\ n # 0 /\ SerialCurrent <= n
  BY <1>1
<1>3. Seq(Own(SerialCurrent)) \subseteq Seq(Own(n))
  BY <1>1, <1>2, MoreObjects
<1>4. OperandStack \in Seq(Own(n)) /\ mathcapList \in Seq(Own(n)) /\ bound \in Seq(Own(n))
  BY <1>3 DEF OwnTypeOK
<1>5. Len(OperandStack) < OspMax /\ OspMax \in Nat
  <2>1. Len(OperandStack) \in Nat
    BY <1>4
  <2> QED BY <2>1, StackAssumption DEF Handle, Lost
<1>6. peek(OperandStack) \in Own(n)
  BY <1>2, <1>4, TopOf, ConstantsAreOwn
<1>7. ErrorStack \in Seq(1 .. n)
  <2>1. 1 .. SerialCurrent \subseteq 1 .. n
    BY <1>1
  <2> QED BY <2>1, MoreSequences DEF OwnTypeOK
<1> QED BY <1>1, <1>2, <1>4, <1>5, <1>6, <1>7, Popped

\* What is left on the stacks when message n has been handled.
Stored(n) ==
  /\ OperandStack' \in Seq(Own(n)) /\ Len(OperandStack') <= OspMax + 1
  /\ ErrorStack' \in Seq(1 .. n) /\ Len(ErrorStack') < ErrorMax

\* After the failure of a program a packet with the number of the message is on top.
LEMMA Failed ==
  ASSUME OwnTypeOK, NEW n, Handle(n), NEW s \in Seq(Own(n)), Len(s) <= Len(OperandStack),
         FailsWithError(n, s)
  PROVE  Stored(n) /\ peek(OperandStack').of = n
<1>1. n \in Nat /\ Len(s) \in Nat /\ Len(s) < OspMax /\ OspMax \in Nat /\ n = SerialCurrent + 1
  <2>1. Len(s) \in Nat /\ Len(OperandStack) \in Nat
    BY Before
  <2> QED BY <2>1, Before
<1> DEFINE es == pushErrorStack(n)
           m == popErrorStackByString(es)
<1>2. /\ es \in Seq(1 .. n) /\ Len(es) < ErrorMax /\ m \in {0, n}
      /\ Kpop(es) \in Seq(1 .. n) /\ Len(Kpop(es)) < ErrorMax
  BY <1>1, ErrorKept
<1> HIDE DEF es, m
<1>3. /\ Error(n, 0) \in Own(n) /\ Error(n, 0).of = n
      /\ Error(n, m) \in Own(n) /\ Error(n, m).of = n
      /\ Interrupted \in Own(n)
  BY <1>1, <1>2, ErrorIsOwn, ConstantsAreOwn
<1>4. CASE nested
  <2>1. OperandStack' = Kpush(s, Error(n, 0)) /\ ErrorStack' = es
    BY <1>4 DEF FailsWithError, JumpToNullserver, es
  <2>2. /\ OperandStack' \in Seq(Own(n)) /\ Len(OperandStack') = Len(s) + 1
        /\ peek(OperandStack') = Error(n, 0)
    BY <1>3, <2>1, Pushed
  <2>3. Len(OperandStack') <= OspMax + 1
    BY <1>1, <2>2
  <2> QED BY <1>2, <1>3, <2>1, <2>2, <2>3 DEF Stored
<1>5. CASE ~nested
  <2>1. OperandStack' = Kpush(Kpush(s, Interrupted), Error(n, m)) /\ ErrorStack' = Kpop(es)
    BY <1>5 DEF FailsWithError, es, m
  <2>2. Kpush(s, Interrupted) \in Seq(Own(n)) /\ Len(Kpush(s, Interrupted)) = Len(s) + 1
    BY <1>3, Pushed
  <2>3. /\ OperandStack' \in Seq(Own(n)) /\ Len(OperandStack') = Len(s) + 1 + 1
        /\ peek(OperandStack') = Error(n, m)
    BY <1>3, <2>1, <2>2, Pushed
  <2>4. Len(OperandStack') <= OspMax + 1
    BY <1>1, <2>3
  <2> QED BY <1>2, <1>3, <2>1, <2>3, <2>4 DEF Stored
<1> QED BY <1>4, <1>5

LEMMA Pushes ==
  ASSUME OwnTypeOK, NEW n, Handle(n), NEW s \in Seq(Own(n)), Len(s) <= Len(OperandStack), NEW o \in Own(n),
         OperandStack' = Kpush(s, o), UNCHANGED ErrorStack
  PROVE  Stored(n) /\ peek(OperandStack') = o
<1>1. OperandStack' \in Seq(Own(n)) /\ Len(OperandStack') = Len(s) + 1 /\ peek(OperandStack') = o
  BY Pushed
<1>2. Len(OperandStack) < OspMax /\ OspMax \in Nat /\ ErrorStack \in Seq(1 .. n) /\ OperandStack \in Seq(Own(n))
  BY Before
<1>3. Len(OperandStack) \in Nat /\ Len(s) \in Nat
  BY <1>2
<1>4. Len(OperandStack') <= OspMax + 1
  BY <1>1, <1>2, <1>3
<1> QED BY <1>1, <1>2, <1>4 DEF Stored, OwnTypeOK

LEMMA Takes ==
  ASSUME OwnTypeOK, NEW n, Handle(n), NEW s \in Seq(Own(n)), Len(s) <= Len(OperandStack),
         OperandStack' = s, UNCHANGED ErrorStack
  PROVE  Stored(n)
<1>1. Len(OperandStack) < OspMax /\ OspMax \in Nat /\ ErrorStack \in Seq(1 .. n) /\ OperandStack \in Seq(Own(n))
  BY Before
<1>2. Len(OperandStack) \in Nat /\ Len(s) \in Nat
  BY <1>1
<1>3. Len(OperandStack') <= OspMax + 1
  BY <1>1, <1>2
<1> QED BY <1>1, <1>3 DEF Stored, OwnTypeOK

LEMMA PacketStored ==
  ASSUME OwnTypeOK, NEW n, Handle(n), NEW s \in Seq(Own(n)), Len(s) <= Len(OperandStack), NEW o,
         o = Error(n, 0) \/ o = Interrupted, OperandStack' = Kpush(s, o), ErrorStack' = pushErrorStack(n)
  PROVE  Stored(n)
<1>1. n \in Nat /\ n = SerialCurrent + 1 /\ Len(OperandStack) < OspMax /\ OspMax \in Nat
      /\ OperandStack \in Seq(Own(n))
  BY Before
<1>2. o \in Own(n)
  BY <1>1, ErrorIsOwn, ConstantsAreOwn
<1>3. OperandStack' \in Seq(Own(n)) /\ Len(OperandStack') = Len(s) + 1
  BY <1>2, Pushed
<1>4. Len(OperandStack') <= OspMax + 1
  <2>1. Len(s) \in Nat /\ Len(OperandStack) \in Nat
    BY <1>1
  <2> QED BY <1>1, <1>3, <2>1
<1> QED BY <1>1, <1>3, <1>4, ErrorKept DEF Stored

LEMMA DroppedFrom ==
  ASSUME OwnTypeOK, NEW n, Handle(n), NEW k \in 0 .. Len(Kpop(OperandStack))
  PROVE  /\ Drop(Kpop(OperandStack), k) \in Seq(Own(n))
         /\ Len(Drop(Kpop(OperandStack), k)) <= Len(OperandStack)
<1>1. Kpop(OperandStack) \in Seq(Own(n)) /\ Len(Kpop(OperandStack)) <= Len(OperandStack)
      /\ OperandStack \in Seq(Own(n))
  BY Before
<1>2. Drop(Kpop(OperandStack), k) \in Seq(Own(n))
      /\ Len(Drop(Kpop(OperandStack), k)) = Len(Kpop(OperandStack)) - k
  BY <1>1, Dropped
<1>3. Len(Kpop(OperandStack)) \in Nat /\ Len(OperandStack) \in Nat
  BY <1>1
<1> QED BY <1>1, <1>2, <1>3

LEMMA PoppedTwice ==
  ASSUME OwnTypeOK, NEW n, Handle(n)
  PROVE  /\ Kpop(Kpop(OperandStack)) \in Seq(Own(n)) /\ Len(Kpop(Kpop(OperandStack))) <= Len(OperandStack)
         /\ peek(Kpop(OperandStack)) \in Own(n)
<1>1. Kpop(OperandStack) \in Seq(Own(n)) /\ Len(Kpop(OperandStack)) <= Len(OperandStack)
      /\ OperandStack \in Seq(Own(n)) /\ n \in Nat
  BY Before
<1>2. Kpop(Kpop(OperandStack)) \in Seq(Own(n)) /\ Len(Kpop(Kpop(OperandStack))) <= Len(Kpop(OperandStack))
  BY <1>1, Popped
<1>3. Len(Kpop(OperandStack)) \in Nat /\ Len(OperandStack) \in Nat /\ Len(Kpop(Kpop(OperandStack))) \in Nat
  BY <1>1, <1>2
<1>4. peek(Kpop(OperandStack)) \in Own(n)
  BY <1>1, TopOf, ConstantsAreOwn
<1> QED BY <1>1, <1>2, <1>3, <1>4

\* The list of error packets.
LEMMA ErrorsListed ==
  ASSUME NEW n \in Nat, NEW s \in Seq(Own(n))
  PROVE  List("", Errors(s), n) \in Own(n)
<1>1. ASSUME NEW e \in Errors(s)
      PROVE  e \in OwnPlain(n)
  <2>1. PICK i \in DOMAIN s : s[i].kind = "error" /\ e = s[i]
    BY DEF Errors
  <2>2. e \in Own(n) /\ e.kind = "error"
    BY <2>1
  <2>3. e \in Plain(n)
    BY <2>2 DEF Own, Objects, Lists
  <2>4. e \in Within(e)
    BY DEF Within
  <2> QED BY <2>2, <2>3, <2>4 DEF Own, TellsOwn, OwnPlain
<1> QED BY <1>1, ListIsOwn
----------------------------------------------------------------------------
(***************************************************************************)
(* Types, and which failure an error packet tells.                         *)
(***************************************************************************)
LEMMA MessageTyped ==
  ASSUME OwnTypeOK, NEW n, Handle(n), Stored(n),
         UNCHANGED mathcapList \/ \E o \in Own(n) : mathcapList' = <<o>>,
         UNCHANGED bound \/ \E o \in Own(n) : bound' = <<o>>,
         nested' \in BOOLEAN, misused' \in BOOLEAN, ran' \in {0, n},
         \/ answer' = NoAnswer
         \/ \E b \in Seq(Own(n)) : answer' = [header |-> TRUE, body |-> b, after |-> ran]
  PROVE  OwnTypeOK'
<1>1. n \in Nat /\ SerialCurrent' = n /\ n \in 0 .. MaxMessages /\ n = SerialCurrent + 1
      /\ mathcapList \in Seq(Own(n)) /\ bound \in Seq(Own(n))
  BY Before
<1>2. mathcapList' \in Seq(Own(n)) /\ Len(mathcapList') <= 1
  <2>1. Len(mathcapList) <= 1
    BY DEF OwnTypeOK
  <2> QED BY <1>1, <2>1, AtMostOne
<1>3. bound' \in Seq(Own(n)) /\ Len(bound') <= 1
  <2>1. Len(bound) <= 1
    BY DEF OwnTypeOK
  <2> QED BY <1>1, <2>1, AtMostOne
<1>4. answer' \in [header : BOOLEAN, body : Seq(Own(n)), after : 0 .. n]
  <2>1. CASE answer' = NoAnswer
    BY <1>1, <2>1, NoAnswerIsFit
  <2>2. ASSUME NEW b \in Seq(Own(n)), answer' = [header |-> TRUE, body |-> b, after |-> ran]
        PROVE  answer' \in [header : BOOLEAN, body : Seq(Own(n)), after : 0 .. n]
    <3>1. ran \in 0 .. n
      BY <1>1, StackAssumption DEF OwnTypeOK
    <3> QED BY <2>2, <3>1
  <2> QED BY <2>1, <2>2
<1> QED BY <1>1, <1>2, <1>3, <1>4 DEF Stored, OwnTypeOK

LEMMA InterruptTyped == ASSUME OwnTypeOK, InterruptAtRest PROVE OwnTypeOK'
<1>1. SerialCurrent \in Nat /\ OperandStack \in Seq(Own(SerialCurrent)) /\ OspMax \in Nat
  BY StackAssumption DEF OwnTypeOK
<1>2. OperandStack' \in Seq(Own(SerialCurrent)) /\ Len(OperandStack') = Len(OperandStack) + 1
  BY <1>1, ConstantsAreOwn, Pushed DEF InterruptAtRest
<1>3. Len(OperandStack') <= OspMax + 1
  <2>1. Len(OperandStack) \in Nat /\ Len(OperandStack) < OspMax
    BY <1>1 DEF InterruptAtRest, Lost
  <2> QED BY <1>1, <1>2, <2>1
<1>4. answer' \in [header : BOOLEAN, body : Seq(Own(SerialCurrent)), after : 0 .. SerialCurrent] /\ ran' = 0
  BY <1>1, NoAnswerIsFit DEF InterruptAtRest, Quietly
<1>5. UNCHANGED <<ErrorStack, mathcapList, bound, nested, SerialCurrent, misused>>
  BY DEF InterruptAtRest
<1> QED BY <1>2, <1>3, <1>4, <1>5 DEF OwnTypeOK

LEMMA CommandTyped ==
  ASSUME OwnTypeOK, NEW n,
         Sm1_pushCMO(n) \/ PushOne(n) \/ Sm1_setMathCap(n) \/ Sm1_pops(n) \/ Sm1_setName(n) \/ Sm1_evalName(n)
  PROVE  OwnTypeOK'
<1>1. Handle(n) /\ Quietly
  BY DEF Sm1_pushCMO, PushOne, Sm1_setMathCap, Sm1_pops, Sm1_setName, Sm1_evalName
<1>2. ran' \in {0, n} /\ answer' = NoAnswer
  BY <1>1 DEF Quietly
<1>3. /\ n \in Nat /\ OperandStack \in Seq(Own(n)) /\ Kpop(OperandStack) \in Seq(Own(n))
      /\ Len(Kpop(OperandStack)) <= Len(OperandStack) /\ Len(OperandStack) <= Len(OperandStack)
      /\ peek(OperandStack) \in Own(n) /\ bound \in Seq(Own(n))
      /\ nested \in BOOLEAN /\ misused \in BOOLEAN
  <2>1. OperandStack \in Seq(Own(n)) /\ nested \in BOOLEAN /\ misused \in BOOLEAN
    BY <1>1, Before DEF OwnTypeOK
  <2>2. Len(OperandStack) <= Len(OperandStack)
    BY <2>1
  <2> QED BY <1>1, <2>1, <2>2, Before
<1>4. CASE Sm1_pushCMO(n)
  <2>1. UNCHANGED <<mathcapList, bound, nested, misused>>
    BY <1>4 DEF Sm1_pushCMO
  <2>2. ASSUME NEW o \in Operands(n), OperandStack' = Kpush(OperandStack, o), UNCHANGED ErrorStack
        PROVE  Stored(n)
    <3>1. o \in Own(n)
      BY <1>3, OperandsAreOwn
    <3> QED BY <1>1, <1>3, <2>2, <3>1, Pushes
  <2>3. ASSUME OperandStack' = Kpush(OperandStack, Error(n, 0)), ErrorStack' = pushErrorStack(n)
        PROVE  Stored(n)
    BY <1>1, <1>3, <2>3, PacketStored
  <2>4. Stored(n)
    BY <1>4, <2>2, <2>3 DEF Sm1_pushCMO, JumpToNullserver
  <2> QED BY <1>1, <1>2, <1>3, <2>1, <2>4, MessageTyped
<1>5. CASE PushOne(n)
  <2>1. UNCHANGED <<ErrorStack, mathcapList, bound, nested, misused>>
    BY <1>5 DEF PushOne
  <2>2. PICK o \in {Make("mathcap", n), Make("int", n), List("", Errors(OperandStack), n),
                     IF typeTrans[peek(OperandStack).kind] = "unknown" THEN Error(n, n) ELSE Make("int", n)} :
          OperandStack' = Kpush(OperandStack, o)
    BY <1>5 DEF PushOne
  <2>3. /\ Make("mathcap", n) \in Own(n) /\ Make("int", n) \in Own(n) /\ Error(n, n) \in Own(n)
        /\ List("", Errors(OperandStack), n) \in Own(n)
    BY <1>3, MadeIsOwn, Kinds, ErrorIsOwn, ErrorsListed
  <2>4. o \in Own(n)
    BY <2>2, <2>3, Zenon
  <2>5. Stored(n)
    BY <1>1, <1>3, <2>1, <2>2, <2>4, Pushes
  <2> QED BY <1>1, <1>2, <1>3, <2>1, <2>5, MessageTyped
<1>6. CASE Sm1_setMathCap(n)
  <2>1. UNCHANGED <<ErrorStack, bound, nested>> /\ OperandStack' = Kpop(OperandStack)
        /\ mathcapList' = <<peek(OperandStack)>>
    BY <1>6 DEF Sm1_setMathCap
  <2>2. misused' \in BOOLEAN
    BY <1>6 DEF Sm1_setMathCap
  <2>3. Stored(n)
    BY <1>1, <1>3, <2>1, Takes
  <2> QED BY <1>1, <1>2, <1>3, <2>1, <2>2, <2>3, MessageTyped
<1>7. CASE Sm1_pops(n)
  <2>1. UNCHANGED <<mathcapList, bound, nested, misused>>
    BY <1>7 DEF Sm1_pops
  <2>2. ASSUME NEW k \in 0 .. Len(Kpop(OperandStack)), OperandStack' = Drop(Kpop(OperandStack), k), UNCHANGED ErrorStack
        PROVE  Stored(n)
    <3>1. /\ Drop(Kpop(OperandStack), k) \in Seq(Own(n))
          /\ Len(Drop(Kpop(OperandStack), k)) <= Len(OperandStack)
      BY <1>1, DroppedFrom
    <3> QED BY <1>1, <2>2, <3>1, Takes
  <2>3. ASSUME OperandStack' = Kpush(Kpop(OperandStack), Error(n, 0)), ErrorStack' = pushErrorStack(n)
        PROVE  Stored(n)
    BY <1>1, <1>3, <2>3, PacketStored
  <2>4. ASSUME OperandStack' = Kpush(Kpop(OperandStack), Interrupted), ErrorStack' = pushErrorStack(n)
        PROVE  Stored(n)
    BY <1>1, <1>3, <2>4, PacketStored
  <2>5. Stored(n)
    BY <1>7, <2>2, <2>3, <2>4 DEF Sm1_pops, Fails, JumpToNullserver
  <2> QED BY <1>1, <1>2, <1>3, <2>1, <2>5, MessageTyped
<1>8. CASE Sm1_setName(n)
  <2>1. UNCHANGED <<ErrorStack, mathcapList, nested, misused>> /\ OperandStack' = Kpop(Kpop(OperandStack))
        /\ bound' = <<peek(Kpop(OperandStack))>>
    BY <1>8 DEF Sm1_setName
  <2>2. Stored(n) /\ peek(Kpop(OperandStack)) \in Own(n)
    BY <1>1, <2>1, PoppedTwice, Takes
  <2> QED BY <1>1, <1>2, <1>3, <2>1, <2>2, MessageTyped
<1>9. CASE Sm1_evalName(n)
  <2>1. UNCHANGED <<ErrorStack, mathcapList, bound, nested, misused>>
    BY <1>9 DEF Sm1_evalName
  <2>2. ASSUME NEW o \in Own(n), OperandStack' = Kpush(Kpop(OperandStack), o)
        PROVE  Stored(n)
    BY <1>1, <1>3, <2>1, <2>2, Pushes
  <2>3. Error(n, n) \in Own(n) /\ (bound # <<>> => bound[1] \in Own(n))
    BY <1>3, ErrorIsOwn
  <2>4. Stored(n)
    BY <1>9, <2>2, <2>3 DEF Sm1_evalName
  <2> QED BY <1>1, <1>2, <1>3, <2>1, <2>4, MessageTyped
<1> QED BY <1>4, <1>5, <1>6, <1>7, <1>8, <1>9

LEMMA ProgramTyped ==
  ASSUME OwnTypeOK, NEW n, Sm1_executeStringByLocalParser(n)
  PROVE  OwnTypeOK' /\ ResultOnTop'
<1>1. Handle(n) /\ answer' = NoAnswer /\ UNCHANGED <<mathcapList, bound, misused>>
  BY DEF Sm1_executeStringByLocalParser
<1>2. n \in Nat
  BY <1>1, Before
<1>3. PICK k \in 0 .. Len(Kpop(OperandStack)) :
        LET s == Drop(Kpop(OperandStack), k)
        IN \/ /\ \E o \in Results(n) : OperandStack' = Kpush(s, o)
              /\ ran' = n /\ UNCHANGED <<ErrorStack, nested>>
           \/ /\ OperandStack' = s
              /\ ran' = 0 /\ UNCHANGED <<ErrorStack, nested>>
           \/ /\ FailsWithError(n, s)
              /\ ran' = n /\ UNCHANGED nested
           \/ /\ OperandStack' = Kpush(s, Interrupted)
              /\ nested' = TRUE /\ ran' = 0 /\ UNCHANGED ErrorStack
  BY DEF Sm1_executeStringByLocalParser
<1> DEFINE s == Drop(Kpop(OperandStack), k)
<1>4. s \in Seq(Own(n)) /\ Len(s) <= Len(OperandStack)
  BY <1>1, DroppedFrom
<1>5. ASSUME NEW o \in Results(n), OperandStack' = Kpush(s, o), ran' = n, UNCHANGED <<ErrorStack, nested>>
      PROVE  Stored(n) /\ ResultOnTop'
  <2> HIDE DEF s
  <2>1. o \in Own(n) /\ o.of = n
    BY <1>2, <1>5, ResultsAreOwn
  <2>2. Stored(n) /\ peek(OperandStack') = o
    BY <1>1, <1>4, <1>5, <2>1, Pushes
  <2> QED BY <1>5, <2>1, <2>2 DEF ResultOnTop, peek
<1>6. ASSUME OperandStack' = s, UNCHANGED ErrorStack
      PROVE  Stored(n)
  BY <1>1, <1>4, <1>6, Takes
<1>7. ASSUME FailsWithError(n, s), ran' = n
      PROVE  Stored(n) /\ ResultOnTop'
  <2> HIDE DEF s
  <2>1. Stored(n) /\ peek(OperandStack').of = n
    BY <1>1, <1>4, <1>7, Failed DEF FailsWithError, JumpToNullserver
  <2> QED BY <1>7, <2>1 DEF ResultOnTop, peek
<1>8. ASSUME OperandStack' = Kpush(s, Interrupted), UNCHANGED ErrorStack
      PROVE  Stored(n)
  <2> HIDE DEF s
  <2>1. Interrupted \in Own(n)
    BY <1>2, ConstantsAreOwn
  <2> QED BY <1>1, <1>4, <1>8, <2>1, Pushes
<1>9. ran' = 0 => ResultOnTop'
  BY DEF ResultOnTop
<1>10. /\ ran' \in {0, n} /\ nested' \in {nested, TRUE}
       /\ Stored(n) /\ ResultOnTop'
  <2> HIDE DEF s
  <2> QED BY <1>3, <1>5, <1>6, <1>7, <1>8, <1>9 DEF s
<1>11. nested' \in BOOLEAN /\ misused' \in BOOLEAN
  BY <1>1, <1>10 DEF OwnTypeOK
<1> QED BY <1>1, <1>10, <1>11, MessageTyped
----------------------------------------------------------------------------
(***************************************************************************)
(* Answers.                                                                *)
(***************************************************************************)
\* What cmoCheck00 has walked through is all that is sent: only lists have elements.
LEMMA CheckedIsSent ==
  ASSUME NEW n, NEW o \in Objects(n), NEW cmo, cmoCheck00(o, cmo)
  PROVE  Sent(o) \subseteq cmo
<1>1. \A e \in Plain(n) : ListElements(e) = e.elems
  BY DEF Plain, ListElements
<1>2. \A E : \A e \in Lists(n, E) : ListElements(e) = e.elems /\ e.elems \subseteq E
  BY DEF Lists, ListElements
<1> DEFINE L == Plain(n) \cup Lists(n, Plain(n))
<1>3. o \in Plain(n) \/ o \in Lists(n, L)
  BY DEF Objects
<1>4. ListElements(o) = o.elems /\ o.elems \subseteq L
  <2>1. \A e \in Plain(n) : e.elems = {}
    BY DEF Plain
  <2> HIDE DEF L
  <2> QED BY <1>1, <1>2, <1>3, <2>1
<1>5. ASSUME NEW e \in {o} \cup o.elems
      PROVE  ListElements(e) = e.elems
  <2>1. CASE e = o
    BY <1>4, <2>1
  <2>2. CASE e \in o.elems
    BY <1>1, <1>2, <1>4, <2>2
  <2> QED BY <1>5, <2>1, <2>2
<1>6. \A e \in {o} \cup o.elems : \A x \in {e} \cup e.elems : typeTrans[x.kind] \in cmo
  BY <1>4, <1>5 DEF cmoCheck00
<1> QED BY <1>6 DEF Sent, Within

LEMMA Verdicts ==
  ASSUME OwnTypeOK, NEW o, NEW verdict \in cmoCheckMathCap(o)
  PROVE  /\ verdict \in {"pass", "protect", "error"}
         /\ verdict = "error" => mathcapList # <<>> /\ mathcapList[1].form \notin Listing
         /\ verdict = "pass" /\ mathcapList # <<>> /\ mathcapList[1].form \in Listing =>
              Tags(mathcapList[1].form) = {} \/ cmoCheck00(o, Tags(mathcapList[1].form))
<1>1. CASE mathcapList = <<>>
  BY <1>1 DEF cmoCheckMathCap
<1>2. CASE mathcapList # <<>>
  <2> DEFINE form == mathcapList[1].form
             fits == Tags(form) = {} \/ cmoCheck00(o, Tags(form))
  <2>1. cmoCheckMathCap(o) = CASE form \in {"", "unpaired"} -> {"error"}
                               [] form = "noData" -> {"pass", "protect"}
                               [] OTHER -> {IF fits THEN "pass" ELSE "protect"}
    BY <1>2 DEF cmoCheckMathCap
  <2> HIDE DEF form, fits
  <2>2. CASE form \in {"", "unpaired"}
    <3>1. cmoCheckMathCap(o) = {"error"} /\ form \notin Listing
      BY <2>1, <2>2 DEF Listing
    <3> QED BY <1>2, <3>1 DEF form
  <2>3. CASE form = "noData"
    <3>1. cmoCheckMathCap(o) = {"pass", "protect"} /\ form \notin Listing
      BY <2>1, <2>3 DEF Listing
    <3> QED BY <1>2, <3>1 DEF form
  <2>4. CASE form \notin {"", "unpaired", "noData"}
    <3>1. cmoCheckMathCap(o) = {IF fits THEN "pass" ELSE "protect"}
      BY <2>1, <2>4
    <3>2. (verdict = "pass" /\ fits) \/ verdict = "protect"
      BY <3>1
    <3> QED BY <1>2, <3>2 DEF form, fits
  <2> QED BY <2>2, <2>3, <2>4
<1> QED BY <1>1, <1>2

LEMMA StringIsListed ==
  ASSUME NEW k, NEW form \in Listing
  PROVE  Tags(form) = {} \/ Sent(Make("string", k)) \subseteq Tags(form)
<1>1. Sent(Make("string", k)) = {"CMO_STRING"}
  <2>1. Make("string", k).elems = {} /\ Make("string", k).kind = "string"
    BY DEF Make
  <2>2. Within(Make("string", k)) = {Make("string", k)}
    BY <2>1 DEF Within
  <2>3. typeTrans["string"] = "CMO_STRING"
    BY DEF typeTrans
  <2> QED BY <2>1, <2>2, <2>3 DEF Sent
<1>2. CASE form = "all"
  <2>1. "CMO_STRING" \in {typeTrans[x] : x \in DOMAIN typeTrans \ {"handle"}}
    <3>1. "string" \in DOMAIN typeTrans \ {"handle"} /\ typeTrans["string"] = "CMO_STRING"
      BY DEF typeTrans
    <3> QED BY <3>1
  <2> QED BY <1>1, <1>2, <2>1 DEF Tags
<1>3. CASE form = "simple"
  BY <1>1, <1>3 DEF Tags
<1>4. CASE form = "none"
  BY <1>4 DEF Tags
<1> QED BY <1>2, <1>3, <1>4 DEF Listing

\* What an answer says of the request and of the mathcap, and what is left on the stacks.
AnsweredWith(n, b) ==
  /\ answer' = [header |-> TRUE, body |-> b, after |-> ran] /\ b \in Seq(Own(n))
  /\ Stored(n) /\ UNCHANGED <<mathcapList, bound, nested, misused>> /\ ran' = 0

LEMMA AnswerTyped ==
  ASSUME OwnTypeOK, NEW n, Handle(n), NEW b, AnsweredWith(n, b)
  PROVE  OwnTypeOK' /\ ResultOnTop' /\ (FitMathcap => FitMathcap')
<1>1. nested' \in BOOLEAN /\ misused' \in BOOLEAN /\ ran' \in {0, n}
  BY DEF AnsweredWith, OwnTypeOK
<1>2. OwnTypeOK'
  BY <1>1, MessageTyped DEF AnsweredWith
<1> QED BY <1>2 DEF AnsweredWith, ResultOnTop, FitMathcap

LEMMA OneAnswer ==
  ASSUME OwnTypeOK, ResultOnTop, FitMathcap, NEW n, Handle(n), NEW o \in Own(n), AnsweredWith(n, <<o>>),
         o.of = peek(OperandStack).of \/ o = Error(n, n),
         \/ o.kind = "error" \/ mathcapList = <<>>
         \/ mathcapList[1].form \in Listing =>
               Tags(mathcapList[1].form) = {} \/ Sent(o) \subseteq Tags(mathcapList[1].form)
  PROVE  StackInvariant'
<1>1. OwnTypeOK' /\ ResultOnTop' /\ FitMathcap'
  BY AnswerTyped
<1>2. /\ answer'.body = <<o>> /\ answer'.after = ran /\ SerialCurrent' = n /\ DOMAIN answer'.body = {1}
      /\ answer'.body[1] = o /\ answer'.body # <<>>
  BY Before DEF AnsweredWith
<1>3. OwnResult'
  <2>1. ran # 0 => o.of = ran \/ (o.kind = "error" /\ o.of = n)
    BY ErrorIsOwn, Before DEF ResultOnTop
  <2> QED BY <1>2, <2>1 DEF OwnResult
<1>4. Protected'
  <2>1. UNCHANGED <<mathcapList, misused>>
    BY DEF AnsweredWith
  <2>2. ~misused /\ mathcapList # <<>> => mathcapList[1].form \in Listing
    BY DEF FitMathcap
  <2> QED BY <1>2, <2>1, <2>2 DEF Protected
<1>5. AnswersAreWhole'
  BY <1>2 DEF AnswersAreWhole
<1> QED BY <1>1, <1>3, <1>4, <1>5 DEF StackInvariant

LEMMA PopStringInvariant ==
  ASSUME StackInvariant, NEW n, Sm1_popString(n)
  PROVE  StackInvariant'
<1>1. /\ OwnTypeOK /\ ResultOnTop /\ FitMathcap /\ Handle(n) /\ ran' = 0
      /\ UNCHANGED <<ErrorStack, mathcapList, bound, nested, misused>> /\ OperandStack' = Kpop(OperandStack)
  BY DEF StackInvariant, Sm1_popString
<1> DEFINE k == peek(OperandStack).of
           o == Make("string", k)
<1>2. n \in Nat /\ k \in Nat /\ k <= n
  <2>1. n \in Nat /\ peek(OperandStack) \in Own(n)
    BY <1>1, Before
  <2>2. \A x \in Objects(n) : x.of \in 0 .. n
    BY DEF Objects, Plain, Lists
  <2>3. k \in 0 .. n
    BY <2>1, <2>2 DEF Own
  <2> QED BY <2>1, <2>3
<1> HIDE DEF k
<1>3. o \in Own(n) /\ o.of = k
  <2>1. o \in Own(k) /\ o.of = k
    BY <1>2, MadeIsOwn, Kinds
  <2>2. Own(k) \subseteq Own(n)
    BY <1>2, MoreObjects
  <2> QED BY <2>1, <2>2
<1>4. answer' = [header |-> TRUE, body |-> <<o>>, after |-> ran]
  BY DEF Sm1_popString, Answers, k
<1> HIDE DEF o
<1>5. Stored(n)
  <2>1. Kpop(OperandStack) \in Seq(Own(n)) /\ Len(Kpop(OperandStack)) <= Len(OperandStack)
    BY <1>1, Before
  <2> QED BY <1>1, <2>1, Takes
<1>6. AnsweredWith(n, <<o>>)
  BY <1>1, <1>3, <1>4, <1>5, OneOf DEF AnsweredWith
<1>7. mathcapList[1].form \in Listing =>
        Tags(mathcapList[1].form) = {} \/ Sent(o) \subseteq Tags(mathcapList[1].form)
  BY StringIsListed DEF o
<1>8. o.of = peek(OperandStack).of
  BY <1>3 DEF k
<1> QED BY <1>1, <1>3, <1>6, <1>7, <1>8, OneAnswer

LEMMA PopCMOInvariant ==
  ASSUME StackInvariant, NEW n, Sm1_popCMO(n)
  PROVE  StackInvariant'
<1>1. /\ OwnTypeOK /\ ResultOnTop /\ FitMathcap /\ Handle(n) /\ ran' = 0
      /\ UNCHANGED <<mathcapList, bound, nested, misused>>
  BY DEF StackInvariant, Sm1_popCMO
<1> DEFINE o == peek(OperandStack)
           s == Kpop(OperandStack)
<1>2. n \in Nat /\ o \in Own(n) /\ s \in Seq(Own(n)) /\ Len(s) <= Len(OperandStack)
      /\ Error(n, n) \in Own(n) /\ Error(n, n).kind = "error"
  BY <1>1, Before, ErrorIsOwn
<1>3. PICK verdict \in cmoCheckMathCap(o) :
          \/ /\ verdict = "pass" /\ Answers(o)
             /\ OperandStack' = s /\ UNCHANGED ErrorStack
          \/ /\ verdict = "protect" /\ Answers(Error(n, n))
             /\ OperandStack' = s /\ UNCHANGED ErrorStack
          \/ /\ verdict = "error"
             /\ answer' = [header |-> TRUE, body |-> <<>>, after |-> ran]
             /\ JumpToNullserver(n, s)
  BY DEF Sm1_popCMO
<1>4. /\ verdict = "error" => mathcapList # <<>> /\ mathcapList[1].form \notin Listing
      /\ verdict = "pass" /\ mathcapList # <<>> /\ mathcapList[1].form \in Listing =>
           Tags(mathcapList[1].form) = {} \/ cmoCheck00(o, Tags(mathcapList[1].form))
  BY <1>1, Verdicts
<1> HIDE DEF o, s
<1>5. ASSUME NEW x \in Own(n), Answers(x), OperandStack' = s, UNCHANGED ErrorStack
      PROVE  AnsweredWith(n, <<x>>)
  <2>1. Stored(n)
    BY <1>1, <1>2, <1>5, Takes
  <2> QED BY <1>1, <1>5, <2>1, OneOf DEF AnsweredWith, Answers
<1>6. CASE verdict = "pass"
  <2>1. AnsweredWith(n, <<o>>)
    BY <1>2, <1>3, <1>5, <1>6
  <2>2. \A cmo : cmoCheck00(o, cmo) => Sent(o) \subseteq cmo
    BY <1>2, CheckedIsSent DEF Own
  <2>3. \/ mathcapList = <<>>
        \/ mathcapList[1].form \in Listing =>
              Tags(mathcapList[1].form) = {} \/ Sent(o) \subseteq Tags(mathcapList[1].form)
    BY <1>4, <1>6, <2>2
  <2>4. o.of = peek(OperandStack).of
    BY DEF o
  <2> QED BY <1>1, <1>2, <2>1, <2>3, <2>4, OneAnswer
<1>7. CASE verdict = "protect"
  <2>1. AnsweredWith(n, <<Error(n, n)>>)
    BY <1>2, <1>3, <1>5, <1>7
  <2> QED BY <1>1, <1>2, <2>1, OneAnswer
<1>8. CASE verdict = "error"
  <2>1. /\ answer' = [header |-> TRUE, body |-> <<>>, after |-> ran]
        /\ OperandStack' = Kpush(s, Error(n, 0)) /\ ErrorStack' = pushErrorStack(n)
    BY <1>3, <1>8 DEF JumpToNullserver
  <2>2. Stored(n)
    BY <1>1, <1>2, <2>1, PacketStored
  <2>3. AnsweredWith(n, <<>>)
    BY <1>1, <1>2, <2>1, <2>2, OneOf DEF AnsweredWith
  <2>4. OwnTypeOK' /\ ResultOnTop' /\ FitMathcap'
    BY <1>1, <2>3, AnswerTyped
  <2>5. answer'.body = <<>> /\ DOMAIN answer'.body = {}
    BY <2>1
  <2>6. misused'
    BY <1>1, <1>4, <1>8 DEF FitMathcap
  <2> QED BY <2>4, <2>5, <2>6 DEF StackInvariant, OwnResult, Protected, AnswersAreWhole
<1>9. verdict \in {"pass", "protect", "error"}
  BY <1>3
<1> QED BY <1>6, <1>7, <1>8, <1>9

\* No answer says nothing.
LEMMA Unanswered ==
  ASSUME answer' = NoAnswer
  PROVE  OwnResult' /\ Protected' /\ AnswersAreWhole'
<1>1. answer'.body = <<>> /\ answer'.header = FALSE
  BY DEF NoAnswer
<1>2. DOMAIN answer'.body = {}
  BY <1>1
<1> QED BY <1>1, <1>2 DEF OwnResult, Protected, AnswersAreWhole

LEMMA CommandInvariant ==
  ASSUME StackInvariant, NEW n,
         Sm1_pushCMO(n) \/ PushOne(n) \/ Sm1_setMathCap(n) \/ Sm1_pops(n) \/ Sm1_setName(n) \/ Sm1_evalName(n)
  PROVE  StackInvariant'
<1>1. OwnTypeOK /\ FitMathcap
  BY DEF StackInvariant
<1>2. OwnTypeOK'
  BY <1>1, CommandTyped
<1>3. Quietly
  BY DEF Sm1_pushCMO, PushOne, Sm1_setMathCap, Sm1_pops, Sm1_setName, Sm1_evalName
<1>4. ResultOnTop' /\ OwnResult' /\ Protected' /\ AnswersAreWhole'
  BY <1>3, Unanswered DEF Quietly, ResultOnTop
<1>5. FitMathcap'
  <2>1. CASE Sm1_setMathCap(n)
    <3>1. mathcapList' = <<peek(OperandStack)>> /\ (~misused' => peek(OperandStack).form \in Listing)
      BY <2>1 DEF Sm1_setMathCap
    <3> QED BY <3>1 DEF FitMathcap
  <2>2. CASE UNCHANGED <<mathcapList, misused>>
    BY <1>1, <2>2 DEF FitMathcap
  <2> QED BY <2>1, <2>2 DEF Sm1_pushCMO, PushOne, Sm1_pops, Sm1_setName, Sm1_evalName
<1> QED BY <1>2, <1>4, <1>5 DEF StackInvariant

LEMMA NextInvariant == StackInvariant /\ [Next]_vars => StackInvariant'
<1> SUFFICES ASSUME StackInvariant, [Next]_vars PROVE StackInvariant'
  OBVIOUS
<1>1. CASE InterruptAtRest
  <2>1. OwnTypeOK'
    BY <1>1, InterruptTyped DEF StackInvariant
  <2>2. Quietly /\ UNCHANGED <<mathcapList, misused>>
    BY <1>1 DEF InterruptAtRest
  <2>3. ResultOnTop' /\ FitMathcap'
    BY <2>2 DEF Quietly, ResultOnTop, FitMathcap, StackInvariant
  <2> QED BY <2>1, <2>2, <2>3, Unanswered DEF Quietly, StackInvariant
<1>2. ASSUME NEW n, Sm1_executeStringByLocalParser(n)
      PROVE  StackInvariant'
  <2>1. OwnTypeOK' /\ ResultOnTop'
    BY <1>2, ProgramTyped DEF StackInvariant
  <2>2. answer' = NoAnswer /\ UNCHANGED <<mathcapList, misused>>
    BY <1>2 DEF Sm1_executeStringByLocalParser
  <2>3. FitMathcap'
    BY <2>2 DEF FitMathcap, StackInvariant
  <2> QED BY <2>1, <2>2, <2>3, Unanswered DEF StackInvariant
<1>3. CASE UNCHANGED vars
  BY <1>3 DEF vars, StackInvariant, OwnTypeOK, ResultOnTop, FitMathcap, OwnResult, Protected, AnswersAreWhole
<1> QED BY <1>1, <1>2, <1>3, CommandInvariant, PopCMOInvariant, PopStringInvariant DEF Next

----------------------------------------------------------------------------
LEMMA InvariantHolds == Spec => []StackInvariant
  BY InitInvariant, NextInvariant, PTL DEF Spec

\* The operand stack never has more than one object over its size, whatever fails or is
\* interrupted, ErrorStack is never full, and objects are what the model says they are.
THEOREM StackTypeCorrect == Spec => []StackTypeOK
<1>1. StackInvariant => StackTypeOK
  BY TypesAndErrors DEF StackInvariant
<1> QED BY <1>1, InvariantHolds, PTL

\* Whoever pops right after a program has failed or left a result gets that result, the
\* error packet of that failure, or the refusal of his own request.
THEOREM OwnResultHolds == Spec => []OwnResult
<1>1. StackInvariant => OwnResult
  BY DEF StackInvariant
<1> QED BY <1>1, InvariantHolds, PTL

\* No error packet tells the failure of another request: what KSexecuteString keeps on
\* ErrorStack without being asked for it is never taken for a later failure.
THEOREM ErrorsTellOwnFailureHolds == Spec => []ErrorsTellOwnFailure
<1>1. StackInvariant => ErrorsTellOwnFailure
  BY TypesAndErrors DEF StackInvariant
<1> QED BY <1>1, InvariantHolds, PTL

\* A client that has registered a fit mathcap is sent what it lists, at every depth, and
\* error packets.
THEOREM MathcapProtects == Spec => []Protected
<1>1. StackInvariant => Protected
  BY DEF StackInvariant
<1> QED BY <1>1, InvariantHolds, PTL

\* A header goes out without a body only to a client that has registered something else
\* than a fit mathcap.
THEOREM AnswersWhole == Spec => []AnswersAreWhole
<1>1. StackInvariant => AnswersAreWhole
  BY DEF StackInvariant
<1> QED BY <1>1, InvariantHolds, PTL

=============================================================================
