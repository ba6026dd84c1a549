--------------------------- MODULE OxToolkit_proofs ---------------------------
(***************************************************************************)
(* Proofs about OxToolkit, for any number of requests and resets.          *)
(***************************************************************************)
EXTENDS OxToolkit, TLAPS

WordsTo(n) == [word : OxTags \cup Commands \cup {"serial", "CMO_INT32", "value"}, of : 0 .. n]
Codes == {"tag", "serial", "cmo", "value", "code"}
Reading == {"tag", "serial", "cmo", "value"}

----------------------------------------------------------------------------
(***************************************************************************)
(* Sequences.                                                              *)
(***************************************************************************)
LEMMA Members ==
  ASSUME NEW S, NEW s \in Seq(S), s # <<>>
  PROVE  Head(s) \in S /\ Tail(s) \in Seq(S) /\ (Tail(s) # <<>> <=> Len(s) > 1)
  OBVIOUS

LEMMA TailIs ==
  ASSUME NEW S, NEW s \in Seq(S), s # <<>>
  PROVE  /\ Len(s) \in Nat /\ Len(s) > 0 /\ Len(Tail(s)) = Len(s) - 1 /\ Head(s) = s[1] /\ s[1] \in S
         /\ \A i \in 1 .. Len(s) - 1 : Tail(s)[i] = s[i + 1] /\ i + 1 \in 1 .. Len(s)
  OBVIOUS

LEMMA EntryIs ==
  ASSUME NEW S, NEW s \in Seq(S), NEW i \in 1 .. Len(s)
  PROVE  s[i] \in S
  OBVIOUS

LEMMA Joined ==
  ASSUME NEW S, NEW s \in Seq(S), NEW t \in Seq(S)
  PROVE  s \o t \in Seq(S)
  OBVIOUS

LEMMA JoinedIs ==
  ASSUME NEW S, NEW s \in Seq(S), NEW t \in Seq(S)
  PROVE  /\ Len(s) \in Nat /\ Len(s \o t) = Len(s) + Len(t)
         /\ \A i \in 1 .. Len(s) : (s \o t)[i] = s[i]
         /\ \A i \in 1 .. Len(t) : (s \o t)[Len(s) + i] = t[i]
  OBVIOUS

LEMMA Appended ==
  ASSUME NEW S, NEW s \in Seq(S), NEW e \in S
  PROVE  Append(s, e) \in Seq(S)
  OBVIOUS

LEMMA Wider ==
  ASSUME NEW S, NEW T, S \subseteq T
  PROVE  Seq(S) \subseteq Seq(T)
  OBVIOUS

LEMMA WordsGrow ==
  ASSUME NEW m \in Nat, NEW n \in Nat, m <= n
  PROVE  Seq(WordsTo(m)) \subseteq Seq(WordsTo(n))
<1>1. WordsTo(m) \subseteq WordsTo(n)
  <2>1. 0 .. m \subseteq 0 .. n
    OBVIOUS
  <2> QED BY <2>1 DEF WordsTo
<1> QED BY <1>1, Wider

LEMMA WholeMessages ==
  ASSUME NEW n \in Nat, NEW m \in 0 .. n
  PROVE  /\ SyncBall \in Seq(WordsTo(n)) /\ SyncBall # <<>>
         /\ Data(m) \in Seq(WordsTo(n)) /\ Data(m) # <<>>
         /\ \A code \in Commands : Command(code, m) \in Seq(WordsTo(n))
<1>1. 0 \in 0 .. n
  OBVIOUS
<1>2. \A w \in OxTags \cup Commands \cup {"serial", "CMO_INT32", "value"} :
        Word(w) \in WordsTo(n) /\ Of(w, m) \in WordsTo(n)
  BY <1>1 DEF Word, Of, WordsTo
<1>3. /\ Word("OX_SYNC_BALL") \in WordsTo(n) /\ Word("serial") \in WordsTo(n)
      /\ Word("OX_DATA") \in WordsTo(n) /\ Word("CMO_INT32") \in WordsTo(n)
      /\ Of("value", m) \in WordsTo(n) /\ Word("OX_COMMAND") \in WordsTo(n)
      /\ \A code \in Commands : Of(code, m) \in WordsTo(n)
  BY <1>2 DEF OxTags
<1>4. SyncBall \in Seq(WordsTo(n)) /\ SyncBall # <<>>
  BY <1>3 DEF SyncBall
<1>5. Data(m) \in Seq(WordsTo(n)) /\ Data(m) # <<>>
  BY <1>3 DEF Data
<1>6. \A code \in Commands : Command(code, m) \in Seq(WordsTo(n))
  BY <1>3 DEF Command
<1> QED BY <1>4, <1>5, <1>6

----------------------------------------------------------------------------
(***************************************************************************)
(* Types.  No word has a number that has not been given yet, and OX_get    *)
(* is called for an answer only.                                           *)
(***************************************************************************)
Numbered ==
  /\ wbuf \in Seq(WordsTo(nreq)) /\ toServer \in Seq(WordsTo(nreq))
  /\ toClient \in Seq(WordsTo(nreq)) /\ out \in Seq(WordsTo(nreq))

Awaits == call = "OX_get" /\ cpc \in Reading => awaited # <<>>

Base == ToolkitTypeOK /\ Numbered /\ Awaits

LEMMA InitBase == Init => Base
<1> SUFFICES ASSUME Init PROVE Base
  OBVIOUS
<1>1. Numbered
  BY DEF Init, Numbered
<1>2. ToolkitTypeOK
  <2>1. nreq \in 0 .. MaxRequests /\ nreset \in 0 .. MaxResets /\ givenUp \in 0 .. nreq /\ last \in 0 .. nreq
    BY ToolkitAssumption DEF Init
  <2>2. /\ awaited \in Seq(1 .. MaxRequests)
        /\ wbuf \in Seq(Words) /\ toServer \in Seq(Words) /\ toClient \in Seq(Words) /\ out \in Seq(Words)
    BY DEF Init
  <2> QED BY <2>1, <2>2 DEF Init, ToolkitTypeOK
<1>3. Awaits
  BY DEF Init, Awaits, Reading
<1> QED BY <1>1, <1>2, <1>3 DEF Base

LEMMA WordsAreWords == \A n \in 0 .. MaxRequests : WordsTo(n) \subseteq Words
<1> TAKE n \in 0 .. MaxRequests
<1>1. 0 .. n \subseteq 0 .. MaxRequests
  BY ToolkitAssumption
<1> QED BY <1>1 DEF WordsTo, Words

\* What the streams carry follows from Numbered.
LEMMA TypesFromNumbered == ASSUME Numbered, nreq \in 0 .. MaxRequests
                           PROVE  /\ wbuf \in Seq(Words) /\ toServer \in Seq(Words)
                                  /\ toClient \in Seq(Words) /\ out \in Seq(Words)
<1>1. Seq(WordsTo(nreq)) \subseteq Seq(Words)
  BY WordsAreWords, Wider
<1> QED BY <1>1 DEF Numbered

LEMMA BaseClient ==
  ASSUME Base, ClientNext
  PROVE  Base'
<1> USE DEF options, userVars, clientVars, serverVars, Reading
<1>0. /\ ToolkitTypeOK /\ Numbered /\ Awaits /\ nreq \in 0 .. MaxRequests /\ nreq \in Nat
      /\ SyncBall \in Seq(WordsTo(nreq)) /\ awaited \in Seq(1 .. MaxRequests)
      /\ last \in 0 .. nreq /\ givenUp \in 0 .. nreq
  BY ToolkitAssumption, WholeMessages DEF Base, ToolkitTypeOK
<1> SUFFICES /\ Numbered' /\ Awaits' /\ nreq' \in 0 .. MaxRequests /\ nreset' \in 0 .. MaxResets
             /\ cpc' \in Reading \cup {"user", "gone"} /\ call' \in {"OX_get", "ox_reset"}
             /\ awaited' \in Seq(1 .. MaxRequests) /\ last' \in 0 .. nreq' /\ givenUp' \in 0 .. nreq'
             /\ sigPending' \in BOOLEAN
             /\ UNCHANGED <<options, serverVars>>
  <2>1. wbuf' \in Seq(Words) /\ toServer' \in Seq(Words) /\ toClient' \in Seq(Words) /\ out' \in Seq(Words)
    <3>1. Numbered' /\ nreq' \in 0 .. MaxRequests
      OBVIOUS
    <3>2. Seq(WordsTo(nreq')) \subseteq Seq(Words)
      BY <3>1, WordsAreWords, Wider
    <3> QED BY <3>1, <3>2 DEF Numbered
  <2> QED BY <1>0, <2>1 DEF Base, ToolkitTypeOK
<1>1. ASSUME NEW w \in Seq(WordsTo(nreq)), WriteOnly(w)
      PROVE  wbuf' \in Seq(WordsTo(nreq)) /\ toServer' \in Seq(WordsTo(nreq))
  BY <1>0, <1>1, Joined DEF WriteOnly, Numbered
<1>2. CASE send_ox
  <2>1. nreq' = nreq + 1 /\ nreq' \in 0 .. MaxRequests /\ nreq' \in 1 .. MaxRequests
    BY <1>0, <1>2, ToolkitAssumption DEF send_ox
  <2>2. PICK w \in Seq(WordsTo(nreq')) : WriteAndFlush(w)
    <3>1. nreq' \in Nat /\ nreq' \in 0 .. nreq'
      BY <1>0, <2>1
    <3>2. /\ Data(nreq') \in Seq(WordsTo(nreq')) /\ Command("SM_execute", nreq') \in Seq(WordsTo(nreq'))
          /\ Command("SM_popCMO", nreq') \in Seq(WordsTo(nreq'))
      BY <3>1, WholeMessages DEF Commands
    <3> QED BY <1>2, <3>2 DEF send_ox
  <2>3. Seq(WordsTo(nreq)) \subseteq Seq(WordsTo(nreq'))
    BY <1>0, <2>1, WordsGrow
  <2>4. toServer' \in Seq(WordsTo(nreq')) /\ wbuf' \in Seq(WordsTo(nreq'))
    BY <1>0, <2>2, <2>3, Joined DEF WriteAndFlush, Numbered
  <2>5. UNCHANGED <<toClient, out>>
    BY <1>2 DEF send_ox
  <2>6. Numbered'
    BY <1>0, <2>3, <2>4, <2>5 DEF Numbered
  <2>7. awaited' \in Seq(1 .. MaxRequests)
    BY <1>0, <1>2, <2>1, Appended DEF send_ox
  <2>8. last' \in 0 .. nreq' /\ givenUp' \in 0 .. nreq'
    BY <1>0, <1>2, <2>1 DEF send_ox
  <2> QED BY <1>0, <1>2, <2>1, <2>6, <2>7, <2>8 DEF send_ox, ToolkitTypeOK, Awaits
<1>3. CASE OX_get
  BY <1>0, <1>3 DEF OX_get, ToolkitTypeOK, Awaits, Numbered
<1>4. CASE ox_reset
  BY <1>0, <1>4, ToolkitAssumption DEF ox_reset, ToolkitTypeOK, Awaits, Numbered
<1>5. ASSUME NEW pc, ReadsWord(pc)
      PROVE  /\ toClient' \in Seq(WordsTo(nreq)) /\ Head(toClient) \in WordsTo(nreq)
             /\ Head(toClient).of \in 0 .. nreq
  <2>1. toClient' \in Seq(WordsTo(nreq)) /\ Head(toClient) \in WordsTo(nreq)
    BY <1>0, <1>5, Members DEF ReadsWord, Numbered
  <2> QED BY <2>1 DEF WordsTo
<1>6. ASSUME Returns, cpc \in Reading
      PROVE  awaited' \in Seq(1 .. MaxRequests) /\ cpc' \in {"tag", "user"} /\ (cpc' = "tag" => call # "OX_get")
  <2>1. CASE call = "OX_get"
    <3>1. awaited # <<>>
      BY <1>0, <1>6, <2>1 DEF Awaits
    <3> QED BY <1>0, <1>6, <2>1, <3>1, Members DEF Returns
  <2>2. CASE call # "OX_get"
    BY <1>0, <1>6, <2>2 DEF Returns
  <2> QED BY <2>1, <2>2
<1>7. CASE ClientReadsTag
  BY <1>0, <1>5, <1>7 DEF ClientReadsTag, ToolkitTypeOK, Awaits, Numbered, ReadsWord
<1>8. CASE ClientReadsSerial
  BY <1>0, <1>5, <1>8 DEF ClientReadsSerial, ToolkitTypeOK, Awaits, Numbered, ReadsWord
<1>9. CASE ClientReadsBall
  <2>1. toClient' \in Seq(WordsTo(nreq)) /\ wbuf' \in Seq(WordsTo(nreq)) /\ toServer' \in Seq(WordsTo(nreq))
    BY <1>0, <1>1, <1>5, <1>9 DEF ClientReadsBall
  <2>2. UNCHANGED <<nreq, out>>
    BY <1>9 DEF ClientReadsBall
  <2>3. Numbered'
    BY <1>0, <2>1, <2>2 DEF Numbered
  <2> QED BY <1>0, <1>9, <2>3 DEF ClientReadsBall, ToolkitTypeOK, Awaits
<1>10. CASE ClientReadsCmo
  <2>1. toClient' \in Seq(WordsTo(nreq)) /\ cpc = "cmo"
    BY <1>5, <1>10 DEF ClientReadsCmo, ReadsWord
  <2>2. UNCHANGED <<nreq, out, wbuf, toServer>>
    BY <1>10 DEF ClientReadsCmo
  <2>3. Numbered'
    BY <1>0, <2>1, <2>2 DEF Numbered
  <2>4. CASE Head(toClient).word = "CMO_INT32"
    BY <1>0, <1>10, <2>1, <2>3, <2>4 DEF ClientReadsCmo, ToolkitTypeOK, Awaits
  <2>5. CASE Head(toClient).word # "CMO_INT32"
    BY <1>0, <1>6, <1>10, <2>1, <2>3, <2>5 DEF ClientReadsCmo, ToolkitTypeOK, Awaits
  <2> QED BY <2>4, <2>5
<1>11. CASE ClientReadsValue
  <2>1. toClient' \in Seq(WordsTo(nreq)) /\ cpc = "value" /\ Head(toClient).of \in 0 .. nreq
    BY <1>5, <1>11 DEF ClientReadsValue, ReadsWord
  <2>2. UNCHANGED <<nreq, out, wbuf, toServer>>
    BY <1>11 DEF ClientReadsValue
  <2>3. Numbered'
    BY <1>0, <2>1, <2>2 DEF Numbered
  <2>4. last' \in 0 .. nreq'
    BY <1>0, <1>11, <2>1, <2>2 DEF ClientReadsValue
  <2> QED BY <1>0, <1>6, <1>11, <2>1, <2>3, <2>4 DEF ClientReadsValue, ToolkitTypeOK, Awaits
<1>12. CASE ClientExits
  BY <1>0, <1>12 DEF ClientExits, ToolkitTypeOK, Awaits, Numbered
<1> QED BY <1>2, <1>3, <1>4, <1>7, <1>8, <1>9, <1>10, <1>11, <1>12 DEF ClientNext, ClientReads

LEMMA BaseServer ==
  ASSUME Base, ServerNext
  PROVE  Base'
<1> USE DEF options, userVars, clientVars, serverVars
<1> DEFINE Where == {"tag", "serial", "cmo", "value", "code", "execute", "write", "gone",
                     "unmask", "enter", "select", "check", "exchanged"}
<1>0. /\ ToolkitTypeOK /\ Numbered /\ Awaits /\ nreq \in 0 .. MaxRequests /\ nreq \in Nat
      /\ SyncBall \in Seq(WordsTo(nreq)) /\ SyncBall # <<>>
      /\ toServer \in Seq(WordsTo(nreq)) /\ toClient \in Seq(WordsTo(nreq)) /\ out \in Seq(WordsTo(nreq))
      /\ spc \in Where /\ (out # <<>> <=> spc = "write") /\ MessageDone \in {"check", "tag"}
      /\ discarding \in BOOLEAN /\ noted \in BOOLEAN
      /\ sigPending \in BOOLEAN /\ sigBlocked \in BOOLEAN /\ torn \in BOOLEAN
  BY ToolkitAssumption, WholeMessages DEF Base, ToolkitTypeOK, Numbered, MessageDone
<1> SUFFICES /\ toServer' \in Seq(WordsTo(nreq)) /\ toClient' \in Seq(WordsTo(nreq))
             /\ out' \in Seq(WordsTo(nreq))
             /\ spc' \in Where /\ (out' # <<>> <=> spc' = "write")
             /\ discarding' \in BOOLEAN /\ noted' \in BOOLEAN
             /\ sigPending' \in BOOLEAN /\ sigBlocked' \in BOOLEAN /\ torn' \in BOOLEAN
             /\ UNCHANGED <<options, clientVars>>
  <2>1. Numbered'
    BY <1>0 DEF Numbered
  <2>2. toServer' \in Seq(Words) /\ toClient' \in Seq(Words) /\ out' \in Seq(Words)
    <3>1. Seq(WordsTo(nreq)) \subseteq Seq(Words)
      BY <1>0, WordsAreWords, Wider
    <3> QED BY <3>1
  <2> QED BY <1>0, <2>1, <2>2 DEF Base, ToolkitTypeOK, Awaits
<1>1. ASSUME NEW pc, TakesWord(pc)
      PROVE  toServer' \in Seq(WordsTo(nreq)) /\ Head(toServer).of \in 0 .. nreq
  <2>1. toServer' \in Seq(WordsTo(nreq)) /\ Head(toServer) \in WordsTo(nreq)
    BY <1>0, <1>1, Members DEF TakesWord
  <2> QED BY <2>1 DEF WordsTo
<1>2. CASE ServerReadsTag
  BY <1>0, <1>1, <1>2 DEF ServerReadsTag, TakesWord, Runs
<1>3. CASE ServerReadsSerial
  BY <1>0, <1>1, <1>3 DEF ServerReadsSerial, TakesWord, Runs
<1>4. CASE ServerReadsCmo
  BY <1>0, <1>1, <1>4 DEF ServerReadsCmo, TakesWord, Runs
<1>5. CASE ServerReadsValue
  BY <1>0, <1>1, <1>5 DEF ServerReadsValue, TakesWord, Runs
<1>6. CASE ServerReadsCode
  <2>1. Data(Head(toServer).of) \in Seq(WordsTo(nreq)) /\ Data(Head(toServer).of) # <<>>
    BY <1>0, <1>1, <1>6, WholeMessages DEF ServerReadsCode
  <2> QED BY <1>0, <1>1, <1>6, <2>1 DEF ServerReadsCode, TakesWord, Runs
<1>7. CASE ServerWrites
  <2>1. out # <<>>
    BY <1>0, <1>7 DEF ServerWrites, Runs
  <2>2. Head(out) \in WordsTo(nreq) /\ out' \in Seq(WordsTo(nreq)) /\ (out' # <<>> <=> Len(out) > 1)
    BY <1>0, <1>7, <2>1, Members DEF ServerWrites
  <2>3. toClient' \in Seq(WordsTo(nreq))
    BY <1>0, <1>7, <2>2, Appended DEF ServerWrites
  <2> QED BY <1>0, <1>7, <2>2, <2>3 DEF ServerWrites
<1>8. CASE ServerReadsEnd
  BY <1>0, <1>8 DEF ServerReadsEnd
<1>9. CASE ExecuteEnds
  BY <1>0, <1>9 DEF ExecuteEnds, Runs
<1>10. CASE MathStep
  <2>1. CASE sm_sigunmask
    BY <1>0, <2>1 DEF sm_sigunmask, Runs
  <2>2. CASE EnterSelect
    BY <1>0, <2>2 DEF EnterSelect, Runs
  <2>3. CASE SelectReturns
    BY <1>0, <2>3 DEF SelectReturns, Runs
  <2>4. CASE exchange_ox_sync_ball
    BY <1>0, <2>4 DEF exchange_ox_sync_ball, Runs
  <2>5. CASE Exchanged
    BY <1>0, <2>5 DEF Exchanged, Runs
  <2> QED BY <1>10, <2>1, <2>2, <2>3, <2>4, <2>5 DEF MathStep
<1>11. CASE sm_sighandler
  BY <1>0, <1>11 DEF sm_sighandler
<1>12. CASE usr1_handler
  BY <1>0, <1>12 DEF usr1_handler, MidMessage
<1> QED BY <1>2, <1>3, <1>4, <1>5, <1>6, <1>7, <1>8, <1>9, <1>10, <1>11, <1>12 DEF ServerNext, ServerStep

LEMMA BaseInductive == Base /\ [Next]_vars => Base'
<1>1. ASSUME Base, UNCHANGED vars PROVE Base'
  BY <1>1 DEF Base, ToolkitTypeOK, Numbered, Awaits, vars, options, userVars, clientVars, serverVars
<1> QED BY <1>1, BaseClient, BaseServer DEF Next

\* Every variable of a session of the toolkit keeps its type; the server has words to write
\* just where it writes.
THEOREM ToolkitTypeCorrect == Spec => []ToolkitTypeOK
<1>1. Base => ToolkitTypeOK
  BY DEF Base
<1> QED BY <1>1, InitBase, BaseInductive, PTL DEF Spec

----------------------------------------------------------------------------
(***************************************************************************)
(* The grammar of the streams.  A reader is in a phase, which says what    *)
(* word comes next; Parses(q, s, r) says that s takes it from q to r.      *)
(***************************************************************************)
Phases == {"tag", "cmo", "value", "code", "serialData", "serialCommand", "serialBall"}

SerialOf(t) == CASE t = "OX_DATA" -> "serialData" [] t = "OX_COMMAND" -> "serialCommand"
                 [] OTHER -> "serialBall"

PhaseAt(pc, tag) == CASE pc = "serial" -> SerialOf(tag) [] pc \in {"cmo", "value", "code"} -> pc
                      [] OTHER -> "tag"

Expected(q) == IF q \in {"serialData", "serialCommand", "serialBall"} THEN {"serial"} ELSE Proper(q)

After(q, w) == CASE q = "tag" -> SerialOf(w) [] q = "serialData" -> "cmo" [] q = "serialCommand" -> "code"
                 [] q = "cmo" -> "value" [] OTHER -> "tag"

Parses(q, s, r) ==
  \E p \in [1 .. Len(s) + 1 -> Phases] :
    /\ p[1] = q /\ p[Len(s) + 1] = r
    /\ \A i \in 1 .. Len(s) : s[i].word \in Expected(p[i]) /\ p[i + 1] = After(p[i], s[i].word)

LEMMA PhasesClosed == /\ \A q \in Phases : \A w : After(q, w) \in Phases
                      /\ \A pc, tag : PhaseAt(pc, tag) \in Phases
<1>1. \A t : SerialOf(t) \in Phases
  BY DEF SerialOf, Phases
<1>2. ASSUME NEW q \in Phases, NEW w PROVE After(q, w) \in Phases
  <2>1. CASE q = "tag"
    BY <1>1, <2>1 DEF After
  <2>2. CASE q # "tag"
    BY <2>2 DEF After, Phases
  <2> QED BY <2>1, <2>2
<1>3. ASSUME NEW pc, NEW tag PROVE PhaseAt(pc, tag) \in Phases
  <2>1. CASE pc = "serial"
    BY <1>1, <2>1 DEF PhaseAt
  <2>2. CASE pc \in {"cmo", "value", "code"}
    BY <2>2 DEF PhaseAt, Phases
  <2>3. CASE pc # "serial" /\ pc \notin {"cmo", "value", "code"}
    BY <2>3 DEF PhaseAt, Phases
  <2> QED BY <2>1, <2>2, <2>3
<1> QED BY <1>2, <1>3

LEMMA ParsesNothing ==
  ASSUME NEW q \in Phases
  PROVE  Parses(q, <<>>, q) /\ \A r : Parses(q, <<>>, r) => r = q
<1> DEFINE p == [i \in 1 .. 1 |-> q]
<1>1. p \in [1 .. Len(<<>>) + 1 -> Phases] /\ Len(<<>>) + 1 = 1 /\ 1 .. Len(<<>>) = {} /\ p[1] = q
  OBVIOUS
<1> HIDE DEF p
<1>2. Parses(q, <<>>, q)
  BY <1>1 DEF Parses
<1>3. ASSUME NEW r, Parses(q, <<>>, r) PROVE r = q
  BY <1>1, <1>3 DEF Parses
<1> QED BY <1>2, <1>3

LEMMA ParsesOneMore ==
  ASSUME NEW S, NEW s \in Seq(S), NEW e \in S, NEW q, NEW r, Parses(q, s, r), e.word \in Expected(r)
  PROVE  Parses(q, Append(s, e), After(r, e.word))
<1> DEFINE n == Len(s)
           t == Append(s, e)
<1>1. PICK p \in [1 .. n + 1 -> Phases] :
        /\ p[1] = q /\ p[n + 1] = r
        /\ \A i \in 1 .. n : s[i].word \in Expected(p[i]) /\ p[i + 1] = After(p[i], s[i].word)
  BY DEF Parses
<1> DEFINE o == [i \in 1 .. n + 2 |-> IF i = n + 2 THEN After(r, e.word) ELSE p[i]]
<1>2. n \in Nat /\ Len(t) = n + 1 /\ t[n + 1] = e /\ \A i \in 1 .. n : t[i] = s[i]
  OBVIOUS
<1>3. r \in Phases
  BY <1>1, <1>2
<1>4. o \in [1 .. Len(t) + 1 -> Phases]
  <2>1. After(r, e.word) \in Phases
    BY <1>3, PhasesClosed
  <2>2. \A i \in 1 .. n + 2 : i # n + 2 => p[i] \in Phases
    BY <1>1, <1>2
  <2> QED BY <1>2, <2>1, <2>2
<1>5. o[1] = q /\ o[Len(t) + 1] = After(r, e.word)
  BY <1>1, <1>2
<1>6. \A i \in 1 .. Len(t) : t[i].word \in Expected(o[i]) /\ o[i + 1] = After(o[i], t[i].word)
  <2> TAKE i \in 1 .. Len(t)
  <2>1. CASE i = n + 1
    BY <1>1, <1>2, <2>1
  <2>2. CASE i \in 1 .. n
    BY <1>1, <1>2, <2>2
  <2> QED BY <1>2, <2>1, <2>2
<1> HIDE DEF o, t
<1>7. Parses(q, t, After(r, e.word))
  BY <1>4, <1>5, <1>6 DEF Parses
<1> QED BY <1>7 DEF t

LEMMA ParsesFirst ==
  ASSUME NEW S, NEW s \in Seq(S), s # <<>>, NEW q, NEW r, Parses(q, s, r)
  PROVE  Head(s).word \in Expected(q) /\ Parses(After(q, Head(s).word), Tail(s), r)
<1> DEFINE n == Len(s)
           t == Tail(s)
<1>1. PICK p \in [1 .. n + 1 -> Phases] :
        /\ p[1] = q /\ p[n + 1] = r
        /\ \A i \in 1 .. n : s[i].word \in Expected(p[i]) /\ p[i + 1] = After(p[i], s[i].word)
  BY DEF Parses
<1>2. n \in Nat /\ n > 0 /\ Len(t) = n - 1 /\ Head(s) = s[1] /\ \A i \in 1 .. n - 1 : t[i] = s[i + 1]
  OBVIOUS
<1> DEFINE o == [i \in 1 .. n |-> p[i + 1]]
<1>3. o \in [1 .. Len(t) + 1 -> Phases]
  BY <1>1, <1>2
<1>4. o[1] = After(q, Head(s).word) /\ o[Len(t) + 1] = r
  BY <1>1, <1>2
<1>5. \A i \in 1 .. Len(t) : t[i].word \in Expected(o[i]) /\ o[i + 1] = After(o[i], t[i].word)
  <2> TAKE i \in 1 .. Len(t)
  <2>1. i \in 1 .. n - 1 /\ i + 1 \in 1 .. n /\ i \in 1 .. n /\ t[i] = s[i + 1]
    BY <1>2
  <2> QED BY <1>1, <2>1
<1> HIDE DEF o, t
<1>6. Parses(After(q, Head(s).word), t, r)
  BY <1>3, <1>4, <1>5 DEF Parses
<1>7. Head(s).word \in Expected(q)
  BY <1>1, <1>2
<1> QED BY <1>6, <1>7 DEF t

LEMMA ParsesBoth ==
  ASSUME NEW S, NEW s \in Seq(S), NEW t \in Seq(S), NEW q, NEW m, NEW r, Parses(q, s, m), Parses(m, t, r)
  PROVE  Parses(q, s \o t, r)
<1> DEFINE n == Len(s)
           k == Len(t)
           u == s \o t
<1>1. PICK p \in [1 .. n + 1 -> Phases] :
        /\ p[1] = q /\ p[n + 1] = m
        /\ \A i \in 1 .. n : s[i].word \in Expected(p[i]) /\ p[i + 1] = After(p[i], s[i].word)
  BY DEF Parses
<1>2. PICK o \in [1 .. k + 1 -> Phases] :
        /\ o[1] = m /\ o[k + 1] = r
        /\ \A i \in 1 .. k : t[i].word \in Expected(o[i]) /\ o[i + 1] = After(o[i], t[i].word)
  BY DEF Parses
<1>3. /\ n \in Nat /\ k \in Nat /\ Len(u) = n + k
      /\ \A i \in 1 .. n : u[i] = s[i]
      /\ \A i \in 1 .. k : u[n + i] = t[i]
  OBVIOUS
<1> DEFINE w == [i \in 1 .. n + k + 1 |-> IF i <= n THEN p[i] ELSE o[i - n]]
<1>4. w \in [1 .. Len(u) + 1 -> Phases]
  BY <1>1, <1>2, <1>3
<1>5. w[1] = q
  BY <1>1, <1>2, <1>3
<1>6. w[Len(u) + 1] = r
  BY <1>2, <1>3
<1>7. \A i \in 1 .. Len(u) : u[i].word \in Expected(w[i]) /\ w[i + 1] = After(w[i], u[i].word)
  <2> TAKE i \in 1 .. Len(u)
  <2>1. CASE i < n
    BY <1>1, <1>3, <2>1
  <2>2. CASE i = n
    <3>1. w[i] = p[n] /\ w[i + 1] = o[1] /\ u[i] = s[n] /\ n \in 1 .. n
      BY <1>3, <2>2
    <3> QED BY <1>1, <1>2, <2>2, <3>1
  <2>3. CASE i > n
    <3>1. i - n \in 1 .. k /\ u[i] = t[i - n] /\ w[i] = o[i - n] /\ w[i + 1] = o[i - n + 1]
      <4>1. i - n \in 1 .. k /\ n + (i - n) = i
        BY <1>3, <2>3
      <4> QED BY <1>3, <2>3, <4>1
    <3> QED BY <1>2, <3>1
  <2> QED BY <1>3, <2>1, <2>2, <2>3
<1> HIDE DEF w, u
<1>8. Parses(q, u, r)
  BY <1>4, <1>5, <1>6, <1>7 DEF Parses
<1> QED BY <1>8 DEF u

LEMMA MessagesParse ==
  ASSUME NEW n \in Nat, NEW m \in 0 .. n
  PROVE  /\ Parses("tag", SyncBall, "tag") /\ Parses("tag", Data(m), "tag")
         /\ \A code \in Commands : Parses("tag", Command(code, m), "tag")
<1>1. SyncBall = Append(Append(<<>>, Word("OX_SYNC_BALL")), Word("serial"))
  BY DEF SyncBall
<1>2. Data(m) = Append(Append(Append(Append(<<>>, Word("OX_DATA")), Word("serial")), Word("CMO_INT32")), Of("value", m))
  BY DEF Data
<1>3. \A code : Command(code, m) = Append(Append(Append(<<>>, Word("OX_COMMAND")), Word("serial")), Of(code, m))
  BY DEF Command
<1> DEFINE U == {"OX_SYNC_BALL", "OX_DATA", "OX_COMMAND", "serial", "CMO_INT32", "value"} \cup Commands
           W == {Word(w) : w \in U} \cup {Of(w, m) : w \in U}
<1>4. /\ Word("OX_SYNC_BALL") \in W /\ Word("OX_DATA") \in W /\ Word("OX_COMMAND") \in W
      /\ Word("serial") \in W /\ Word("CMO_INT32") \in W /\ Of("value", m) \in W
      /\ \A code \in Commands : Of(code, m) \in W
  OBVIOUS
<1>5. \A w, k : Word(w).word = w /\ Of(w, k).word = w
  BY DEF Word, Of
<1> HIDE DEF W
<1>6. "tag" \in Phases /\ Parses("tag", <<>>, "tag") /\ <<>> \in Seq(W)
  BY ParsesNothing DEF Phases
<1> DEFINE A(t) == Append(<<>>, Word(t))
           B(t) == Append(A(t), Word("serial"))
<1>7. \A t : Word(t) \in W => A(t) \in Seq(W) /\ B(t) \in Seq(W)
  BY <1>4, <1>6, Appended
<1>8. ASSUME NEW t \in OxTags, Word(t) \in W PROVE Parses("tag", A(t), SerialOf(t))
  <2>1. Word(t).word \in Expected("tag") /\ After("tag", Word(t).word) = SerialOf(t)
    BY <1>5 DEF Expected, Proper, After
  <2> QED BY <1>6, <1>8, <2>1, ParsesOneMore
<1> HIDE DEF A
<1>9. ASSUME NEW t \in OxTags, Word(t) \in W PROVE Parses("tag", B(t), After(SerialOf(t), "serial"))
  <2>1. Word("serial").word \in Expected(SerialOf(t)) /\ Word("serial").word = "serial"
    BY <1>5 DEF Expected, SerialOf
  <2>2. A(t) \in Seq(W) /\ Parses("tag", A(t), SerialOf(t))
    BY <1>7, <1>8, <1>9
  <2> QED BY <1>4, <2>1, <2>2, ParsesOneMore
<1> HIDE DEF B
<1>10. Parses("tag", SyncBall, "tag")
  <2>1. SyncBall = B("OX_SYNC_BALL") /\ After(SerialOf("OX_SYNC_BALL"), "serial") = "tag"
    BY <1>1 DEF A, B, After, SerialOf
  <2> QED BY <1>4, <1>9, <2>1 DEF OxTags
<1>11. Parses("tag", Data(m), "tag")
  <2> DEFINE C == Append(B("OX_DATA"), Word("CMO_INT32"))
  <2>1. Data(m) = Append(C, Of("value", m)) /\ After(SerialOf("OX_DATA"), "serial") = "cmo"
    BY <1>2 DEF A, B, After, SerialOf
  <2>2. Parses("tag", B("OX_DATA"), "cmo") /\ B("OX_DATA") \in Seq(W)
    BY <1>4, <1>7, <1>9, <2>1 DEF OxTags
  <2>3. Word("CMO_INT32").word \in Expected("cmo") /\ After("cmo", Word("CMO_INT32").word) = "value"
    BY <1>5 DEF Expected, Proper, After
  <2>4. Parses("tag", C, "value") /\ C \in Seq(W)
    BY <1>4, <2>2, <2>3, ParsesOneMore, Appended
  <2>5. Of("value", m).word \in Expected("value") /\ After("value", Of("value", m).word) = "tag"
    BY <1>5 DEF Expected, Proper, After
  <2> HIDE DEF C
  <2> QED BY <1>4, <2>1, <2>4, <2>5, ParsesOneMore
<1>12. ASSUME NEW code \in Commands PROVE Parses("tag", Command(code, m), "tag")
  <2>1. Command(code, m) = Append(B("OX_COMMAND"), Of(code, m)) /\ After(SerialOf("OX_COMMAND"), "serial") = "code"
    BY <1>3 DEF A, B, After, SerialOf
  <2>2. Parses("tag", B("OX_COMMAND"), "code") /\ B("OX_COMMAND") \in Seq(W)
    BY <1>4, <1>7, <1>9, <2>1 DEF OxTags
  <2>3. Of(code, m).word \in Expected("code") /\ After("code", Of(code, m).word) = "tag"
    BY <1>5 DEF Expected, Proper, After
  <2> QED BY <1>4, <2>1, <2>2, <2>3, ParsesOneMore
<1> QED BY <1>10, <1>11, <1>12

----------------------------------------------------------------------------
(***************************************************************************)
(* The balls.  A reset is a signal, then a note, then a ball under way,    *)
(* and never two of them; the client reads a ball only in ox_reset.        *)
(***************************************************************************)
Free(s, w) == \A i \in 1 .. Len(s) : s[i].word # w
OneBall(s) == \E k \in 1 .. Len(s) : \A i \in 1 .. Len(s) : s[i].word = "OX_SYNC_BALL" <=> i = k

ServerOK ==
  /\ spc = "gone" => cpc = "gone"
  /\ server # "ox_math" =>
       ~noted /\ ~discarding /\ spc \notin {"unmask", "enter", "select", "check", "exchanged"}
  /\ server = "ox_math" => ~torn
  /\ server = "ox_math" /\ spc \notin {"unmask", "enter", "select", "execute", "gone"} => sigBlocked
  /\ discarding => noted /\ sigBlocked
                  /\ spc \in {"write", "tag", "serial", "cmo", "value", "code", "exchanged", "gone"}
  /\ spc = "exchanged" => discarding

Quiet == ~sigPending /\ (noted => discarding)
BallFree == Free(toClient, "OX_SYNC_BALL") /\ Free(out, "OX_SYNC_BALL")
BallRead == cpc = "serial" /\ ctag = "OX_SYNC_BALL"
Resetting == call = "ox_reset" /\ cpc \in Reading

Signalled == sigPending /\ (noted => discarding) /\ BallFree
Noted == ~sigPending /\ noted /\ ~discarding /\ BallFree
BallToWrite == Quiet /\ Free(toClient, "OX_SYNC_BALL") /\ OneBall(out)
BallUnderWay == Quiet /\ OneBall(toClient) /\ Free(out, "OX_SYNC_BALL")

NoReset == Quiet /\ BallFree /\ (Resetting <=> BallRead)
InReset == Resetting /\ ~BallRead /\ (Signalled \/ Noted \/ BallToWrite \/ BallUnderWay)

ClientOK ==
  /\ Free(toClient, "OX_COMMAND") /\ Free(out, "OX_COMMAND")
  /\ cpc = "serial" => ctag \in {"OX_DATA", "OX_SYNC_BALL"}

Grammar ==
  /\ Parses(PhaseAt(spc, stag), toServer, "tag") /\ Parses("tag", wbuf, "tag")
  /\ \E m \in Phases : Parses(PhaseAt(cpc, ctag), toClient, m) /\ Parses(m, out, "tag")

StepInvariant == Base /\ ServerOK /\ (~torn => (NoReset \/ InReset) /\ ClientOK /\ Grammar)

LEMMA FreeOf ==
  ASSUME NEW S, NEW s \in Seq(S), NEW w
  PROVE  /\ Free(<<>>, w)
         /\ \A e \in S : Free(s, w) /\ e.word # w => Free(Append(s, e), w)
         /\ s # <<>> /\ Free(s, w) => Head(s).word # w /\ Free(Tail(s), w)
<1>1. Free(<<>>, w)
  BY DEF Free
<1>2. ASSUME NEW e \in S, Free(s, w), e.word # w PROVE Free(Append(s, e), w)
  BY <1>2 DEF Free
<1>3. ASSUME s # <<>>, Free(s, w) PROVE Head(s).word # w /\ Free(Tail(s), w)
  BY <1>3 DEF Free
<1> QED BY <1>1, <1>2, <1>3

LEMMA OneBallOf ==
  ASSUME NEW S, NEW s \in Seq(S)
  PROVE  /\ ~OneBall(<<>>)
         /\ \A e \in S : OneBall(s) /\ e.word # "OX_SYNC_BALL" => OneBall(Append(s, e))
         /\ \A e \in S : Free(s, "OX_SYNC_BALL") /\ e.word = "OX_SYNC_BALL" => OneBall(Append(s, e))
         /\ s # <<>> /\ OneBall(s) /\ Head(s).word # "OX_SYNC_BALL" => OneBall(Tail(s))
         /\ s # <<>> /\ OneBall(s) /\ Head(s).word = "OX_SYNC_BALL" => Free(Tail(s), "OX_SYNC_BALL")
<1>1. ~OneBall(<<>>)
  BY DEF OneBall
<1>2. ASSUME NEW e \in S, OneBall(s), e.word # "OX_SYNC_BALL" PROVE OneBall(Append(s, e))
  <2>1. PICK k \in 1 .. Len(s) : \A i \in 1 .. Len(s) : s[i].word = "OX_SYNC_BALL" <=> i = k
    BY <1>2 DEF OneBall
  <2>2. k \in 1 .. Len(Append(s, e))
    OBVIOUS
  <2>3. \A i \in 1 .. Len(Append(s, e)) : Append(s, e)[i].word = "OX_SYNC_BALL" <=> i = k
    BY <1>2, <2>1
  <2> QED BY <2>2, <2>3 DEF OneBall
<1>3. ASSUME NEW e \in S, Free(s, "OX_SYNC_BALL"), e.word = "OX_SYNC_BALL" PROVE OneBall(Append(s, e))
  <2>1. Len(s) + 1 \in 1 .. Len(Append(s, e))
    OBVIOUS
  <2>2. \A i \in 1 .. Len(Append(s, e)) : Append(s, e)[i].word = "OX_SYNC_BALL" <=> i = Len(s) + 1
    BY <1>3 DEF Free
  <2> QED BY <2>1, <2>2 DEF OneBall
<1>4. ASSUME s # <<>>, OneBall(s) PROVE IF Head(s).word = "OX_SYNC_BALL" THEN Free(Tail(s), "OX_SYNC_BALL")
                                        ELSE OneBall(Tail(s))
  <2>1. PICK k \in 1 .. Len(s) : \A i \in 1 .. Len(s) : s[i].word = "OX_SYNC_BALL" <=> i = k
    BY <1>4 DEF OneBall
  <2>2. Len(Tail(s)) = Len(s) - 1 /\ Head(s) = s[1] /\ \A i \in 1 .. Len(s) - 1 : Tail(s)[i] = s[i + 1]
    BY <1>4
  <2>3. CASE Head(s).word = "OX_SYNC_BALL"
    <3>1. k = 1
      BY <2>1, <2>2, <2>3
    <3> QED BY <2>1, <2>2, <2>3, <3>1 DEF Free
  <2>4. CASE Head(s).word # "OX_SYNC_BALL"
    <3>1. k - 1 \in 1 .. Len(Tail(s))
      BY <2>1, <2>2, <2>4
    <3>2. \A i \in 1 .. Len(Tail(s)) : Tail(s)[i].word = "OX_SYNC_BALL" <=> i = k - 1
      BY <2>1, <2>2
    <3> QED BY <2>4, <3>1, <3>2 DEF OneBall
  <2> QED BY <2>3, <2>4
<1> QED BY <1>1, <1>2, <1>3, <1>4

LEMMA BallsOfMessages ==
  ASSUME NEW m
  PROVE  /\ OneBall(SyncBall) /\ Free(SyncBall, "OX_COMMAND")
         /\ Free(Data(m), "OX_SYNC_BALL") /\ Free(Data(m), "OX_COMMAND")
<1>1. Len(SyncBall) = 2 /\ SyncBall[1].word = "OX_SYNC_BALL" /\ SyncBall[2].word = "serial"
  BY DEF SyncBall, Word
<1>2. OneBall(SyncBall)
  <2>1. 1 \in 1 .. Len(SyncBall) /\ \A i \in 1 .. Len(SyncBall) : SyncBall[i].word = "OX_SYNC_BALL" <=> i = 1
    BY <1>1
  <2> QED BY <2>1 DEF OneBall
<1>3. Free(SyncBall, "OX_COMMAND")
  BY <1>1 DEF Free
<1>4. /\ Len(Data(m)) = 4 /\ Data(m)[1].word = "OX_DATA" /\ Data(m)[2].word = "serial"
      /\ Data(m)[3].word = "CMO_INT32" /\ Data(m)[4].word = "value"
  BY DEF Data, Word, Of
<1>5. Free(Data(m), "OX_SYNC_BALL") /\ Free(Data(m), "OX_COMMAND")
  BY <1>4 DEF Free
<1> QED BY <1>2, <1>3, <1>5

----------------------------------------------------------------------------
(***************************************************************************)
(* The invariant is kept.                                                  *)
(***************************************************************************)
LEMMA InitStep == Init => StepInvariant
<1> SUFFICES ASSUME Init PROVE StepInvariant
  OBVIOUS
<1>1. Base
  BY InitBase
<1>2. ServerOK
  BY DEF Init, ServerOK
<1>3. Free(<<>>, "OX_SYNC_BALL") /\ Free(<<>>, "OX_COMMAND")
  BY DEF Free
<1>4. NoReset /\ ClientOK
  BY <1>3 DEF Init, NoReset, ClientOK, Quiet, BallFree, BallRead, Resetting, Reading
<1>5. Parses("tag", <<>>, "tag") /\ "tag" \in Phases
  BY ParsesNothing DEF Phases
<1>6. PhaseAt(spc, stag) = "tag" /\ PhaseAt(cpc, ctag) = "tag"
  BY DEF Init, PhaseAt
<1>7. toServer = <<>> /\ wbuf = <<>> /\ toClient = <<>> /\ out = <<>>
  BY DEF Init
<1>8. Grammar
  BY <1>5, <1>6, <1>7 DEF Grammar
<1> QED BY <1>1, <1>2, <1>4, <1>8 DEF StepInvariant

LEMMA ServerOKInductive ==
  ASSUME Base, ServerOK, [Next]_vars
  PROVE  ServerOK'
<1> USE DEF ServerOK, options, userVars, clientVars, serverVars
<1>0. /\ server \in {"ox_math", "ox_pari", "ox_gsl"}
      /\ cpc \in Reading \cup {"user", "gone"}
      /\ discarding \in BOOLEAN /\ noted \in BOOLEAN /\ sigPending \in BOOLEAN
      /\ sigBlocked \in BOOLEAN /\ torn \in BOOLEAN
      /\ MessageDone = IF server = "ox_math" /\ ~discarding THEN "check" ELSE "tag"
  BY DEF Base, ToolkitTypeOK, Reading, MessageDone
<1>1. CASE ClientNext
  <2>1. UNCHANGED <<options, serverVars>> /\ cpc # "gone"
    BY <1>1 DEF ClientNext, ClientReads, send_ox, OX_get, ox_reset, ClientReadsTag, ClientReadsSerial,
       ClientReadsBall, ClientReadsCmo, ClientReadsValue, ClientExits, ReadsWord
  <2> QED BY <2>1
<1>2. CASE ServerReadsTag
  BY <1>0, <1>2 DEF ServerReadsTag, TakesWord, Runs
<1>3. CASE ServerReadsSerial
  <2>1. spc' \in {"cmo", "code", "exchanged", MessageDone} /\ (spc' = "exchanged" => discarding)
    BY <1>0, <1>3 DEF ServerReadsSerial
  <2> QED BY <1>0, <1>3, <2>1 DEF ServerReadsSerial, TakesWord, Runs
<1>4. CASE ServerReadsCmo
  BY <1>0, <1>4 DEF ServerReadsCmo, TakesWord, Runs
<1>5. CASE ServerReadsValue
  BY <1>0, <1>5 DEF ServerReadsValue, TakesWord, Runs
<1>6. CASE ServerReadsCode
  BY <1>0, <1>6 DEF ServerReadsCode, TakesWord, Runs
<1>7. CASE ServerWrites
  BY <1>0, <1>7 DEF ServerWrites, Runs
<1>8. CASE ServerReadsEnd
  BY <1>0, <1>8 DEF ServerReadsEnd
<1>9. CASE ExecuteEnds
  BY <1>0, <1>9 DEF ExecuteEnds, Runs
<1>10. CASE MathStep
  <2>1. CASE sm_sigunmask
    BY <1>0, <2>1 DEF sm_sigunmask, Runs
  <2>2. CASE EnterSelect
    BY <1>0, <2>2 DEF EnterSelect, Runs
  <2>3. CASE SelectReturns
    BY <1>0, <2>3 DEF SelectReturns, Runs
  <2>4. CASE exchange_ox_sync_ball
    BY <1>0, <2>4 DEF exchange_ox_sync_ball, Runs
  <2>5. CASE Exchanged
    BY <1>0, <2>5 DEF Exchanged, Runs
  <2> QED BY <1>10, <2>1, <2>2, <2>3, <2>4, <2>5 DEF MathStep
<1>11. CASE sm_sighandler
  BY <1>0, <1>11 DEF sm_sighandler
<1>12. CASE usr1_handler
  BY <1>0, <1>12 DEF usr1_handler
<1>13. CASE UNCHANGED vars
  BY <1>13 DEF vars
<1> QED BY <1>1, <1>2, <1>3, <1>4, <1>5, <1>6, <1>7, <1>8, <1>9, <1>10, <1>11, <1>12, <1>13
        DEF Next, ServerNext, ServerStep

\* What the client does to the grammar and to the balls.
LEMMA StepClient ==
  ASSUME StepInvariant, ClientNext, ~torn
  PROVE  (NoReset' \/ InReset') /\ ClientOK' /\ Grammar'
<1> DEFINE W == WordsTo(nreq)
<1> USE DEF options, userVars, clientVars, serverVars
<1>0. /\ Base /\ ServerOK /\ (NoReset \/ InReset)
      /\ ClientOK /\ Grammar
      /\ wbuf \in Seq(W) /\ toServer \in Seq(W) /\ toClient \in Seq(W) /\ out \in Seq(W)
      /\ SyncBall \in Seq(W) /\ Parses("tag", SyncBall, "tag")
      /\ nreq \in Nat /\ cpc \in Reading \cup {"user", "gone"} /\ call \in {"OX_get", "ox_reset"}
      /\ sigPending \in BOOLEAN /\ noted \in BOOLEAN /\ discarding \in BOOLEAN
  <2>1. nreq \in Nat /\ 0 \in 0 .. nreq
    BY ToolkitAssumption DEF StepInvariant, Base, ToolkitTypeOK
  <2>2. SyncBall \in Seq(W) /\ Parses("tag", SyncBall, "tag")
    BY <2>1, WholeMessages, MessagesParse
  <2> QED BY <2>1, <2>2 DEF StepInvariant, Base, Numbered, ToolkitTypeOK, Reading
<1> HIDE DEF W
<1>1. UNCHANGED <<options, serverVars>>
  BY DEF ClientNext, ClientReads, send_ox, OX_get, ox_reset, ClientReadsTag, ClientReadsSerial,
     ClientReadsBall, ClientReadsCmo, ClientReadsValue, ClientExits
<1>2. PICK m \in Phases : Parses(PhaseAt(cpc, ctag), toClient, m) /\ Parses(m, out, "tag")
  BY <1>0 DEF Grammar
<1>3. Parses(PhaseAt(spc, stag), toServer, "tag") /\ Parses("tag", wbuf, "tag")
  BY <1>0 DEF Grammar
<1>4. Parses("tag", <<>>, "tag")
  BY ParsesNothing DEF Phases
\* Where the client says something.
<1>5. CASE send_ox
  <2>1. nreq' \in Nat /\ nreq' = nreq + 1 /\ nreq' \in 0 .. nreq'
    BY <1>0, <1>5 DEF send_ox
  <2> DEFINE V == WordsTo(nreq')
  <2>2. wbuf \in Seq(V) /\ toServer \in Seq(V)
    BY <1>0, <2>1, WordsGrow DEF W
  <2>3. PICK w \in Seq(V) : WriteAndFlush(w) /\ Parses("tag", w, "tag")
    <3>1. /\ Data(nreq') \in Seq(V) /\ Command("SM_execute", nreq') \in Seq(V)
          /\ Command("SM_popCMO", nreq') \in Seq(V)
          /\ Parses("tag", Data(nreq'), "tag") /\ Parses("tag", Command("SM_execute", nreq'), "tag")
          /\ Parses("tag", Command("SM_popCMO", nreq'), "tag")
      BY <2>1, WholeMessages, MessagesParse DEF Commands
    <3> QED BY <1>5, <3>1 DEF send_ox
  <2> HIDE DEF V
  <2>4. toServer \o wbuf \in Seq(V) /\ Parses(PhaseAt(spc, stag), toServer \o wbuf, "tag")
    BY <1>3, <2>2, Joined, ParsesBoth
  <2>5. Parses(PhaseAt(spc, stag), (toServer \o wbuf) \o w, "tag")
    BY <2>3, <2>4, ParsesBoth
  <2>6. toServer' = (toServer \o wbuf) \o w /\ wbuf' = <<>>
    BY <2>3 DEF WriteAndFlush
  <2>7. UNCHANGED <<cpc, ctag, call, toClient, sigPending>>
    BY <1>5 DEF send_ox
  <2>8. Grammar'
    BY <1>0, <1>1, <1>4, <2>5, <2>6, <2>7 DEF Grammar
  <2> QED BY <1>0, <1>1, <2>7, <2>8 DEF NoReset, InReset, ClientOK, Quiet, BallFree, BallRead, Resetting, Signalled, Noted,
             BallToWrite, BallUnderWay
<1>6. CASE OX_get
  <2>1. /\ UNCHANGED <<ctag, toServer, wbuf, toClient, sigPending>>
        /\ cpc = "user" /\ cpc' = "tag" /\ call' = "OX_get"
    BY <1>6 DEF OX_get
  <2>2. PhaseAt(cpc, ctag) = "tag" /\ PhaseAt(cpc', ctag') = "tag"
    BY <2>1 DEF PhaseAt
  <2>3. Grammar'
    BY <1>0, <1>1, <2>1, <2>2 DEF Grammar
  <2>4. NoReset' /\ ClientOK'
    BY <1>0, <1>1, <2>1 DEF NoReset, InReset, ClientOK, Quiet, BallFree, BallRead, Resetting, Reading
  <2> QED BY <2>3, <2>4
<1>7. CASE ox_reset
  <2>0. /\ UNCHANGED <<ctag, toServer, wbuf, toClient>>
        /\ cpc = "user" /\ cpc' = "tag" /\ call' = "ox_reset" /\ sigPending' = (spc # "gone")
    BY <1>7 DEF ox_reset
  <2>1. /\ UNCHANGED <<ctag, toServer, wbuf, toClient>>
        /\ cpc = "user" /\ cpc' = "tag" /\ call' = "ox_reset" /\ sigPending'
    BY <1>0, <2>0 DEF ServerOK
  <2>2. PhaseAt(cpc, ctag) = "tag" /\ PhaseAt(cpc', ctag') = "tag"
    BY <2>1 DEF PhaseAt
  <2>3. Grammar'
    BY <1>0, <1>1, <2>1, <2>2 DEF Grammar
  <2>4. NoReset
    BY <1>0, <2>1 DEF InReset, Resetting, Reading
  <2>5. Signalled' /\ Resetting' /\ ~BallRead'
    BY <1>1, <2>1, <2>4 DEF NoReset, Quiet, BallFree, Signalled, Resetting, Reading, BallRead
  <2>6. ClientOK'
    BY <1>0, <1>1, <2>1 DEF ClientOK
  <2> QED BY <2>3, <2>5, <2>6 DEF InReset
<1>8. CASE ClientExits
  <2>1. /\ UNCHANGED <<ctag, call, toServer, toClient, sigPending>>
        /\ cpc = "user" /\ cpc' = "gone" /\ wbuf' = <<>>
    BY <1>8 DEF ClientExits
  <2>2. PhaseAt(cpc, ctag) = "tag" /\ PhaseAt(cpc', ctag') = "tag"
    BY <2>1 DEF PhaseAt
  <2>3. Grammar'
    BY <1>0, <1>1, <1>4, <2>1, <2>2 DEF Grammar
  <2>4. NoReset' /\ ClientOK'
    BY <1>0, <1>1, <2>1 DEF NoReset, InReset, ClientOK, Quiet, BallFree, BallRead, Resetting, Reading
  <2> QED BY <2>3, <2>4
\* Where it reads a word.
<1>9. ASSUME toClient # <<>>, toClient' = Tail(toClient)
      PROVE  /\ Head(toClient) \in W
             /\ Head(toClient).word \in Expected(PhaseAt(cpc, ctag))
             /\ Parses(After(PhaseAt(cpc, ctag), Head(toClient).word), toClient', m)
             /\ Head(toClient).word # "OX_COMMAND" /\ Free(toClient', "OX_COMMAND")
  BY <1>0, <1>2, <1>9, ParsesFirst, Members, FreeOf DEF ClientOK
\* A word that is no ball leaves the balls where they are.
<1>10. ASSUME toClient # <<>>, toClient' = Tail(toClient), Head(toClient).word # "OX_SYNC_BALL",
              UNCHANGED sigPending
       PROVE  /\ NoReset => Quiet' /\ BallFree'
              /\ InReset => Signalled' \/ Noted' \/ BallToWrite' \/ BallUnderWay'
  BY <1>0, <1>1, <1>10, FreeOf, OneBallOf DEF NoReset, InReset, Quiet, BallFree, Signalled, Noted, BallToWrite,
     BallUnderWay
<1>11. CASE ClientReadsTag
  <2>1. /\ cpc = "tag" /\ toClient # <<>> /\ toClient' = Tail(toClient)
        /\ ctag' = Head(toClient).word /\ cpc' = "serial"
        /\ UNCHANGED <<call, wbuf, toServer, sigPending>>
    BY <1>11 DEF ClientReadsTag, ReadsWord
  <2>2. PhaseAt(cpc, ctag) = "tag" /\ PhaseAt(cpc', ctag') = After("tag", Head(toClient).word)
    BY <2>1 DEF PhaseAt, After
  <2>3. Grammar'
    BY <1>1, <1>2, <1>3, <1>9, <2>1, <2>2 DEF Grammar
  <2>4. Head(toClient).word \in OxTags
    BY <1>9, <2>1, <2>2 DEF Expected, Proper
  <2>5. ClientOK'
    BY <1>0, <1>1, <1>9, <2>1, <2>4 DEF ClientOK, OxTags
  <2>6. CASE Head(toClient).word = "OX_SYNC_BALL"
    <3>1. BallUnderWay /\ Resetting
      BY <1>0, <2>1, <2>6, FreeOf DEF NoReset, InReset, Signalled, Noted, BallToWrite, BallFree
    <3>2. Quiet' /\ BallFree' /\ Resetting' /\ BallRead'
      BY <1>0, <1>1, <2>1, <2>6, <3>1, OneBallOf DEF BallUnderWay, Quiet, BallFree, Resetting, BallRead, Reading
    <3> QED BY <2>3, <2>5, <3>2 DEF NoReset
  <2>7. CASE Head(toClient).word # "OX_SYNC_BALL"
    <3>1. ~BallRead' /\ ~BallRead /\ (Resetting' <=> Resetting)
      BY <2>1, <2>7 DEF BallRead, Resetting, Reading
    <3> QED BY <1>0, <1>10, <2>1, <2>3, <2>5, <2>7, <3>1 DEF NoReset, InReset
  <2> QED BY <2>6, <2>7
<1>12. CASE ClientReadsSerial
  <2>1. /\ cpc = "serial" /\ toClient # <<>> /\ toClient' = Tail(toClient)
        /\ cpc' = "cmo" /\ (call = "ox_reset" => ctag # "OX_SYNC_BALL")
        /\ UNCHANGED <<ctag, call, wbuf, toServer, sigPending>>
    BY <1>12 DEF ClientReadsSerial, ReadsWord
  <2>2. ~BallRead /\ ~BallRead' /\ (Resetting' <=> Resetting)
    BY <1>0, <2>1 DEF NoReset, InReset, BallRead, Resetting, Reading
  <2>3. ctag = "OX_DATA"
    BY <1>0, <2>1, <2>2 DEF ClientOK, BallRead
  <2>4. /\ PhaseAt(cpc, ctag) = "serialData" /\ PhaseAt(cpc', ctag') = "cmo"
        /\ \A w : After("serialData", w) = "cmo" /\ Expected("serialData") = {"serial"}
    BY <2>1, <2>3 DEF PhaseAt, SerialOf, After, Expected
  <2>5. Grammar'
    BY <1>1, <1>2, <1>3, <1>9, <2>1, <2>4 DEF Grammar
  <2>6. Head(toClient).word = "serial"
    BY <1>9, <2>1, <2>4
  <2>7. ClientOK'
    BY <1>0, <1>1, <1>9, <2>1 DEF ClientOK
  <2> QED BY <1>0, <1>10, <2>1, <2>2, <2>5, <2>6, <2>7 DEF NoReset, InReset
<1>13. CASE ClientReadsBall
  <2>1. /\ cpc = "serial" /\ toClient # <<>> /\ toClient' = Tail(toClient)
        /\ cpc' = "user" /\ call = "ox_reset" /\ ctag = "OX_SYNC_BALL" /\ WriteOnly(SyncBall)
        /\ UNCHANGED <<ctag, call, sigPending>>
    BY <1>13 DEF ClientReadsBall, ReadsWord
  <2>2. BallRead /\ NoReset /\ ~BallRead' /\ ~Resetting'
    BY <1>0, <2>1 DEF BallRead, InReset, Resetting, Reading
  <2>3. /\ PhaseAt(cpc, ctag) = "serialBall" /\ PhaseAt(cpc', ctag') = "tag"
        /\ \A w : After("serialBall", w) = "tag" /\ Expected("serialBall") = {"serial"}
    BY <2>1 DEF PhaseAt, SerialOf, After, Expected
  <2>4. Parses(PhaseAt(spc, stag), toServer', "tag") /\ Parses("tag", wbuf', "tag")
    BY <1>0, <1>3, <2>1, ParsesBoth DEF WriteOnly
  <2>5. Grammar'
    BY <1>1, <1>2, <1>9, <2>1, <2>3, <2>4 DEF Grammar
  <2>6. Head(toClient).word = "serial"
    BY <1>9, <2>1, <2>3
  <2>7. ClientOK'
    BY <1>0, <1>1, <1>9, <2>1 DEF ClientOK
  <2> QED BY <1>10, <2>1, <2>2, <2>5, <2>6, <2>7 DEF NoReset
<1>14. CASE ClientReadsCmo
  <2>1. /\ cpc = "cmo" /\ toClient # <<>> /\ toClient' = Tail(toClient)
        /\ UNCHANGED <<ctag, call, wbuf, toServer, sigPending>>
    BY <1>14 DEF ClientReadsCmo, ReadsWord
  <2>2. /\ PhaseAt(cpc, ctag) = "cmo" /\ \A w : After("cmo", w) = "value" /\ Expected("cmo") = {"CMO_INT32"}
    BY <2>1 DEF PhaseAt, SerialOf, After, Expected, Proper
  <2>3. Head(toClient).word = "CMO_INT32"
    BY <1>9, <2>1, <2>2
  <2>4. cpc' = "value"
    BY <1>14, <2>3 DEF ClientReadsCmo
  <2>5. PhaseAt(cpc', ctag') = "value"
    BY <2>4 DEF PhaseAt
  <2>6. Grammar'
    BY <1>1, <1>2, <1>3, <1>9, <2>1, <2>2, <2>5 DEF Grammar
  <2>7. ~BallRead /\ ~BallRead' /\ (Resetting' <=> Resetting)
    BY <2>1, <2>4 DEF BallRead, Resetting, Reading
  <2>8. ClientOK'
    BY <1>0, <1>1, <1>9, <2>1, <2>4 DEF ClientOK
  <2> QED BY <1>0, <1>10, <2>1, <2>3, <2>6, <2>7, <2>8 DEF NoReset, InReset
<1>15. CASE ClientReadsValue
  <2>1. /\ cpc = "value" /\ toClient # <<>> /\ toClient' = Tail(toClient)
        /\ IF call = "OX_get" THEN cpc' = "user" ELSE cpc' = "tag"
        /\ UNCHANGED <<ctag, call, wbuf, toServer, sigPending>>
    BY <1>15 DEF ClientReadsValue, ReadsWord, Returns
  <2>2. /\ PhaseAt(cpc, ctag) = "value" /\ PhaseAt(cpc', ctag') = "tag"
        /\ \A w : After("value", w) = "tag" /\ Expected("value") = {"value"}
    BY <2>1 DEF PhaseAt, SerialOf, After, Expected, Proper
  <2>3. Head(toClient).word = "value"
    BY <1>9, <2>1, <2>2
  <2>4. Grammar'
    BY <1>1, <1>2, <1>3, <1>9, <2>1, <2>2 DEF Grammar
  <2>5. ~BallRead /\ ~BallRead' /\ (Resetting' <=> Resetting)
    BY <1>0, <2>1 DEF BallRead, Resetting, Reading
  <2>6. ClientOK'
    BY <1>0, <1>1, <1>9, <2>1 DEF ClientOK
  <2> QED BY <1>0, <1>10, <2>1, <2>3, <2>4, <2>5, <2>6 DEF NoReset, InReset
<1> QED BY <1>5, <1>6, <1>7, <1>8, <1>11, <1>12, <1>13, <1>14, <1>15 DEF ClientNext, ClientReads

\* What the server does to them.
LEMMA StepServer ==
  ASSUME StepInvariant, ServerNext, ~torn, ~torn'
  PROVE  (NoReset' \/ InReset') /\ ClientOK' /\ Grammar'
<1> DEFINE W == WordsTo(nreq)
<1> USE DEF options, userVars, clientVars, serverVars
<1>0. /\ Base /\ ServerOK /\ (NoReset \/ InReset)
      /\ ClientOK /\ Grammar
      /\ toServer \in Seq(W) /\ toClient \in Seq(W) /\ out \in Seq(W)
      /\ (out # <<>> <=> spc = "write")
      /\ nreq \in Nat /\ Parses("tag", SyncBall, "tag")
      /\ sigPending \in BOOLEAN /\ noted \in BOOLEAN /\ discarding \in BOOLEAN
      /\ server \in {"ox_math", "ox_pari", "ox_gsl"}
  <2>1. nreq \in Nat /\ 0 \in 0 .. nreq
    BY ToolkitAssumption DEF StepInvariant, Base, ToolkitTypeOK
  <2>2. Parses("tag", SyncBall, "tag")
    BY <2>1, MessagesParse
  <2> QED BY <2>1, <2>2 DEF StepInvariant, Base, Numbered, ToolkitTypeOK
<1> HIDE DEF W
<1>1. UNCHANGED <<cpc, ctag, call, wbuf, nreq>>
  BY DEF ServerNext, ServerStep, ServerReadsTag, ServerReadsSerial, ServerReadsCmo, ServerReadsValue,
     ServerReadsCode, ServerWrites, ServerReadsEnd, ExecuteEnds, MathStep, sm_sigunmask, EnterSelect,
     SelectReturns, exchange_ox_sync_ball, Exchanged, sm_sighandler, usr1_handler
<1>2. PICK m \in Phases : Parses(PhaseAt(cpc, ctag), toClient, m) /\ Parses(m, out, "tag")
  BY <1>0 DEF Grammar
<1>3. Parses(PhaseAt(spc, stag), toServer, "tag") /\ Parses("tag", wbuf, "tag")
  BY <1>0 DEF Grammar
<1>4. MessageDone \in {"check", "tag"} /\ PhaseAt(MessageDone, stag) = "tag"
  BY DEF MessageDone, PhaseAt
\* Words for the client stay as they are.
<1>5. ASSUME UNCHANGED <<toClient, out>>, Parses(PhaseAt(spc', stag'), toServer', "tag")
      PROVE  Grammar' /\ ClientOK'
  BY <1>0, <1>1, <1>3, <1>5 DEF Grammar, ClientOK
<1>6. ASSUME UNCHANGED <<toClient, out, sigPending, noted, discarding>>
      PROVE  NoReset' \/ InReset'
  BY <1>0, <1>1, <1>6 DEF NoReset, InReset, Quiet, BallFree, BallRead, Resetting, Signalled, Noted,
     BallToWrite, BallUnderWay
\* A message to write.
<1>7. ASSUME spc # "write", NEW s, out' = s, Parses("tag", s, "tag"), Free(s, "OX_COMMAND"),
             UNCHANGED toClient, Parses(PhaseAt(spc', stag'), toServer', "tag")
      PROVE  Grammar' /\ ClientOK'
  <2>1. Parses(m, <<>>, "tag")
    BY <1>0, <1>2, <1>7
  <2>2. m = "tag"
    BY <2>1, ParsesNothing
  <2>3. Grammar'
    BY <1>1, <1>2, <1>3, <1>7, <2>2 DEF Grammar
  <2>4. ClientOK'
    BY <1>0, <1>1, <1>7 DEF ClientOK
  <2> QED BY <2>3, <2>4
<1>8. ASSUME NEW pc, TakesWord(pc)
      PROVE  /\ spc = pc /\ toServer # <<>> /\ toServer' = Tail(toServer)
             /\ Head(toServer).word \in Expected(PhaseAt(spc, stag))
             /\ Parses(After(PhaseAt(spc, stag), Head(toServer).word), toServer', "tag")
  BY <1>0, <1>3, <1>8, ParsesFirst DEF TakesWord, Runs
<1>9. CASE ServerReadsTag
  <2>1. /\ TakesWord("tag") /\ stag' = Head(toServer).word /\ spc' = "serial"
        /\ UNCHANGED <<toClient, out, sigPending, noted, discarding>>
    BY <1>9 DEF ServerReadsTag
  <2>2. PhaseAt(spc, stag) = "tag" /\ PhaseAt(spc', stag') = After("tag", Head(toServer).word)
    BY <1>8, <2>1 DEF PhaseAt, After
  <2>3. Parses(PhaseAt(spc', stag'), toServer', "tag")
    BY <1>8, <2>1, <2>2
  <2> QED BY <1>5, <1>6, <2>1, <2>3
<1>10. CASE ServerReadsSerial
  <2>1. /\ TakesWord("serial") /\ stag' = stag
        /\ UNCHANGED <<toClient, out, sigPending, noted, discarding>>
        /\ spc' = CASE stag = "OX_DATA" -> "cmo"
                    [] stag = "OX_COMMAND" -> "code"
                    [] stag = "OX_SYNC_BALL" /\ discarding -> "exchanged"
                    [] OTHER -> MessageDone
    BY <1>10 DEF ServerReadsSerial
  <2>2. PhaseAt(spc, stag) = SerialOf(stag)
    BY <1>8, <2>1 DEF PhaseAt
  <2>3. PhaseAt(spc', stag') = After(SerialOf(stag), "serial")
    <3>1. CASE stag = "OX_DATA"
      BY <2>1, <3>1 DEF PhaseAt, After, SerialOf
    <3>2. CASE stag = "OX_COMMAND"
      BY <2>1, <3>2 DEF PhaseAt, After, SerialOf
    <3>3. CASE stag \notin {"OX_DATA", "OX_COMMAND"}
      <4>1. spc' = "exchanged" \/ spc' = MessageDone
        BY <2>1, <3>3
      <4>2. PhaseAt(spc', stag') = "tag"
        BY <1>4, <4>1, <2>1 DEF PhaseAt
      <4>3. After(SerialOf(stag), "serial") = "tag"
        BY <3>3 DEF After, SerialOf
      <4> QED BY <4>2, <4>3
    <3> QED BY <3>1, <3>2, <3>3
  <2>4. Head(toServer).word = "serial"
    BY <1>8, <2>1, <2>2 DEF Expected, SerialOf
  <2>5. Parses(PhaseAt(spc', stag'), toServer', "tag")
    BY <1>8, <2>1, <2>2, <2>3, <2>4
  <2> QED BY <1>5, <1>6, <2>1, <2>5
<1>11. CASE ServerReadsCmo
  <2>1. /\ TakesWord("cmo") /\ stag' = stag
        /\ UNCHANGED <<toClient, out, sigPending, noted, discarding>>
    BY <1>11 DEF ServerReadsCmo
  <2>2. /\ PhaseAt(spc, stag) = "cmo" /\ \A w : After("cmo", w) = "value" /\ Expected("cmo") = {"CMO_INT32"}
    BY <1>8, <2>1 DEF PhaseAt, After, Expected, Proper
  <2>3. Head(toServer).word = "CMO_INT32"
    BY <1>8, <2>1, <2>2
  <2>4. PhaseAt(spc', stag') = "value"
    BY <1>11, <2>3 DEF ServerReadsCmo, PhaseAt
  <2>5. Parses(PhaseAt(spc', stag'), toServer', "tag")
    BY <1>8, <2>1, <2>2, <2>4
  <2> QED BY <1>5, <1>6, <2>1, <2>5
<1>12. CASE ServerReadsValue
  <2>1. /\ TakesWord("value") /\ stag' = stag /\ spc' = MessageDone
        /\ UNCHANGED <<toClient, out, sigPending, noted, discarding>>
    BY <1>12 DEF ServerReadsValue
  <2>2. PhaseAt(spc, stag) = "value" /\ \A w : After("value", w) = "tag"
    BY <1>8, <2>1 DEF PhaseAt, After
  <2>3. Parses(PhaseAt(spc', stag'), toServer', "tag")
    BY <1>4, <1>8, <2>1, <2>2
  <2> QED BY <1>5, <1>6, <2>1, <2>3
<1>13. CASE ServerReadsCode
  <2>1. /\ TakesWord("code") /\ stag' = stag /\ spc' \in {"write", "execute", MessageDone}
        /\ UNCHANGED <<toClient, sigPending, noted, discarding>>
        /\ UNCHANGED out \/ out' = Data(Head(toServer).of)
    BY <1>13 DEF ServerReadsCode
  <2>2. PhaseAt(spc, stag) = "code" /\ (\A w : After("code", w) = "tag") /\ PhaseAt(spc', stag') = "tag"
    BY <1>4, <1>8, <2>1 DEF PhaseAt, After
  <2>3. Parses(PhaseAt(spc', stag'), toServer', "tag")
    BY <1>8, <2>1, <2>2
  <2>4. CASE UNCHANGED out
    BY <1>5, <1>6, <2>1, <2>3, <2>4
  <2>5. CASE out' = Data(Head(toServer).of)
    <3> DEFINE s == Data(Head(toServer).of)
    <3>1. Head(toServer).of \in 0 .. nreq
      <4>1. Head(toServer) \in W
        BY <1>0, <1>8, <2>1, Members
      <4> QED BY <4>1 DEF W, WordsTo
    <3>2. /\ Parses("tag", s, "tag") /\ Free(s, "OX_COMMAND") /\ Free(s, "OX_SYNC_BALL")
      BY <1>0, <3>1, MessagesParse, BallsOfMessages
    <3>3. spc # "write" /\ out = <<>>
      BY <1>0, <1>8, <2>1
    <3> HIDE DEF s
    <3>4. out' = s
      BY <2>5 DEF s
    <3>5. Grammar' /\ ClientOK'
      BY <1>7, <2>1, <2>3, <3>2, <3>3, <3>4
    <3>6. ~OneBall(<<>>)
      BY DEF OneBall
    <3>7. NoReset' \/ InReset'
      BY <1>0, <1>1, <2>1, <3>2, <3>3, <3>4, <3>6 DEF NoReset, InReset, Quiet, BallFree, BallRead, Resetting,
         Signalled, Noted, BallToWrite, BallUnderWay
    <3> QED BY <3>5, <3>7
  <2> QED BY <2>1, <2>4, <2>5
<1>14. CASE ServerWrites
  <2>1. /\ spc = "write" /\ toClient' = Append(toClient, Head(out)) /\ out' = Tail(out)
        /\ spc' \in {"write", MessageDone} /\ UNCHANGED <<toServer, stag, sigPending, noted, discarding>>
    BY <1>14 DEF ServerWrites, Runs
  <2>2. out # <<>> /\ Head(out) \in W
    BY <1>0, <2>1, Members
  <2>3. /\ Head(out).word \in Expected(m) /\ Parses(After(m, Head(out).word), out', "tag")
    BY <1>0, <1>2, <2>1, <2>2, ParsesFirst
  <2>4. Parses(PhaseAt(cpc, ctag), toClient', After(m, Head(out).word))
    BY <1>0, <1>2, <2>1, <2>2, <2>3, ParsesOneMore
  <2>5. After(m, Head(out).word) \in Phases
    BY PhasesClosed
  <2>6. PhaseAt(spc, stag) = "tag" /\ PhaseAt(spc', stag') = "tag"
    BY <1>4, <2>1 DEF PhaseAt
  <2>7. Grammar'
    BY <1>1, <1>3, <2>1, <2>3, <2>4, <2>5, <2>6 DEF Grammar
  <2>8. ClientOK'
    BY <1>0, <1>1, <2>1, <2>2, FreeOf DEF ClientOK
  <2>9. CASE Head(out).word = "OX_SYNC_BALL"
    <3>1. BallToWrite /\ InReset
      BY <1>0, <2>2, <2>9, FreeOf DEF NoReset, InReset, Signalled, Noted, BallUnderWay, BallFree
    <3>2. BallUnderWay'
      BY <1>0, <2>1, <2>2, <2>9, <3>1, OneBallOf DEF BallToWrite, BallUnderWay, Quiet
    <3> QED BY <1>1, <2>7, <2>8, <3>1, <3>2 DEF InReset, Resetting, BallRead
  <2>10. CASE Head(out).word # "OX_SYNC_BALL"
    <3>1. /\ (Free(toClient, "OX_SYNC_BALL") => Free(toClient', "OX_SYNC_BALL"))
          /\ (Free(out, "OX_SYNC_BALL") => Free(out', "OX_SYNC_BALL"))
      BY <1>0, <2>1, <2>2, <2>10, FreeOf
    <3>2. (OneBall(toClient) => OneBall(toClient')) /\ (OneBall(out) => OneBall(out'))
      BY <1>0, <2>1, <2>2, <2>10, OneBallOf
    <3>3. NoReset' \/ InReset'
      BY <1>0, <1>1, <2>1, <3>1, <3>2 DEF NoReset, InReset, Quiet, BallFree, BallRead, Resetting, Signalled,
         Noted, BallToWrite, BallUnderWay
    <3> QED BY <2>7, <2>8, <3>3
  <2> QED BY <2>9, <2>10
<1>15. CASE ServerReadsEnd
  <2>1. /\ spc' = "gone" /\ toServer = <<>>
        /\ UNCHANGED <<toServer, toClient, out, stag, sigPending, noted, discarding>>
    BY <1>15 DEF ServerReadsEnd
  <2>2. PhaseAt(spc', stag') = "tag" /\ Parses("tag", <<>>, "tag")
    BY <2>1, ParsesNothing DEF PhaseAt, Phases
  <2> QED BY <1>5, <1>6, <2>1, <2>2
<1>16. CASE ExecuteEnds
  <2>1. /\ spc = "execute" /\ spc' = MessageDone
        /\ UNCHANGED <<toServer, toClient, out, stag, sigPending, noted, discarding>>
    BY <1>16 DEF ExecuteEnds, Runs
  <2>2. PhaseAt(spc, stag) = "tag" /\ PhaseAt(spc', stag') = "tag"
    BY <1>4, <2>1 DEF PhaseAt
  <2> QED BY <1>3, <1>5, <1>6, <2>1, <2>2
<1>17. CASE sm_sigunmask \/ EnterSelect \/ SelectReturns
  <2>1. /\ spc \in {"unmask", "enter", "select"} /\ spc' \in {"enter", "select", "tag"}
        /\ UNCHANGED <<toServer, toClient, out, stag, sigPending, noted, discarding>>
    BY <1>17 DEF sm_sigunmask, EnterSelect, SelectReturns, Runs
  <2>2. PhaseAt(spc, stag) = "tag" /\ PhaseAt(spc', stag') = "tag"
    BY <2>1 DEF PhaseAt
  <2> QED BY <1>3, <1>5, <1>6, <2>1, <2>2
<1>18. CASE exchange_ox_sync_ball
  <2>1. spc = "check" /\ UNCHANGED <<toServer, toClient, stag, sigPending, noted>>
    BY <1>18 DEF exchange_ox_sync_ball, Runs
  <2>2. CASE noted
    <3>1. spc' = "write" /\ out' = SyncBall /\ discarding' = TRUE
      BY <1>18, <2>2 DEF exchange_ox_sync_ball
    <3>2. PhaseAt(spc, stag) = "tag" /\ PhaseAt(spc', stag') = "tag"
      BY <2>1, <3>1 DEF PhaseAt
    <3>3. OneBall(SyncBall) /\ Free(SyncBall, "OX_COMMAND")
      BY BallsOfMessages
    <3>4. Grammar' /\ ClientOK'
      BY <1>0, <1>3, <1>7, <2>1, <3>1, <3>2, <3>3
    <3>5. ~discarding /\ out = <<>>
      BY <1>0, <2>1 DEF ServerOK
    <3>6. ~OneBall(<<>>)
      BY DEF OneBall
    <3>7. sigPending \/ Noted
      BY <1>0, <2>2, <3>5, <3>6 DEF NoReset, InReset, Quiet, BallToWrite, BallUnderWay, Signalled
    <3>8. InReset /\ Noted
      BY <1>0, <2>2, <3>5, <3>7 DEF NoReset, InReset, Quiet, BallToWrite, BallUnderWay, Signalled, Noted
    <3>9. BallToWrite'
      BY <2>1, <2>2, <3>1, <3>3, <3>8 DEF Noted, BallToWrite, Quiet, BallFree
    <3> QED BY <1>1, <3>4, <3>8, <3>9 DEF InReset, Resetting, BallRead
  <2>3. CASE ~noted
    <3>1. spc' = "unmask" /\ UNCHANGED <<out, discarding>>
      BY <1>18, <2>3 DEF exchange_ox_sync_ball
    <3>2. PhaseAt(spc, stag) = "tag" /\ PhaseAt(spc', stag') = "tag"
      BY <2>1, <3>1 DEF PhaseAt
    <3> QED BY <1>3, <1>5, <1>6, <2>1, <3>1, <3>2
  <2> QED BY <2>2, <2>3
<1>19. CASE Exchanged
  <2>1. /\ spc = "exchanged" /\ spc' = "unmask" /\ ~discarding' /\ ~noted'
        /\ UNCHANGED <<toServer, toClient, out, stag, sigPending>>
    BY <1>19 DEF Exchanged, Runs
  <2>2. PhaseAt(spc, stag) = "tag" /\ PhaseAt(spc', stag') = "tag"
    BY <2>1 DEF PhaseAt
  <2>3. discarding
    BY <1>0, <2>1 DEF ServerOK
  <2>4. NoReset' \/ InReset'
    BY <1>0, <1>1, <2>1, <2>3 DEF NoReset, InReset, Quiet, BallFree, BallRead, Resetting, Signalled, Noted,
       BallToWrite, BallUnderWay
  <2> QED BY <1>3, <1>5, <2>1, <2>2, <2>4
<1>20. CASE sm_sighandler
  <2>1. /\ server = "ox_math" /\ sigPending /\ ~sigBlocked /\ ~sigPending' /\ noted'
        /\ UNCHANGED <<toServer, toClient, out, stag, discarding>>
        /\ spc' = spc \/ (spc = "select" /\ spc' = "check")
    BY <1>20 DEF sm_sighandler
  <2>2. PhaseAt(spc', stag') = PhaseAt(spc, stag)
    BY <2>1 DEF PhaseAt
  <2>3. ~discarding
    BY <1>0, <2>1 DEF ServerOK
  <2>4. InReset'
    BY <1>0, <1>1, <2>1, <2>3 DEF NoReset, InReset, Quiet, BallFree, BallRead, Resetting, Signalled, Noted,
       BallToWrite, BallUnderWay
  <2> QED BY <1>3, <1>5, <2>1, <2>2, <2>4
<1>21. CASE usr1_handler
  <2>1. /\ server # "ox_math" /\ sigPending /\ ~sigPending' /\ spc' = "write" /\ out' = SyncBall
        /\ ~MidMessage /\ UNCHANGED <<toServer, toClient, stag, discarding, noted>>
    BY <1>0, <1>21 DEF usr1_handler, MidMessage
  <2>2. PhaseAt(spc, stag) = "tag" /\ PhaseAt(spc', stag') = "tag" /\ spc # "write"
    BY <2>1 DEF PhaseAt, MidMessage
  <2>3. OneBall(SyncBall) /\ Free(SyncBall, "OX_COMMAND")
    BY BallsOfMessages
  <2>4. Grammar' /\ ClientOK'
    BY <1>0, <1>3, <1>7, <2>1, <2>2, <2>3
  <2>5. InReset /\ Signalled /\ ~noted
    BY <1>0, <2>1 DEF ServerOK, NoReset, InReset, Quiet, Noted, BallToWrite, BallUnderWay
  <2>6. BallToWrite'
    BY <2>1, <2>3, <2>5 DEF Signalled, BallToWrite, Quiet, BallFree
  <2> QED BY <1>1, <2>4, <2>5, <2>6 DEF InReset, Resetting, BallRead
<1> QED BY <1>9, <1>10, <1>11, <1>12, <1>13, <1>14, <1>15, <1>16, <1>17, <1>18, <1>19, <1>20, <1>21
        DEF ServerNext, ServerStep, MathStep

LEMMA StepInductive == StepInvariant /\ [Next]_vars => StepInvariant'
<1> SUFFICES ASSUME StepInvariant, [Next]_vars PROVE StepInvariant'
  OBVIOUS
<1>1. Base' /\ ServerOK'
  BY BaseInductive, ServerOKInductive DEF StepInvariant
<1>2. ASSUME ~torn' PROVE ~torn
  <2>1. CASE ClientNext
    BY <1>2, <2>1 DEF ClientNext, ClientReads, send_ox, OX_get, ox_reset, ClientReadsTag, ClientReadsSerial,
       ClientReadsBall, ClientReadsCmo, ClientReadsValue, ClientExits, serverVars
  <2>2. CASE ServerNext
    BY <1>2, <2>2 DEF ServerNext, ServerStep, ServerReadsTag, ServerReadsSerial, ServerReadsCmo, ServerReadsValue,
       ServerReadsCode, ServerWrites, ServerReadsEnd, ExecuteEnds, MathStep, sm_sigunmask, EnterSelect,
       SelectReturns, exchange_ox_sync_ball, Exchanged, sm_sighandler, usr1_handler
  <2>3. CASE UNCHANGED vars
    BY <1>2, <2>3 DEF vars, serverVars
  <2> QED BY <2>1, <2>2, <2>3 DEF Next
<1>3. ASSUME ~torn', UNCHANGED vars PROVE (NoReset' \/ InReset') /\ ClientOK' /\ Grammar'
  BY <1>2, <1>3 DEF StepInvariant, NoReset, InReset, ClientOK, Grammar, Quiet, BallFree, BallRead, Resetting,
     Signalled, Noted, BallToWrite, BallUnderWay, vars, options, userVars, clientVars, serverVars
<1>4. ~torn' => (NoReset' \/ InReset') /\ ClientOK' /\ Grammar'
  BY <1>2, <1>3, StepClient, StepServer DEF Next
<1> QED BY <1>1, <1>4 DEF StepInvariant

\* Unless a jump has cut a message client and server of the toolkit stay in step: each takes
\* the next word for what it is, through any number of requests and resets.
THEOREM StaysInStep == Spec => []InStep
<1>1. StepInvariant => InStep
  <2> SUFFICES ASSUME StepInvariant, ~torn PROVE
        /\ cpc \in Reading /\ toClient # <<>> => Head(toClient).word \in Proper(cpc)
        /\ spc \in Codes /\ toServer # <<>> => Head(toServer).word \in Proper(spc)
    BY DEF InStep, Reading, Codes
  <2>0. toClient \in Seq(WordsTo(nreq)) /\ toServer \in Seq(WordsTo(nreq)) /\ Grammar
    BY DEF StepInvariant, Base, Numbered
  <2>1. ASSUME NEW pc \in Codes, NEW tag PROVE Expected(PhaseAt(pc, tag)) \subseteq Proper(pc)
    <3>1. CASE pc = "serial"
      <4>1. PhaseAt(pc, tag) \in {"serialData", "serialCommand", "serialBall"}
        BY <3>1 DEF PhaseAt, SerialOf
      <4> QED BY <3>1, <4>1 DEF Expected, Proper
    <3>2. CASE pc # "serial"
      <4>1. PhaseAt(pc, tag) = pc
        BY <3>2 DEF PhaseAt, Codes
      <4> QED BY <3>2, <4>1 DEF Expected, Codes
    <3> QED BY <3>1, <3>2
  <2>2. ASSUME toClient # <<>>, cpc \in Reading PROVE Head(toClient).word \in Proper(cpc)
    <3>1. PICK m \in Phases : Parses(PhaseAt(cpc, ctag), toClient, m)
      BY <2>0 DEF Grammar
    <3>2. Head(toClient).word \in Expected(PhaseAt(cpc, ctag))
      BY <2>0, <2>2, <3>1, ParsesFirst
    <3> QED BY <2>1, <2>2, <3>2 DEF Reading, Codes
  <2>3. ASSUME toServer # <<>>, spc \in Codes PROVE Head(toServer).word \in Proper(spc)
    <3>1. Head(toServer).word \in Expected(PhaseAt(spc, stag))
      BY <2>0, <2>3, ParsesFirst DEF Grammar
    <3> QED BY <2>1, <2>3, <3>1
  <2> QED BY <2>2, <2>3
<1> QED BY <1>1, InitStep, StepInductive, PTL DEF Spec

----------------------------------------------------------------------------
(***************************************************************************)
(* The numbers of requests.  Answers under way, what is being written and  *)
(* requests under way are one ascending line behind the last answer.       *)
(***************************************************************************)
Above(s, n) == \A i \in 1 .. Len(s) : s[i].of = 0 \/ s[i].of > n
UpTo(s, n) == \A i \in 1 .. Len(s) : s[i].of <= n
Ascends(s) == \A i, j \in 1 .. Len(s) : i < j /\ s[j].of # 0 => s[i].of < s[j].of
Before(s, t) == \A i \in 1 .. Len(s), j \in 1 .. Len(t) : t[j].of # 0 => s[i].of < t[j].of
Bears(s, w) == \A i \in 1 .. Len(s) : s[i].word = w => s[i].of # 0
Has(s, w, n) == \E i \in 1 .. Len(s) : s[i].word = w /\ s[i].of = n

Line ==
  /\ Ascends(toClient) /\ Ascends(out) /\ Ascends(toServer)
  /\ Before(toClient, out) /\ Before(toClient, toServer) /\ Before(out, toServer)
  /\ Above(toClient, last) /\ Above(out, last) /\ Above(toServer, last)
  /\ UpTo(wbuf, 0) /\ Bears(wbuf, "SM_popCMO")
  /\ Bears(toClient, "value") /\ Bears(out, "value") /\ Bears(toServer, "SM_popCMO")

LEMMA NumbersOfNothing ==
  ASSUME NEW t, NEW n, NEW w
  PROVE  /\ Ascends(<<>>) /\ Above(<<>>, n) /\ UpTo(<<>>, n) /\ Bears(<<>>, w) /\ ~Has(<<>>, w, n)
         /\ Before(<<>>, t) /\ Before(t, <<>>)
  BY DEF Ascends, Above, UpTo, Bears, Has, Before

LEMMA NumbersOfTail ==
  ASSUME NEW m \in Nat, NEW s \in Seq(WordsTo(m)), s # <<>>
  PROVE  /\ Tail(s) \in Seq(WordsTo(m)) /\ Head(s) \in WordsTo(m) /\ Head(s).of \in 0 .. m
         /\ Ascends(s) => Ascends(Tail(s)) /\ Above(Tail(s), Head(s).of)
         /\ \A n : Above(s, n) => Above(Tail(s), n) /\ (Head(s).of = 0 \/ Head(s).of > n)
         /\ \A n : UpTo(s, n) => UpTo(Tail(s), n) /\ Head(s).of <= n
         /\ \A w : Bears(s, w) => Bears(Tail(s), w) /\ (Head(s).word = w => Head(s).of # 0)
         /\ \A w, n : Has(s, w, n) <=> (Head(s).word = w /\ Head(s).of = n) \/ Has(Tail(s), w, n)
         /\ \A t : Before(s, t) => Before(Tail(s), t) /\ Above(t, Head(s).of)
         /\ \A t : Before(t, s) => Before(t, Tail(s)) /\ (Head(s).of # 0 => \A i \in 1 .. Len(t) : t[i].of < Head(s).of)
<1> DEFINE t == Tail(s)
           k == Len(s)
<1>1. /\ k \in Nat /\ k > 0 /\ Len(t) = k - 1 /\ Head(s) = s[1] /\ t \in Seq(WordsTo(m))
      /\ \A i \in 1 .. k - 1 : t[i] = s[i + 1] /\ i + 1 \in 1 .. k
      /\ \A i \in 2 .. k : s[i] = t[i - 1] /\ i - 1 \in 1 .. k - 1
      /\ \A i \in 1 .. k : s[i] \in WordsTo(m)
  OBVIOUS
<1>2. \A i \in 1 .. k : s[i].of \in 0 .. m
  BY <1>1 DEF WordsTo
<1> HIDE DEF t
<1>3. Ascends(s) => Ascends(t) /\ Above(t, Head(s).of)
  BY <1>1, <1>2 DEF Ascends, Above
<1>4. ASSUME NEW n, Above(s, n) PROVE Above(t, n) /\ (Head(s).of = 0 \/ Head(s).of > n)
  BY <1>1, <1>4 DEF Above
<1>5. ASSUME NEW n, UpTo(s, n) PROVE UpTo(t, n) /\ Head(s).of <= n
  BY <1>1, <1>5 DEF UpTo
<1>6. ASSUME NEW w, Bears(s, w) PROVE Bears(t, w) /\ (Head(s).word = w => Head(s).of # 0)
  BY <1>1, <1>6 DEF Bears
<1>7. ASSUME NEW w, NEW n PROVE Has(s, w, n) <=> (Head(s).word = w /\ Head(s).of = n) \/ Has(t, w, n)
  <2>1. ASSUME Has(s, w, n) PROVE (Head(s).word = w /\ Head(s).of = n) \/ Has(t, w, n)
    <3>1. PICK i \in 1 .. k : s[i].word = w /\ s[i].of = n
      BY <2>1 DEF Has
    <3>2. CASE i = 1
      BY <1>1, <3>1, <3>2
    <3>3. CASE i # 1
      <4>1. i \in 2 .. k
        BY <3>3
      <4> QED BY <1>1, <3>1, <4>1 DEF Has
    <3> QED BY <3>2, <3>3
  <2>2. ASSUME Has(t, w, n) PROVE Has(s, w, n)
    BY <1>1, <2>2 DEF Has
  <2>3. ASSUME Head(s).word = w, Head(s).of = n PROVE Has(s, w, n)
    BY <1>1, <2>3 DEF Has
  <2> QED BY <2>1, <2>2, <2>3
<1>8. ASSUME NEW u, Before(s, u) PROVE Before(t, u) /\ Above(u, Head(s).of)
  BY <1>1, <1>2, <1>8 DEF Before, Above
<1>9. ASSUME NEW u, Before(u, s)
      PROVE  Before(u, t) /\ (Head(s).of # 0 => \A i \in 1 .. Len(u) : u[i].of < Head(s).of)
  <2>1. \A i \in 1 .. Len(u), j \in 1 .. k : s[j].of # 0 => u[i].of < s[j].of
    BY <1>9 DEF Before
  <2>2. Before(u, t)
    <3>1. 1 .. Len(t) = 1 .. k - 1
      BY <1>1
    <3>2. ASSUME NEW i \in 1 .. Len(u), NEW j \in 1 .. k - 1, t[j].of # 0 PROVE u[i].of < t[j].of
      <4>1. t[j] = s[j + 1] /\ j + 1 \in 1 .. k
        BY <1>1
      <4> QED BY <2>1, <3>2, <4>1
    <3> QED BY <3>1, <3>2 DEF Before
  <2>3. Head(s).of # 0 => \A i \in 1 .. Len(u) : u[i].of < Head(s).of
    <3>1. 1 \in 1 .. k /\ Head(s) = s[1]
      BY <1>1
    <3> QED BY <2>1, <3>1
  <2> QED BY <2>2, <2>3
<1>10. Head(s) \in WordsTo(m) /\ Head(s).of \in 0 .. m
  BY <1>1, <1>2
<1> QED BY <1>1, <1>3, <1>4, <1>5, <1>6, <1>7, <1>8, <1>9, <1>10 DEF t

LEMMA NumbersOfAppend ==
  ASSUME NEW m \in Nat, NEW s \in Seq(WordsTo(m)), NEW e \in WordsTo(m)
  PROVE  /\ Ascends(s) /\ (e.of # 0 => \A i \in 1 .. Len(s) : s[i].of < e.of) => Ascends(Append(s, e))
         /\ \A n : Above(s, n) /\ (e.of = 0 \/ e.of > n) => Above(Append(s, e), n)
         /\ \A n : UpTo(s, n) /\ e.of <= n => UpTo(Append(s, e), n)
         /\ \A w : Bears(s, w) /\ (e.word = w => e.of # 0) => Bears(Append(s, e), w)
         /\ \A w, n : Has(Append(s, e), w, n) <=> Has(s, w, n) \/ (e.word = w /\ e.of = n)
         /\ \A t : Before(s, t) /\ (\A j \in 1 .. Len(t) : t[j].of # 0 => e.of < t[j].of) => Before(Append(s, e), t)
<1> DEFINE a == Append(s, e)
           k == Len(s)
<1>1. k \in Nat /\ Len(a) = k + 1 /\ a[k + 1] = e /\ \A i \in 1 .. k : a[i] = s[i]
  OBVIOUS
<1>2. \A i \in 1 .. k + 1 : i \in 1 .. k \/ i = k + 1
  BY <1>1
<1> HIDE DEF a, k
<1> USE DEF k
<1>3. ASSUME Ascends(s), e.of # 0 => \A i \in 1 .. k : s[i].of < e.of PROVE Ascends(a)
  <2> SUFFICES ASSUME NEW i \in 1 .. k + 1, NEW j \in 1 .. k + 1, i < j, a[j].of # 0 PROVE a[i].of < a[j].of
    BY <1>1 DEF Ascends
  <2>1. i \in 1 .. k /\ a[i] = s[i]
    BY <1>1
  <2>2. CASE j \in 1 .. k
    BY <1>1, <1>3, <2>1, <2>2 DEF Ascends
  <2>3. CASE j = k + 1
    BY <1>1, <1>3, <2>1, <2>3
  <2> QED BY <1>2, <2>2, <2>3
<1>4. ASSUME NEW n, Above(s, n), e.of = 0 \/ e.of > n PROVE Above(a, n)
  BY <1>1, <1>2, <1>4 DEF Above
<1>5. ASSUME NEW n, UpTo(s, n), e.of <= n PROVE UpTo(a, n)
  BY <1>1, <1>2, <1>5 DEF UpTo
<1>6. ASSUME NEW w, Bears(s, w), e.word = w => e.of # 0 PROVE Bears(a, w)
  BY <1>1, <1>2, <1>6 DEF Bears
<1>7. ASSUME NEW w, NEW n PROVE Has(a, w, n) <=> Has(s, w, n) \/ (e.word = w /\ e.of = n)
  <2>1. ASSUME Has(a, w, n) PROVE Has(s, w, n) \/ (e.word = w /\ e.of = n)
    BY <1>1, <1>2, <2>1 DEF Has
  <2>2. ASSUME Has(s, w, n) PROVE Has(a, w, n)
    BY <1>1, <2>2 DEF Has
  <2>3. ASSUME e.word = w, e.of = n PROVE Has(a, w, n)
    <3>1. k + 1 \in 1 .. Len(a)
      BY <1>1
    <3> QED BY <1>1, <2>3, <3>1 DEF Has
  <2> QED BY <2>1, <2>2, <2>3
<1>8. ASSUME NEW t, Before(s, t), \A j \in 1 .. Len(t) : t[j].of # 0 => e.of < t[j].of PROVE Before(a, t)
  BY <1>1, <1>2, <1>8 DEF Before
<1> QED BY <1>3, <1>4, <1>5, <1>6, <1>7, <1>8 DEF a

LEMMA NumbersOfBoth ==
  ASSUME NEW m \in Nat, NEW s \in Seq(WordsTo(m)), NEW t \in Seq(WordsTo(m))
  PROVE  /\ Ascends(s) /\ Ascends(t) /\ Before(s, t) => Ascends(s \o t)
         /\ \A n : Above(s, n) /\ Above(t, n) => Above(s \o t, n)
         /\ \A n : UpTo(s, n) /\ UpTo(t, n) => UpTo(s \o t, n)
         /\ \A w : Bears(s, w) /\ Bears(t, w) => Bears(s \o t, w)
         /\ \A w : Free(s, w) /\ Free(t, w) => Free(s \o t, w)
         /\ \A w, n : Has(s \o t, w, n) <=> Has(s, w, n) \/ Has(t, w, n)
         /\ \A u : Before(u, s) /\ Before(u, t) => Before(u, s \o t)
<1> DEFINE b == s \o t
           k == Len(s)
           l == Len(t)
<1>1. /\ k \in Nat /\ l \in Nat /\ Len(b) = k + l
      /\ \A i \in 1 .. k : b[i] = s[i] /\ i \in 1 .. k + l
      /\ \A i \in 1 .. l : b[k + i] = t[i] /\ k + i \in 1 .. k + l
      /\ \A i \in 1 .. k + l : i \in 1 .. k \/ (i - k \in 1 .. l /\ b[i] = t[i - k])
  OBVIOUS
<1> HIDE DEF b
<1>2. Ascends(s) /\ Ascends(t) /\ Before(s, t) => Ascends(b)
  <2> SUFFICES ASSUME Ascends(s), Ascends(t), Before(s, t), NEW i \in 1 .. k + l, NEW j \in 1 .. k + l,
                      i < j, b[j].of # 0
               PROVE  b[i].of < b[j].of
    BY <1>1 DEF Ascends
  <2>1. CASE j \in 1 .. k
    BY <1>1, <2>1 DEF Ascends
  <2>2. CASE j \notin 1 .. k /\ i \in 1 .. k
    BY <1>1, <2>2 DEF Before
  <2>3. CASE j \notin 1 .. k /\ i \notin 1 .. k
    <3>1. i - k \in 1 .. l /\ j - k \in 1 .. l /\ i - k < j - k /\ b[i] = t[i - k] /\ b[j] = t[j - k]
      BY <1>1, <2>3
    <3> QED BY <3>1 DEF Ascends
  <2> QED BY <2>1, <2>2, <2>3
<1>9. \A i \in 1 .. Len(b) : (\E j \in 1 .. k : b[i] = s[j]) \/ \E j \in 1 .. l : b[i] = t[j]
  BY <1>1
<1>3. ASSUME NEW n, Above(s, n), Above(t, n) PROVE Above(b, n)
  BY <1>9, <1>3 DEF Above
<1>4. ASSUME NEW n, UpTo(s, n), UpTo(t, n) PROVE UpTo(b, n)
  BY <1>9, <1>4 DEF UpTo
<1>5. ASSUME NEW w, Bears(s, w), Bears(t, w) PROVE Bears(b, w)
  BY <1>9, <1>5 DEF Bears
<1>6. ASSUME NEW w, Free(s, w), Free(t, w) PROVE Free(b, w)
  BY <1>9, <1>6 DEF Free
<1>7. ASSUME NEW w, NEW n PROVE Has(b, w, n) <=> Has(s, w, n) \/ Has(t, w, n)
  <2>1. ASSUME Has(b, w, n) PROVE Has(s, w, n) \/ Has(t, w, n)
    BY <1>1, <2>1 DEF Has
  <2>2. ASSUME Has(s, w, n) PROVE Has(b, w, n)
    BY <1>1, <2>2 DEF Has
  <2>3. ASSUME Has(t, w, n) PROVE Has(b, w, n)
    BY <1>1, <2>3 DEF Has
  <2> QED BY <2>1, <2>2, <2>3
<1>8. ASSUME NEW u, Before(u, s), Before(u, t) PROVE Before(u, b)
  BY <1>1, <1>8 DEF Before
<1> QED BY <1>2, <1>3, <1>4, <1>5, <1>6, <1>7, <1>8 DEF b

\* A ball has no number.
LEMMA NumbersOfBall ==
  /\ Ascends(SyncBall) /\ \A n \in Nat : Above(SyncBall, n) /\ UpTo(SyncBall, n)
  /\ \A w \in {"value", "SM_popCMO"} : Bears(SyncBall, w) /\ \A n : ~Has(SyncBall, w, n)
  /\ \A t : Before(t, SyncBall)
  /\ \A m \in Nat : \A t \in Seq(WordsTo(m)) : Before(SyncBall, t)
<1>1. /\ Len(SyncBall) = 2 /\ SyncBall[1].word = "OX_SYNC_BALL" /\ SyncBall[2].word = "serial"
      /\ SyncBall[1].of = 0 /\ SyncBall[2].of = 0
  BY DEF SyncBall, Word
<1>2. \A i \in 1 .. Len(SyncBall) : SyncBall[i].of = 0 /\ SyncBall[i].word \notin {"value", "SM_popCMO"}
  BY <1>1
<1>3. ASSUME NEW m \in Nat, NEW t \in Seq(WordsTo(m)) PROVE Before(SyncBall, t)
  <2> SUFFICES ASSUME NEW i \in 1 .. Len(SyncBall), NEW j \in 1 .. Len(t), t[j].of # 0
               PROVE  SyncBall[i].of < t[j].of
    BY DEF Before
  <2>1. t[j] \in WordsTo(m)
    OBVIOUS
  <2>2. t[j].of \in 0 .. m
    BY <2>1 DEF WordsTo
  <2> QED BY <1>2, <2>2
<1>4. Ascends(SyncBall)
  BY <1>2 DEF Ascends
<1>5. \A n \in Nat : Above(SyncBall, n) /\ UpTo(SyncBall, n)
  BY <1>2 DEF Above, UpTo
<1>6. \A w \in {"value", "SM_popCMO"} : Bears(SyncBall, w) /\ \A n : ~Has(SyncBall, w, n)
  BY <1>2 DEF Bears, Has
<1>7. \A t : Before(t, SyncBall)
  BY <1>2 DEF Before
<1> QED BY <1>3, <1>4, <1>5, <1>6, <1>7

\* The number of a message is that of its last word.
LEMMA NumbersOfMessages ==
  ASSUME NEW n \in Nat, n > 0, NEW w, w = Data(n) \/ \E code \in Commands : w = Command(code, n)
  PROVE  /\ Ascends(w) /\ (\A k \in Nat : k < n => Above(w, k)) /\ UpTo(w, n)
         /\ Bears(w, "value") /\ Bears(w, "SM_popCMO") /\ Free(w, "OX_SYNC_BALL")
         /\ \A t : (\A i \in 1 .. Len(t) : t[i].of < n) => Before(t, w)
         /\ \A k : Has(w, "SM_popCMO", k) <=> k = n /\ w = Command("SM_popCMO", n)
         /\ w = Data(n) => \A k : Has(w, "value", k) <=> k = n
<1>1. /\ Len(Data(n)) = 4 /\ Data(n)[1].word = "OX_DATA" /\ Data(n)[2].word = "serial"
      /\ Data(n)[3].word = "CMO_INT32" /\ Data(n)[4].word = "value"
      /\ Data(n)[1].of = 0 /\ Data(n)[2].of = 0 /\ Data(n)[3].of = 0 /\ Data(n)[4].of = n
  BY DEF Data, Word, Of
<1>2. \A code : /\ Len(Command(code, n)) = 3 /\ Command(code, n)[1].word = "OX_COMMAND"
                /\ Command(code, n)[2].word = "serial" /\ Command(code, n)[3].word = code
                /\ Command(code, n)[1].of = 0 /\ Command(code, n)[2].of = 0 /\ Command(code, n)[3].of = n
  BY DEF Command, Word, Of
<1>3. CASE w = Data(n)
  <2> DEFINE d == Data(n)
  <2>1. \A i \in 1 .. Len(d) : /\ i \in {1, 2, 3, 4} /\ d[i].of \in {0, n} /\ (d[i].of # 0 <=> i = 4)
                               /\ d[i].word \notin {"SM_popCMO", "OX_SYNC_BALL"} /\ (d[i].word = "value" <=> i = 4)
    BY <1>1
  <2>2. \A code \in Commands : w # Command(code, n)
    BY <1>1, <1>2, <1>3
  <2>3. 4 \in 1 .. Len(w) /\ w[4].word = "value" /\ w[4].of = n
    <3>1. 4 \in 1 .. Len(d) /\ d[4].word = "value" /\ d[4].of = n
      BY <1>1
    <3> QED BY <1>3, <3>1
  <2> HIDE DEF d
  <2>4. \A i \in 1 .. Len(w) : /\ i \in {1, 2, 3, 4} /\ w[i].of \in {0, n} /\ (w[i].of # 0 <=> i = 4)
                               /\ w[i].word \notin {"SM_popCMO", "OX_SYNC_BALL"} /\ (w[i].word = "value" <=> i = 4)
    BY <1>3, <2>1 DEF d
  <2>5. Ascends(w)
    BY <2>4 DEF Ascends
  <2>6. (\A k \in Nat : k < n => Above(w, k)) /\ UpTo(w, n)
    BY <2>4 DEF Above, UpTo
  <2>7. Bears(w, "value") /\ Bears(w, "SM_popCMO") /\ Free(w, "OX_SYNC_BALL")
    BY <2>4 DEF Bears, Free
  <2>8. ASSUME NEW t, \A i \in 1 .. Len(t) : t[i].of < n PROVE Before(t, w)
    BY <2>4, <2>8 DEF Before
  <2>9. \A k : ~Has(w, "SM_popCMO", k) /\ (Has(w, "value", k) <=> k = n)
    BY <2>3, <2>4 DEF Has
  <2> QED BY <2>2, <2>5, <2>6, <2>7, <2>8, <2>9 DEF Commands
<1>4. ASSUME NEW code \in Commands, w = Command(code, n)
      PROVE  /\ Ascends(w) /\ (\A k \in Nat : k < n => Above(w, k)) /\ UpTo(w, n)
             /\ Bears(w, "value") /\ Bears(w, "SM_popCMO") /\ Free(w, "OX_SYNC_BALL")
             /\ \A t : (\A i \in 1 .. Len(t) : t[i].of < n) => Before(t, w)
             /\ \A k : Has(w, "SM_popCMO", k) <=> k = n /\ w = Command("SM_popCMO", n)
             /\ w # Data(n)
  <2>1. \A i \in 1 .. Len(w) : /\ i \in {1, 2, 3} /\ w[i].of \in {0, n} /\ (w[i].of # 0 <=> i = 3)
                               /\ w[i].word \notin {"value", "OX_SYNC_BALL"} /\ (w[i].word = "SM_popCMO" => i = 3)
    <3>1. /\ Len(w) = 3 /\ w[1].word = "OX_COMMAND" /\ w[2].word = "serial" /\ w[3].word = code
          /\ w[1].of = 0 /\ w[2].of = 0 /\ w[3].of = n
      BY <1>2, <1>4
    <3>2. code \notin {"value", "OX_SYNC_BALL"}
      BY DEF Commands
    <3>3. \A i \in 1 .. 3 : i \in {1, 2, 3}
      OBVIOUS
    <3> QED BY <3>1, <3>2, <3>3
  <2>2. 3 \in 1 .. Len(w) /\ w[3].word = code /\ w[3].of = n
    BY <1>2, <1>4
  <2>3. w # Data(n)
    BY <1>1, <1>2, <1>4
  <2>4. w = Command("SM_popCMO", n) <=> code = "SM_popCMO"
    BY <1>2, <1>4
  <2>5. Ascends(w)
    BY <2>1 DEF Ascends
  <2>6. (\A k \in Nat : k < n => Above(w, k)) /\ UpTo(w, n)
    BY <2>1 DEF Above, UpTo
  <2>7. Bears(w, "value") /\ Bears(w, "SM_popCMO") /\ Free(w, "OX_SYNC_BALL")
    BY <2>1 DEF Bears, Free
  <2>8. ASSUME NEW t, \A i \in 1 .. Len(t) : t[i].of < n PROVE Before(t, w)
    BY <2>1, <2>8 DEF Before
  <2>9. \A k : Has(w, "SM_popCMO", k) <=> k = n /\ code = "SM_popCMO"
    BY <2>1, <2>2 DEF Has
  <2> QED BY <2>3, <2>4, <2>5, <2>6, <2>7, <2>8, <2>9
<1> QED BY <1>3, <1>4

LEMMA NumbersOfNone ==
  ASSUME NEW m \in Nat, NEW s \in Seq(WordsTo(m)), UpTo(s, 0)
  PROVE  Ascends(s) /\ (\A n \in Nat : Above(s, n)) /\ \A t : Before(t, s)
<1>1. \A i \in 1 .. Len(s) : s[i].of = 0
  <2> TAKE i \in 1 .. Len(s)
  <2>1. s[i] \in WordsTo(m)
    OBVIOUS
  <2>2. s[i].of \in 0 .. m /\ s[i].of <= 0
    BY <2>1 DEF WordsTo, UpTo
  <2> QED BY <2>2
<1> QED BY <1>1 DEF Ascends, Above, Before

LEMMA NumbersGiven ==
  ASSUME NEW m \in Nat, NEW s \in Seq(WordsTo(m))
  PROVE  UpTo(s, m) /\ \A i \in 1 .. Len(s) : s[i].of < m + 1
<1> SUFFICES ASSUME NEW i \in 1 .. Len(s) PROVE s[i].of <= m /\ s[i].of < m + 1
  BY DEF UpTo
<1>1. s[i] \in WordsTo(m)
  OBVIOUS
<1>2. s[i].of \in 0 .. m
  BY <1>1 DEF WordsTo
<1> QED BY <1>2

LEMMA AboveIsAfter ==
  ASSUME NEW m \in Nat, NEW s \in Seq(WordsTo(m)), NEW n, Above(s, n)
  PROVE  \A j \in 1 .. Len(s) : s[j].of # 0 => n < s[j].of
  BY DEF Above

----------------------------------------------------------------------------
(***************************************************************************)
(* What a step does to the streams.                                        *)
(***************************************************************************)
Streams == <<toServer, toClient, out>>

ServerTakes ==
  /\ toServer # <<>> /\ toServer' = Tail(toServer) /\ UNCHANGED <<toClient, out>>
  /\ spc \in Codes
  /\ spc = "code" /\ Head(toServer).word = "SM_popCMO" => discarding

ServerTakesPop ==
  /\ toServer # <<>> /\ toServer' = Tail(toServer) /\ UNCHANGED toClient
  /\ spc = "code" /\ ~discarding /\ Head(toServer).word = "SM_popCMO"
  /\ out = <<>> /\ out' = Data(Head(toServer).of)

ServerPutsWord ==
  /\ out # <<>> /\ out' = Tail(out)
  /\ toClient' = Append(toClient, Head(out)) /\ UNCHANGED toServer

ServerHasBall ==
  /\ out' = SyncBall /\ UNCHANGED <<toServer, toClient>>
  /\ out = <<>> \/ torn'

LEMMA ServerOnStreams ==
  ASSUME Base, ServerNext
  PROVE  /\ UNCHANGED <<options, clientVars>>
         /\ UNCHANGED Streams \/ ServerTakes \/ ServerTakesPop \/ ServerPutsWord \/ ServerHasBall
<1> USE DEF options, userVars, clientVars, serverVars, Streams, Codes
<1>0. (out # <<>> <=> spc = "write") /\ torn \in BOOLEAN
  BY DEF Base, ToolkitTypeOK
<1>1. CASE ServerReadsTag
  BY <1>1 DEF ServerReadsTag, TakesWord, Runs, ServerTakes
<1>2. CASE ServerReadsSerial
  BY <1>2 DEF ServerReadsSerial, TakesWord, Runs, ServerTakes
<1>3. CASE ServerReadsCmo
  BY <1>3 DEF ServerReadsCmo, TakesWord, Runs, ServerTakes
<1>4. CASE ServerReadsValue
  BY <1>4 DEF ServerReadsValue, TakesWord, Runs, ServerTakes
<1>5. CASE ServerReadsCode
  <2>1. CASE Head(toServer).word = "SM_popCMO" /\ ~discarding
    <3>1. ServerTakesPop
      BY <1>0, <1>5, <2>1 DEF ServerReadsCode, TakesWord, Runs, ServerTakesPop, Commands
    <3> QED BY <1>5, <3>1 DEF ServerReadsCode
  <2>2. CASE ~(Head(toServer).word = "SM_popCMO" /\ ~discarding)
    <3>1. ServerTakes
      BY <1>5, <2>2 DEF ServerReadsCode, TakesWord, Runs, ServerTakes
    <3> QED BY <1>5, <3>1 DEF ServerReadsCode
  <2> QED BY <2>1, <2>2
<1>6. CASE ServerWrites
  BY <1>0, <1>6 DEF ServerWrites, Runs, ServerPutsWord
<1>7. CASE ServerReadsEnd
  BY <1>7 DEF ServerReadsEnd
<1>8. CASE ExecuteEnds
  BY <1>8 DEF ExecuteEnds
<1>9. CASE MathStep
  BY <1>0, <1>9 DEF MathStep, sm_sigunmask, EnterSelect, SelectReturns, exchange_ox_sync_ball, Exchanged, Runs,
     ServerHasBall
<1>10. CASE sm_sighandler
  BY <1>10 DEF sm_sighandler
<1>11. CASE usr1_handler
  BY <1>0, <1>11 DEF usr1_handler, ServerHasBall, MidMessage
<1> QED BY <1>1, <1>2, <1>3, <1>4, <1>5, <1>6, <1>7, <1>8, <1>9, <1>10, <1>11 DEF ServerNext, ServerStep

\* The client takes a word, and if OX_get takes a value it is the last answer.
ClientTakes ==
  /\ cpc \in Reading /\ toClient # <<>> /\ toClient' = Tail(toClient)
  /\ UNCHANGED <<toServer, wbuf, nreq, givenUp, call>>
  /\ IF Get THEN last' = Head(toClient).of /\ awaited' = Tail(awaited)
            ELSE /\ last' = last
                 /\ \/ awaited' = awaited
                    \/ call = "OX_get" /\ cpc = "cmo" /\ Head(toClient).word # "CMO_INT32" /\ awaited' = Tail(awaited)
  /\ cpc = "tag" => ctag' = Head(toClient).word /\ cpc' = "serial"
  /\ cpc # "tag" => cpc' # "serial"
  /\ call = "ox_reset" => cpc' \in Reading /\ ~BallRead
  /\ cpc = "value" /\ call = "OX_get" => Get
  /\ cpc' \in Reading \cup {"user"}

ClientSends ==
  /\ cpc = "user" /\ nreq' = nreq + 1 /\ nreq' \in 1 .. MaxRequests
  /\ UNCHANGED <<toClient, givenUp, last, call, cpc, ctag>>
  /\ \/ WriteAndFlush(Data(nreq')) /\ UNCHANGED awaited
     \/ WriteAndFlush(Command("SM_execute", nreq')) /\ UNCHANGED awaited
     \/ WriteAndFlush(Command("SM_popCMO", nreq')) /\ awaited' = Append(awaited, nreq')

ClientSendsBall ==
  /\ BallRead /\ call = "ox_reset" /\ cpc' = "user" /\ toClient # <<>> /\ toClient' = Tail(toClient)
  /\ WriteOnly(SyncBall) /\ givenUp' = nreq /\ awaited' = <<>>
  /\ UNCHANGED <<nreq, last, call, ctag>>

LEMMA ClientOnStreams ==
  ASSUME Base, ClientNext
  PROVE  /\ UNCHANGED <<options, serverVars>>
         /\ \/ ClientSends \/ ClientTakes \/ ClientSendsBall
            \/ OX_get \/ ox_reset \/ ClientExits
<1> USE DEF options, userVars, clientVars, serverVars, Reading
<1>0. nreq \in Nat
  BY ToolkitAssumption DEF Base, ToolkitTypeOK
<1>1. CASE send_ox
  <2>1. nreq + 1 \in 1 .. MaxRequests
    BY <1>0, <1>1, ToolkitAssumption DEF send_ox
  <2>2. ClientSends
    BY <1>1, <2>1 DEF send_ox, ClientSends
  <2> QED BY <1>1, <2>2 DEF send_ox
<1>2. CASE OX_get \/ ox_reset \/ ClientExits
  BY <1>2 DEF OX_get, ox_reset, ClientExits
<1>3. CASE ClientReadsTag
  BY <1>3 DEF ClientReadsTag, ReadsWord, ClientTakes, Get, BallRead
<1>4. CASE ClientReadsSerial
  BY <1>4 DEF ClientReadsSerial, ReadsWord, ClientTakes, Get, BallRead
<1>5. CASE ClientReadsBall
  BY <1>5 DEF ClientReadsBall, ReadsWord, ClientSendsBall, BallRead
<1>6. CASE ClientReadsCmo
  BY <1>6 DEF ClientReadsCmo, ReadsWord, ClientTakes, Get, Returns, BallRead
<1>7. CASE ClientReadsValue
  BY <1>7 DEF ClientReadsValue, ReadsWord, ClientTakes, Get, Returns, BallRead
<1> QED BY <1>1, <1>2, <1>3, <1>4, <1>5, <1>6, <1>7 DEF ClientNext, ClientReads

----------------------------------------------------------------------------
(***************************************************************************)
(* The line is kept, also when a jump has cut a message.                   *)
(***************************************************************************)
LEMMA NumberedBase ==
  ASSUME Base
  PROVE  /\ nreq \in Nat /\ last \in 0 .. nreq /\ givenUp \in 0 .. nreq
         /\ wbuf \in Seq(WordsTo(nreq)) /\ toServer \in Seq(WordsTo(nreq))
         /\ toClient \in Seq(WordsTo(nreq)) /\ out \in Seq(WordsTo(nreq))
         /\ SyncBall \in Seq(WordsTo(nreq))
         /\ awaited \in Seq(1 .. MaxRequests) /\ MaxRequests \in Nat
<1>1. nreq \in Nat /\ 0 \in 0 .. nreq
  BY ToolkitAssumption DEF Base, ToolkitTypeOK
<1>2. SyncBall \in Seq(WordsTo(nreq))
  BY <1>1, WholeMessages
<1> QED BY <1>1, <1>2, ToolkitAssumption DEF Base, ToolkitTypeOK, Numbered

LEMMA LineOfServer ==
  ASSUME Base, Line, ServerNext
  PROVE  Line'
<1> DEFINE W == WordsTo(nreq)
           h == Head(toServer).of
           o == Head(out)
<1>0. /\ nreq \in Nat /\ last \in 0 .. nreq
      /\ toServer \in Seq(W) /\ toClient \in Seq(W) /\ out \in Seq(W) /\ SyncBall \in Seq(W)
      /\ UNCHANGED <<wbuf, last>>
  BY NumberedBase, ServerOnStreams DEF clientVars, userVars
<1>1. CASE UNCHANGED Streams
  BY <1>0, <1>1 DEF Line, Streams
<1>2. CASE ServerTakes
  <2>1. /\ toServer # <<>> /\ toServer' = Tail(toServer) /\ UNCHANGED <<toClient, out>>
    BY <1>2 DEF ServerTakes
  <2>2. /\ Ascends(toServer') /\ Above(toServer', last) /\ Bears(toServer', "SM_popCMO")
        /\ Before(toClient, toServer') /\ Before(out, toServer')
    BY <1>0, <2>1, NumbersOfTail DEF Line
  <2> QED BY <1>0, <2>1, <2>2 DEF Line
<1>3. CASE ServerTakesPop
  <2>1. /\ toServer # <<>> /\ toServer' = Tail(toServer) /\ UNCHANGED toClient
        /\ Head(toServer).word = "SM_popCMO" /\ out' = Data(h)
    BY <1>3 DEF ServerTakesPop
  <2>2. /\ Ascends(toServer') /\ Above(toServer', last) /\ Bears(toServer', "SM_popCMO")
        /\ Before(toClient, toServer') /\ Above(toServer', h) /\ h \in 0 .. nreq /\ h # 0
        /\ \A i \in 1 .. Len(toClient) : toClient[i].of < h
        /\ h > last
    BY <1>0, <2>1, NumbersOfTail DEF Line
  <2>3. /\ Ascends(Data(h)) /\ Above(Data(h), last) /\ UpTo(Data(h), h) /\ Bears(Data(h), "value")
        /\ Before(toClient, Data(h))
    <3>1. h \in Nat /\ h > 0 /\ last \in Nat /\ last < h
      BY <1>0, <2>2
    <3>2. /\ Ascends(Data(h)) /\ (\A k \in Nat : k < h => Above(Data(h), k)) /\ UpTo(Data(h), h)
          /\ Bears(Data(h), "value")
          /\ \A t : (\A i \in 1 .. Len(t) : t[i].of < h) => Before(t, Data(h))
      BY <3>1, NumbersOfMessages
    <3> QED BY <2>2, <3>1, <3>2
  <2>4. Before(Data(h), toServer')
    <3> SUFFICES ASSUME NEW i \in 1 .. Len(Data(h)), NEW j \in 1 .. Len(toServer'), toServer'[j].of # 0
                 PROVE  Data(h)[i].of < toServer'[j].of
      BY DEF Before
    <3>1. toServer'[j].of > h
      BY <2>2 DEF Above
    <3>2. toServer' \in Seq(W)
      BY <1>0, <2>1, NumbersOfTail
    <3>3. toServer'[j] \in W
      BY <3>2
    <3>4. toServer'[j].of \in 0 .. nreq
      BY <3>3 DEF WordsTo
    <3>5. Data(h) \in Seq(W)
      BY <1>0, <2>2, WholeMessages
    <3>6. Data(h)[i] \in W
      BY <3>5
    <3>7. Data(h)[i].of \in 0 .. nreq /\ Data(h)[i].of <= h
      BY <2>3, <3>6 DEF WordsTo, UpTo
    <3> QED BY <2>2, <3>1, <3>4, <3>7
  <2> QED BY <1>0, <2>1, <2>2, <2>3, <2>4 DEF Line
<1>4. CASE ServerPutsWord
  <2>1. /\ out # <<>> /\ out' = Tail(out) /\ toClient' = Append(toClient, o) /\ UNCHANGED toServer
    BY <1>4 DEF ServerPutsWord
  <2>2. /\ o \in W /\ Ascends(out') /\ Above(out', o.of) /\ Above(out', last) /\ (o.of = 0 \/ o.of > last)
        /\ Bears(out', "value") /\ (o.word = "value" => o.of # 0)
        /\ Before(out', toServer) /\ Above(toServer, o.of)
        /\ Before(toClient, out') /\ (o.of # 0 => \A i \in 1 .. Len(toClient) : toClient[i].of < o.of)
        /\ out' \in Seq(W)
    BY <1>0, <2>1, NumbersOfTail DEF Line
  <2>3. /\ Ascends(toClient') /\ Above(toClient', last) /\ Bears(toClient', "value")
    BY <1>0, <2>1, <2>2, NumbersOfAppend DEF Line
  <2>4. Before(toClient', out') /\ Before(toClient', toServer)
    <3>1. \A j \in 1 .. Len(out') : out'[j].of # 0 => o.of < out'[j].of
      BY <1>0, <2>2, AboveIsAfter
    <3>2. \A j \in 1 .. Len(toServer) : toServer[j].of # 0 => o.of < toServer[j].of
      BY <1>0, <2>2, AboveIsAfter
    <3> QED BY <1>0, <2>1, <2>2, <3>1, <3>2, NumbersOfAppend DEF Line
  <2> QED BY <1>0, <2>1, <2>2, <2>3, <2>4 DEF Line
<1>5. CASE ServerHasBall
  <2>1. out' = SyncBall /\ UNCHANGED <<toServer, toClient>>
    BY <1>5 DEF ServerHasBall
  <2> QED BY <1>0, <2>1, NumbersOfBall DEF Line
<1> QED BY <1>1, <1>2, <1>3, <1>4, <1>5, ServerOnStreams

LEMMA LineOfClient ==
  ASSUME Base, Line, ClientNext
  PROVE  Line'
<1> DEFINE W == WordsTo(nreq)
           h == Head(toClient)
<1>0. /\ nreq \in Nat /\ last \in 0 .. nreq /\ wbuf \in Seq(W)
      /\ toServer \in Seq(W) /\ toClient \in Seq(W) /\ out \in Seq(W) /\ SyncBall \in Seq(W)
      /\ UNCHANGED out
  BY NumberedBase, ClientOnStreams DEF serverVars
<1>1. CASE ClientSends
  <2> DEFINE n == nreq + 1
  <2>1. PICK w : WriteAndFlush(w) /\ (w = Data(n) \/ \E code \in Commands : w = Command(code, n))
    BY <1>1 DEF ClientSends, Commands
  <2>2. /\ toServer' = (toServer \o wbuf) \o w /\ wbuf' = <<>> /\ UNCHANGED <<toClient, last>>
    BY <1>1, <2>1 DEF WriteAndFlush, ClientSends
  <2> DEFINE s == toServer \o wbuf
             V == WordsTo(n)
  <2>3. n \in Nat /\ n > 0 /\ n > last
    BY <1>0
  <2>4. /\ Ascends(w) /\ Above(w, last) /\ Bears(w, "SM_popCMO")
        /\ \A t : (\A i \in 1 .. Len(t) : t[i].of < n) => Before(t, w)
    <3>1. /\ Ascends(w) /\ (\A k \in Nat : k < n => Above(w, k)) /\ Bears(w, "SM_popCMO")
          /\ \A t : (\A i \in 1 .. Len(t) : t[i].of < n) => Before(t, w)
      BY <2>1, <2>3, NumbersOfMessages
    <3>2. last \in Nat /\ last < n
      BY <1>0, <2>3
    <3> HIDE DEF n
    <3> QED BY <3>1, <3>2
  <2>5. /\ Ascends(wbuf) /\ Above(wbuf, last) /\ Before(toServer, wbuf) /\ Before(toClient, wbuf) /\ Before(out, wbuf)
    BY <1>0, NumbersOfNone DEF Line
  <2>6. /\ Ascends(s) /\ Above(s, last) /\ Bears(s, "SM_popCMO") /\ Before(toClient, s) /\ Before(out, s)
        /\ s \in Seq(W)
    BY <1>0, <2>5, NumbersOfBoth, Joined DEF Line
  <2>7. Before(s, w) /\ Before(toClient, w) /\ Before(out, w)
    BY <1>0, <2>4, <2>6, NumbersGiven
  <2>8. s \in Seq(V) /\ w \in Seq(V)
    <3>1. s \in Seq(V)
      BY <1>0, <2>3, <2>6, WordsGrow
    <3>2. n \in 0 .. n
      BY <2>3
    <3> QED BY <2>1, <2>3, <3>1, <3>2, WholeMessages
  <2> HIDE DEF s, V, n
  <2>9. /\ Ascends(s \o w) /\ Above(s \o w, last) /\ Bears(s \o w, "SM_popCMO")
        /\ Before(toClient, s \o w) /\ Before(out, s \o w)
    <3>1. n \in Nat /\ s \in Seq(WordsTo(n)) /\ w \in Seq(WordsTo(n))
      BY <2>3, <2>8 DEF V
    <3> QED BY <2>4, <2>6, <2>7, <3>1, NumbersOfBoth
  <2>10. UpTo(<<>>, 0) /\ Bears(<<>>, "SM_popCMO")
    BY NumbersOfNothing
  <2>11. toServer' = s \o w
    BY <2>2 DEF s
  <2> QED BY <1>0, <2>2, <2>9, <2>10, <2>11 DEF Line
<1>2. CASE ClientTakes
  <2>1. /\ toClient # <<>> /\ toClient' = Tail(toClient) /\ UNCHANGED <<toServer, wbuf>>
        /\ last' \in {last, h.of}
    BY <1>2 DEF ClientTakes
  <2>2. /\ Ascends(toClient') /\ Above(toClient', last) /\ Bears(toClient', "value")
        /\ Above(toClient', h.of) /\ Before(toClient', out) /\ Before(toClient', toServer)
        /\ Above(out, h.of) /\ Above(toServer, h.of)
    BY <1>0, <2>1, NumbersOfTail DEF Line
  <2>3. Above(toClient', last') /\ Above(out, last') /\ Above(toServer, last')
    BY <2>1, <2>2 DEF Line
  <2> QED BY <1>0, <2>1, <2>2, <2>3 DEF Line
<1>3. CASE ClientSendsBall
  <2>1. /\ toClient # <<>> /\ toClient' = Tail(toClient) /\ WriteOnly(SyncBall) /\ UNCHANGED last
    BY <1>3 DEF ClientSendsBall
  <2>2. /\ Ascends(toClient') /\ Above(toClient', last) /\ Bears(toClient', "value")
        /\ Before(toClient', out) /\ Before(toClient', toServer)
    BY <1>0, <2>1, NumbersOfTail DEF Line
  <2>3. /\ Ascends(SyncBall) /\ Above(SyncBall, last) /\ UpTo(SyncBall, 0) /\ Bears(SyncBall, "SM_popCMO")
        /\ \A t : Before(t, SyncBall)
    BY <1>0, NumbersOfBall
  <2>4. CASE wbuf' = wbuf \o SyncBall /\ UNCHANGED toServer
    <3>1. UpTo(wbuf', 0) /\ Bears(wbuf', "SM_popCMO")
      BY <1>0, <2>3, <2>4, NumbersOfBoth DEF Line
    <3> QED BY <1>0, <2>1, <2>2, <2>4, <3>1 DEF Line
  <2>5. CASE toServer' = toServer \o SyncBall /\ UNCHANGED wbuf
    <3>1. /\ Ascends(toServer') /\ Above(toServer', last) /\ Bears(toServer', "SM_popCMO")
          /\ Before(toClient', toServer') /\ Before(out, toServer')
      BY <1>0, <2>2, <2>3, <2>5, NumbersOfBoth DEF Line
    <3> QED BY <1>0, <2>1, <2>2, <2>5, <3>1 DEF Line
  <2> QED BY <2>1, <2>4, <2>5 DEF WriteOnly
<1>4. CASE OX_get \/ ox_reset
  <2>1. UNCHANGED <<toServer, toClient, wbuf, last>>
    BY <1>4 DEF OX_get, ox_reset, userVars
  <2> QED BY <1>0, <2>1 DEF Line
<1>5. CASE ClientExits
  <2>1. UNCHANGED <<toServer, toClient, last>> /\ wbuf' = <<>>
    BY <1>5 DEF ClientExits, userVars
  <2>2. UpTo(<<>>, 0) /\ Bears(<<>>, "SM_popCMO")
    BY NumbersOfNothing
  <2> QED BY <1>0, <2>1, <2>2 DEF Line
<1> QED BY <1>1, <1>2, <1>3, <1>4, <1>5, ClientOnStreams

LEMMA LineInductive == Base /\ Line /\ [Next]_vars => Line'
<1>1. ASSUME Line, UNCHANGED vars PROVE Line'
  BY <1>1 DEF Line, vars, options, clientVars, userVars, serverVars
<1> QED BY <1>1, LineOfServer, LineOfClient DEF Next

LEMMA InitLine == Init => Line
<1>1. ASSUME Init PROVE toServer = <<>> /\ toClient = <<>> /\ out = <<>> /\ wbuf = <<>>
  BY <1>1 DEF Init
<1> QED BY <1>1, NumbersOfNothing DEF Line

----------------------------------------------------------------------------
(***************************************************************************)
(* The pops that OX_get has not answered: ascending, of this epoch.        *)
(***************************************************************************)
AwaitedOK ==
  /\ \A i, j \in 1 .. Len(awaited) : i < j => awaited[i] < awaited[j]
  /\ \A i \in 1 .. Len(awaited) : awaited[i] > givenUp /\ awaited[i] <= nreq

LEMMA AwaitedTail ==
  ASSUME Base, AwaitedOK, awaited # <<>>
  PROVE  /\ Len(Tail(awaited)) = Len(awaited) - 1 /\ Head(awaited) = awaited[1] /\ Len(awaited) \in Nat
         /\ \A i \in 1 .. Len(awaited) - 1 : Tail(awaited)[i] = awaited[i + 1] /\ i + 1 \in 1 .. Len(awaited)
         /\ \A i, j \in 1 .. Len(Tail(awaited)) : i < j => Tail(awaited)[i] < Tail(awaited)[j]
         /\ \A i \in 1 .. Len(Tail(awaited)) :
              Tail(awaited)[i] > givenUp /\ Tail(awaited)[i] <= nreq /\ Tail(awaited)[i] > Head(awaited)
<1> DEFINE t == Tail(awaited)
           n == Len(awaited)
<1>1. /\ n \in Nat /\ n > 0 /\ Len(t) = n - 1 /\ Head(awaited) = awaited[1]
      /\ \A i \in 1 .. n - 1 : t[i] = awaited[i + 1] /\ i + 1 \in 1 .. n
  <2>1. awaited \in Seq(1 .. MaxRequests)
    BY NumberedBase
  <2> QED BY <2>1, TailIs
<1> HIDE DEF t
<1>2. ASSUME NEW i \in 1 .. n - 1, NEW j \in 1 .. n - 1, i < j PROVE t[i] < t[j]
  <2>1. i + 1 < j + 1 /\ i + 1 \in 1 .. n /\ j + 1 \in 1 .. n
    BY <1>1, <1>2
  <2> QED BY <1>1, <2>1 DEF AwaitedOK
<1>3. ASSUME NEW i \in 1 .. n - 1 PROVE t[i] > givenUp /\ t[i] <= nreq /\ t[i] > awaited[1]
  <2>1. i + 1 \in 1 .. n /\ 1 \in 1 .. n /\ 1 < i + 1 /\ t[i] = awaited[i + 1]
    BY <1>1
  <2>2. awaited[1] < awaited[i + 1] /\ awaited[i + 1] > givenUp /\ awaited[i + 1] <= nreq
    BY <2>1 DEF AwaitedOK
  <2>3. awaited \in Seq(1 .. MaxRequests) /\ MaxRequests \in Nat
    BY NumberedBase
  <2>4. awaited[1] \in 1 .. MaxRequests /\ awaited[i + 1] \in 1 .. MaxRequests
    BY <2>1, <2>3, EntryIs
  <2> QED BY <2>1, <2>2, <2>3, <2>4
<1> QED BY <1>1, <1>2, <1>3 DEF t

LEMMA AwaitedInductive == Base /\ AwaitedOK /\ [Next]_vars => AwaitedOK'
<1> SUFFICES ASSUME Base, AwaitedOK, [Next]_vars PROVE AwaitedOK'
  OBVIOUS
<1>0. nreq \in Nat /\ givenUp \in 0 .. nreq /\ awaited \in Seq(1 .. MaxRequests) /\ MaxRequests \in Nat
  BY NumberedBase
<1>1. CASE ServerNext \/ UNCHANGED vars
  <2>1. UNCHANGED <<awaited, givenUp, nreq>>
    BY <1>1, ServerOnStreams DEF vars, clientVars, userVars
  <2> QED BY <2>1 DEF AwaitedOK
<1>2. CASE ClientSends
  <2>1. nreq' = nreq + 1 /\ UNCHANGED givenUp
    BY <1>2 DEF ClientSends
  <2>2. CASE awaited' = awaited
    BY <1>0, <2>1, <2>2 DEF AwaitedOK
  <2>3. CASE awaited' = Append(awaited, nreq')
    <3> DEFINE n == Len(awaited)
    <3>1. /\ n \in Nat /\ Len(awaited') = n + 1 /\ awaited'[n + 1] = nreq + 1
          /\ \A i \in 1 .. n : awaited'[i] = awaited[i] /\ awaited[i] \in Nat
      BY <1>0, <2>1, <2>3
    <3>2. \A i \in 1 .. n + 1 : i \in 1 .. n \/ i = n + 1
      BY <3>1
    <3>3. \A i \in 1 .. n : awaited[i] > givenUp /\ awaited[i] <= nreq
      BY DEF AwaitedOK
    <3>4. \A i \in 1 .. n + 1 : awaited'[i] > givenUp /\ awaited'[i] <= nreq + 1
      BY <1>0, <3>1, <3>2, <3>3
    <3>5. ASSUME NEW i \in 1 .. n + 1, NEW j \in 1 .. n + 1, i < j PROVE awaited'[i] < awaited'[j]
      <4>1. i \in 1 .. n
        BY <3>1, <3>5
      <4>2. CASE j \in 1 .. n
        BY <3>1, <3>5, <4>1, <4>2 DEF AwaitedOK
      <4>3. CASE j = n + 1
        <5>1. awaited'[i] = awaited[i] /\ awaited[i] \in Nat /\ awaited[i] <= nreq
          BY <3>1, <3>3, <4>1
        <5>2. awaited'[j] = nreq + 1
          BY <3>1, <4>3
        <5> QED BY <1>0, <5>1, <5>2
      <4> QED BY <3>2, <4>2, <4>3
    <3> QED BY <2>1, <3>1, <3>4, <3>5 DEF AwaitedOK
  <2> QED BY <1>2, <2>2, <2>3 DEF ClientSends
<1>3. CASE ClientTakes
  <2>1. UNCHANGED <<nreq, givenUp>>
    BY <1>3 DEF ClientTakes
  <2>2. CASE awaited' = awaited
    BY <2>1, <2>2 DEF AwaitedOK
  <2>3. CASE awaited' # awaited
    <3>1. awaited' = Tail(awaited) /\ call = "OX_get" /\ cpc \in Reading
      BY <1>3, <2>3 DEF ClientTakes, Get
    <3>2. awaited # <<>>
      BY <3>1 DEF Base, Awaits
    <3> QED BY <2>1, <3>1, <3>2, AwaitedTail DEF AwaitedOK
  <2> QED BY <2>2, <2>3
<1>4. CASE ClientSendsBall
  <2>1. awaited' = <<>>
    BY <1>4 DEF ClientSendsBall
  <2> QED BY <2>1 DEF AwaitedOK
<1>5. CASE OX_get \/ ox_reset \/ ClientExits
  <2>1. UNCHANGED <<awaited, givenUp, nreq>>
    BY <1>5 DEF OX_get, ox_reset, ClientExits, userVars
  <2> QED BY <2>1 DEF AwaitedOK
<1> QED BY <1>1, <1>2, <1>3, <1>4, <1>5, ClientOnStreams DEF Next

----------------------------------------------------------------------------
(***************************************************************************)
(* Where the ball of a reset of ox_math is.  Cut(s, n): s has one ball,    *)
(* behind it what is newer than n, and before it nothing that is.          *)
(***************************************************************************)
Cut(s, n) == \E k \in 1 .. Len(s) :
  /\ s[k].word = "OX_SYNC_BALL"
  /\ \A i \in 1 .. Len(s) : /\ i < k => s[i].of <= n
                            /\ i > k => s[i].of = 0 \/ s[i].of > n
                            /\ i # k => s[i].word # "OX_SYNC_BALL"

BallIsLast(s) == \E k \in 1 .. Len(s) :
  s[k].word = "OX_SYNC_BALL" /\ \A i \in 1 .. Len(s) : i > k => s[i].of = 0

LEMMA CutByBall ==
  ASSUME NEW m \in Nat, NEW n, NEW s \in Seq(WordsTo(m)), Free(s, "OX_SYNC_BALL"), UpTo(s, n)
  PROVE  Cut(s \o SyncBall, n)
<1> DEFINE k == Len(s)
           b == s \o SyncBall
<1>1. /\ Len(SyncBall) = 2 /\ SyncBall[1].word = "OX_SYNC_BALL" /\ SyncBall[2].word = "serial" /\ SyncBall[2].of = 0
      /\ SyncBall \in Seq(WordsTo(m))
  <2>1. 0 \in 0 .. m
    OBVIOUS
  <2>2. SyncBall \in Seq(WordsTo(m))
    BY <2>1, WholeMessages
  <2> QED BY <2>2 DEF SyncBall, Word
<1>2. /\ k \in Nat /\ Len(b) = k + 2 /\ \A i \in 1 .. k : b[i] = s[i]
      /\ b[k + 1] = SyncBall[1] /\ b[k + 2] = SyncBall[2]
  <2>1. /\ k \in Nat /\ Len(b) = k + Len(SyncBall) /\ \A i \in 1 .. k : b[i] = s[i]
        /\ \A i \in 1 .. Len(SyncBall) : b[k + i] = SyncBall[i]
    BY <1>1, JoinedIs
  <2> HIDE DEF b
  <2> QED BY <1>1, <2>1
<1> HIDE DEF b
<1>3. k + 1 \in 1 .. Len(b) /\ \A i \in 1 .. Len(b) : i \in 1 .. k \/ i = k + 1 \/ i = k + 2
  BY <1>2
<1>4. \A i \in 1 .. k : s[i].of <= n /\ s[i].word # "OX_SYNC_BALL"
  BY DEF UpTo, Free
<1>5. \A i \in 1 .. Len(b) : /\ i < k + 1 => b[i].of <= n
                             /\ i > k + 1 => b[i].of = 0
                             /\ i # k + 1 => b[i].word # "OX_SYNC_BALL"
  BY <1>1, <1>2, <1>3, <1>4
<1> QED BY <1>1, <1>2, <1>3, <1>5 DEF Cut, b

LEMMA CutLengthened ==
  ASSUME NEW m \in Nat, NEW n, NEW s \in Seq(WordsTo(m)), NEW w \in Seq(WordsTo(m)),
         Cut(s, n), Above(w, n), Free(w, "OX_SYNC_BALL")
  PROVE  Cut(s \o w, n)
<1> DEFINE k == Len(s)
           b == s \o w
<1>1. /\ k \in Nat /\ \A i \in 1 .. k : b[i] = s[i] /\ i \in 1 .. Len(b)
      /\ \A i \in 1 .. Len(b) : i \in 1 .. k \/ (i - k \in 1 .. Len(w) /\ b[i] = w[i - k] /\ i > k)
  OBVIOUS
<1> HIDE DEF b
<1>2. PICK l \in 1 .. k :
        /\ s[l].word = "OX_SYNC_BALL"
        /\ \A i \in 1 .. k : /\ i < l => s[i].of <= n
                             /\ i > l => s[i].of = 0 \/ s[i].of > n
                             /\ i # l => s[i].word # "OX_SYNC_BALL"
  BY DEF Cut
<1>3. ASSUME NEW i \in 1 .. Len(b)
      PROVE  /\ i < l => b[i].of <= n
             /\ i > l => b[i].of = 0 \/ b[i].of > n
             /\ i # l => b[i].word # "OX_SYNC_BALL"
  <2>1. CASE i \in 1 .. k
    BY <1>1, <1>2, <2>1
  <2>2. CASE i - k \in 1 .. Len(w) /\ b[i] = w[i - k] /\ i > k
    <3>1. i > l
      BY <1>1, <2>2
    <3>2. (w[i - k].of = 0 \/ w[i - k].of > n) /\ w[i - k].word # "OX_SYNC_BALL"
      BY <2>2 DEF Above, Free
    <3> QED BY <2>2, <3>1, <3>2
  <2> QED BY <1>1, <2>1, <2>2
<1>4. l \in 1 .. Len(b) /\ b[l].word = "OX_SYNC_BALL"
  BY <1>1, <1>2
<1> QED BY <1>3, <1>4 DEF Cut, b

LEMMA CutTail ==
  ASSUME NEW m \in Nat, NEW n, NEW s \in Seq(WordsTo(m)), s # <<>>, Cut(s, n)
  PROVE  IF Head(s).word = "OX_SYNC_BALL" THEN Free(Tail(s), "OX_SYNC_BALL") /\ Above(Tail(s), n)
                                          ELSE Cut(Tail(s), n) /\ Head(s).of <= n
<1> DEFINE k == Len(s)
           t == Tail(s)
<1>1. /\ k \in Nat /\ k > 0 /\ Len(t) = k - 1 /\ Head(s) = s[1] /\ 1 \in 1 .. k
      /\ \A i \in 1 .. k - 1 : t[i] = s[i + 1] /\ i + 1 \in 1 .. k
  OBVIOUS
<1> HIDE DEF t
<1>2. PICK l \in 1 .. k :
        /\ s[l].word = "OX_SYNC_BALL"
        /\ \A i \in 1 .. k : /\ i < l => s[i].of <= n
                             /\ i > l => s[i].of = 0 \/ s[i].of > n
                             /\ i # l => s[i].word # "OX_SYNC_BALL"
  BY DEF Cut
<1>3. CASE Head(s).word = "OX_SYNC_BALL"
  <2>1. l = 1
    BY <1>1, <1>2, <1>3
  <2>2. \A i \in 1 .. k - 1 : i + 1 > l /\ (t[i].of = 0 \/ t[i].of > n) /\ t[i].word # "OX_SYNC_BALL"
    BY <1>1, <1>2, <2>1
  <2> QED BY <1>1, <1>3, <2>2 DEF Free, Above, t
<1>4. CASE Head(s).word # "OX_SYNC_BALL"
  <2>1. l # 1 /\ l - 1 \in 1 .. k - 1 /\ t[l - 1] = s[l]
    BY <1>1, <1>2, <1>4
  <2>2. ASSUME NEW i \in 1 .. k - 1
        PROVE  /\ i < l - 1 => t[i].of <= n
               /\ i > l - 1 => t[i].of = 0 \/ t[i].of > n
               /\ i # l - 1 => t[i].word # "OX_SYNC_BALL"
    <3>1. i + 1 \in 1 .. k /\ t[i] = s[i + 1]
      BY <1>1
    <3>2. (i < l - 1 => i + 1 < l) /\ (i > l - 1 => i + 1 > l) /\ (i # l - 1 => i + 1 # l)
      OBVIOUS
    <3> QED BY <1>2, <3>1, <3>2
  <2>3. Cut(t, n)
    BY <1>1, <1>2, <2>1, <2>2 DEF Cut
  <2>4. Head(s).of <= n
    BY <1>1, <1>2, <2>1
  <2> QED BY <1>4, <2>3, <2>4 DEF t
<1> QED BY <1>3, <1>4

LEMMA LastBall ==
  ASSUME NEW m \in Nat, NEW s \in Seq(WordsTo(m))
  PROVE  /\ \A e \in WordsTo(m) : e.word = "OX_SYNC_BALL" => BallIsLast(Append(s, e))
         /\ \A e \in WordsTo(m) : BallIsLast(s) /\ e.of = 0 => BallIsLast(Append(s, e))
         /\ s # <<>> /\ BallIsLast(s) =>
              \/ BallIsLast(Tail(s))
              \/ Head(s).word = "OX_SYNC_BALL" /\ UpTo(Tail(s), 0)
         /\ Free(s, "OX_SYNC_BALL") => ~BallIsLast(s)
<1> DEFINE k == Len(s)
<1>1. ASSUME NEW e \in WordsTo(m)
      PROVE  Len(Append(s, e)) = k + 1 /\ Append(s, e)[k + 1] = e /\ \A i \in 1 .. k : Append(s, e)[i] = s[i]
  OBVIOUS
<1>2. ASSUME NEW e \in WordsTo(m), e.word = "OX_SYNC_BALL" PROVE BallIsLast(Append(s, e))
  <2>1. k + 1 \in 1 .. Len(Append(s, e)) /\ \A i \in 1 .. Len(Append(s, e)) : ~(i > k + 1)
    BY <1>1
  <2> QED BY <1>1, <1>2, <2>1 DEF BallIsLast
<1>3. ASSUME NEW e \in WordsTo(m), BallIsLast(s), e.of = 0 PROVE BallIsLast(Append(s, e))
  <2>1. PICK l \in 1 .. k : s[l].word = "OX_SYNC_BALL" /\ \A i \in 1 .. k : i > l => s[i].of = 0
    BY <1>3 DEF BallIsLast
  <2>2. l \in 1 .. Len(Append(s, e)) /\ Append(s, e)[l].word = "OX_SYNC_BALL"
    BY <1>1, <2>1
  <2>3. \A i \in 1 .. Len(Append(s, e)) : i > l => Append(s, e)[i].of = 0
    <3> TAKE i \in 1 .. Len(Append(s, e))
    <3>1. i \in 1 .. k \/ i = k + 1
      BY <1>1
    <3> QED BY <1>1, <1>3, <2>1, <3>1
  <2> QED BY <2>2, <2>3 DEF BallIsLast
<1>4. ASSUME s # <<>>, BallIsLast(s)
      PROVE  BallIsLast(Tail(s)) \/ (Head(s).word = "OX_SYNC_BALL" /\ UpTo(Tail(s), 0))
  <2> DEFINE t == Tail(s)
  <2>0. /\ k \in Nat /\ k > 0 /\ Len(t) = k - 1 /\ Head(s) = s[1]
        /\ \A i \in 1 .. k - 1 : t[i] = s[i + 1] /\ i + 1 \in 1 .. k
    BY <1>4
  <2> HIDE DEF t
  <2>1. PICK l \in 1 .. k : s[l].word = "OX_SYNC_BALL" /\ \A i \in 1 .. k : i > l => s[i].of = 0
    BY <1>4 DEF BallIsLast
  <2>2. CASE l = 1
    <3>1. \A i \in 1 .. Len(t) : t[i].of = 0
      BY <2>0, <2>1, <2>2
    <3> QED BY <2>0, <2>1, <2>2, <3>1 DEF UpTo, t
  <2>3. CASE l # 1
    <3>1. l - 1 \in 1 .. Len(t) /\ t[l - 1].word = "OX_SYNC_BALL"
      BY <2>0, <2>1, <2>3
    <3>2. \A i \in 1 .. Len(t) : i > l - 1 => t[i].of = 0
      <4> TAKE i \in 1 .. Len(t)
      <4>1. t[i] = s[i + 1] /\ i + 1 \in 1 .. k /\ (i > l - 1 => i + 1 > l)
        BY <2>0
      <4> QED BY <2>1, <4>1
    <3> QED BY <3>1, <3>2 DEF BallIsLast, t
  <2> QED BY <2>2, <2>3
<1>5. Free(s, "OX_SYNC_BALL") => ~BallIsLast(s)
  BY DEF Free, BallIsLast
<1> QED BY <1>2, <1>3, <1>4, <1>5

----------------------------------------------------------------------------
(***************************************************************************)
(* A reset of ox_math.  It serves; or it asks, and discards what it reads, *)
(* and its ball is on the way to the client; or the client has answered,   *)
(* and what it discards is older than the answer.                          *)
(***************************************************************************)
TakesBall == spc = "exchanged" \/ (spc = "serial" /\ stag = "OX_SYNC_BALL")

Serving ==
  /\ ~discarding /\ Free(toServer, "OX_SYNC_BALL") /\ wbuf = <<>>
  /\ Above(toServer, givenUp) /\ Above(toClient, givenUp) /\ Above(out, givenUp)
  /\ BallFree /\ ~BallRead

BallHeld == wbuf = SyncBall /\ Free(toServer, "OX_SYNC_BALL") /\ UpTo(toServer, givenUp) /\ ~TakesBall
BallSent == wbuf = <<>> /\ Cut(toServer, givenUp) /\ ~TakesBall
BallTaken == wbuf = <<>> /\ Free(toServer, "OX_SYNC_BALL") /\ Above(toServer, givenUp) /\ TakesBall

Asking ==
  /\ discarding /\ Free(toServer, "OX_SYNC_BALL") /\ wbuf = <<>> /\ ~TakesBall
  /\ Resetting /\ UpTo(out, 0)
  /\ OneBall(out) \/ BallIsLast(toClient) \/ (BallRead /\ UpTo(toClient, 0))

Answered ==
  /\ discarding /\ BallFree /\ ~BallRead /\ UpTo(toClient, 0) /\ UpTo(out, 0)
  /\ BallHeld \/ BallSent \/ BallTaken

MathOK == server = "ox_math" /\ cpc # "gone" => Serving \/ Asking \/ Answered

ServerReads ==
  \/ ServerReadsTag \/ ServerReadsSerial \/ ServerReadsCmo \/ ServerReadsValue \/ ServerReadsCode

\* What ox_math reads is what it expects, and it knows the ball.
LEMMA MathReads ==
  ASSUME StepInvariant, server = "ox_math", ServerReads
  PROVE  /\ toServer # <<>> /\ toServer' = Tail(toServer)
         /\ UNCHANGED <<options, clientVars, toClient, discarding>>
         /\ \/ UNCHANGED out
            \/ ~discarding /\ out' = Data(Head(toServer).of) /\ Head(toServer).word = "SM_popCMO"
         /\ discarding => (TakesBall' <=> Head(toServer).word = "OX_SYNC_BALL" \/ TakesBall)
<1> USE DEF ServerReads, TakesWord, Runs, TakesBall
<1> DEFINE w == Head(toServer).word
<1>0. ~torn /\ toServer \in Seq(WordsTo(nreq)) /\ Parses(PhaseAt(spc, stag), toServer, "tag")
  BY DEF StepInvariant, ServerOK, Grammar, Base, Numbered
<1>1. ASSUME toServer # <<>> PROVE w \in Expected(PhaseAt(spc, stag))
  BY <1>0, <1>1, ParsesFirst
<1>2. MessageDone \in {"check", "tag"}
  BY DEF MessageDone
<1>3. CASE ServerReadsTag
  BY <1>3 DEF ServerReadsTag
<1>4. CASE ServerReadsSerial
  <2>1. w = "serial"
    BY <1>1, <1>4 DEF ServerReadsSerial, PhaseAt, Expected, SerialOf
  <2>2. spc = "serial" /\ (discarding => (spc' = "exchanged" <=> stag = "OX_SYNC_BALL")) /\ spc' # "serial"
    <3>1. CASE stag = "OX_DATA"
      BY <1>4, <3>1 DEF ServerReadsSerial
    <3>2. CASE stag = "OX_COMMAND"
      BY <1>4, <3>2 DEF ServerReadsSerial
    <3>3. CASE stag = "OX_SYNC_BALL" /\ discarding
      BY <1>4, <3>3 DEF ServerReadsSerial
    <3>4. CASE stag \notin {"OX_DATA", "OX_COMMAND"} /\ ~(stag = "OX_SYNC_BALL" /\ discarding)
      <4>1. spc' = MessageDone
        BY <1>4, <3>4 DEF ServerReadsSerial
      <4> QED BY <1>2, <1>4, <3>4, <4>1 DEF ServerReadsSerial
    <3> QED BY <3>1, <3>2, <3>3, <3>4
  <2> QED BY <1>4, <2>1, <2>2 DEF ServerReadsSerial
<1>5. CASE ServerReadsCmo
  <2>1. w = "CMO_INT32"
    BY <1>1, <1>5 DEF ServerReadsCmo, PhaseAt, Expected, Proper
  <2> QED BY <1>2, <1>5, <2>1 DEF ServerReadsCmo
<1>6. CASE ServerReadsValue
  <2>1. w = "value"
    BY <1>1, <1>6 DEF ServerReadsValue, PhaseAt, Expected, Proper
  <2> QED BY <1>2, <1>6, <2>1 DEF ServerReadsValue
<1>7. CASE ServerReadsCode
  <2>1. w \in Commands
    BY <1>1, <1>7 DEF ServerReadsCode, PhaseAt, Expected, Proper
  <2>2. w # "OX_SYNC_BALL"
    BY <2>1 DEF Commands
  <2>3. spc = "code" /\ spc' \in {"write", "execute", MessageDone} /\ toServer # <<>> /\ toServer' = Tail(toServer)
        /\ UNCHANGED <<options, clientVars, toClient, discarding>>
    BY <1>7 DEF ServerReadsCode
  <2>4. UNCHANGED out \/ (~discarding /\ out' = Data(Head(toServer).of) /\ w = "SM_popCMO")
    BY <1>7 DEF ServerReadsCode
  <2>5. ~TakesBall /\ ~TakesBall'
    BY <1>2, <2>3
  <2> HIDE DEF TakesBall
  <2> QED BY <2>2, <2>3, <2>4, <2>5
<1> QED BY <1>3, <1>4, <1>5, <1>6, <1>7

LEMMA InitMath == Init => MathOK
<1> SUFFICES ASSUME Init PROVE Serving
  BY DEF MathOK
<1>1. /\ toServer = <<>> /\ toClient = <<>> /\ out = <<>> /\ wbuf = <<>> /\ ~discarding /\ cpc = "user"
  BY DEF Init
<1>2. Free(<<>>, "OX_SYNC_BALL")
  BY DEF Free
<1> QED BY <1>1, <1>2, NumbersOfNothing DEF Serving, BallFree, BallRead

LEMMA MathServer ==
  ASSUME StepInvariant, Line, MathOK, ServerNext
  PROVE  MathOK'
<1> DEFINE W == WordsTo(nreq)
           h == Head(toServer)
           o == Head(out)
<1>0. /\ nreq \in Nat /\ givenUp \in 0 .. nreq
      /\ toServer \in Seq(W) /\ toClient \in Seq(W) /\ out \in Seq(W) /\ (out # <<>> <=> spc = "write")
      /\ UNCHANGED <<options, clientVars>> /\ ServerOK /\ Base
  BY NumberedBase, ServerOnStreams DEF StepInvariant, Base, ToolkitTypeOK
<1>1. /\ UNCHANGED <<server, cpc, ctag, call, nreq, givenUp, wbuf>>
      /\ (BallRead' <=> BallRead) /\ (Resetting' <=> Resetting)
  BY <1>0 DEF options, clientVars, userVars, BallRead, Resetting
<1> SUFFICES ASSUME server = "ox_math", cpc # "gone" PROVE (Serving \/ Asking \/ Answered)'
  BY <1>1 DEF MathOK
<1>2. (Serving \/ Asking \/ Answered) /\ (NoReset \/ InReset)
  BY <1>0 DEF MathOK, StepInvariant, ServerOK
<1>3. CASE ServerReads
  <2>1. /\ toServer # <<>> /\ toServer' = Tail(toServer) /\ UNCHANGED <<toClient, discarding>>
        /\ \/ UNCHANGED out
           \/ ~discarding /\ out' = Data(h.of) /\ h.word = "SM_popCMO"
        /\ discarding => (TakesBall' <=> h.word = "OX_SYNC_BALL" \/ TakesBall)
    BY <1>3, MathReads
  <2>2. /\ Free(toServer, "OX_SYNC_BALL") => Free(toServer', "OX_SYNC_BALL") /\ h.word # "OX_SYNC_BALL"
        /\ Above(toServer, givenUp) => Above(toServer', givenUp) /\ (h.of = 0 \/ h.of > givenUp)
        /\ UpTo(toServer, givenUp) => UpTo(toServer', givenUp)
        /\ h.of \in 0 .. nreq /\ (h.word = "SM_popCMO" => h.of # 0)
    BY <1>0, <2>1, FreeOf, NumbersOfTail DEF Line
  <2>3. CASE Serving
    <3>1. Above(out', givenUp) /\ Free(out', "OX_SYNC_BALL")
      <4>1. CASE UNCHANGED out
        BY <2>3, <4>1 DEF Serving, BallFree
      <4>2. CASE out' = Data(h.of) /\ h.word = "SM_popCMO"
        <5>1. h.of \in Nat /\ h.of > 0 /\ givenUp < h.of /\ givenUp \in Nat
          BY <1>0, <2>2, <2>3, <4>2 DEF Serving
        <5> QED BY <4>2, <5>1, NumbersOfMessages
      <4> QED BY <2>1, <4>1, <4>2
    <3> QED BY <1>1, <2>1, <2>2, <2>3, <3>1 DEF Serving, BallFree
  <2>4. CASE Asking
    BY <1>1, <2>1, <2>2, <2>4 DEF Asking
  <2>5. CASE Answered
    <3>1. discarding /\ UNCHANGED out
      BY <2>1, <2>5 DEF Answered
    <3>2. BallHeld => BallHeld'
      BY <1>1, <2>1, <2>2, <3>1 DEF BallHeld
    <3>3. BallTaken => BallTaken'
      BY <1>1, <2>1, <2>2, <3>1 DEF BallTaken
    <3>4. BallSent => BallSent' \/ BallTaken'
      BY <1>0, <1>1, <2>1, <3>1, CutTail DEF BallSent, BallTaken
    <3> QED BY <1>1, <2>1, <2>5, <3>1, <3>2, <3>3, <3>4 DEF Answered, BallFree
  <2> QED BY <1>2, <2>3, <2>4, <2>5
<1>4. CASE ServerWrites
  <2>1. /\ spc = "write" /\ spc' \in {"write", "check", "tag"} /\ UNCHANGED <<toServer, discarding>>
        /\ toClient' = Append(toClient, o) /\ out' = Tail(out)
    BY <1>4 DEF ServerWrites, Runs, MessageDone
  <2>2. ~TakesBall /\ ~TakesBall'
    BY <2>1 DEF TakesBall
  <2>3. out # <<>> /\ o \in W /\ o.of \in 0 .. nreq
    BY <1>0, <2>1, NumbersOfTail
  <2>4. /\ Above(out, givenUp) => Above(out', givenUp) /\ (o.of = 0 \/ o.of > givenUp)
        /\ UpTo(out, 0) => UpTo(out', 0) /\ o.of = 0
        /\ Free(out, "OX_SYNC_BALL") => Free(out', "OX_SYNC_BALL") /\ o.word # "OX_SYNC_BALL"
        /\ OneBall(out) => o.word = "OX_SYNC_BALL" \/ OneBall(out')
    <3>1. UpTo(out, 0) => UpTo(out', 0) /\ o.of <= 0
      BY <1>0, <2>1, <2>3, NumbersOfTail
    <3> QED BY <1>0, <2>1, <2>3, <3>1, NumbersOfTail, FreeOf, OneBallOf
  <2>5. CASE Serving
    <3>1. Above(toClient', givenUp) /\ Above(out', givenUp) /\ BallFree'
      BY <1>0, <2>1, <2>3, <2>4, <2>5, NumbersOfAppend, FreeOf DEF Serving, BallFree
    <3> QED BY <1>1, <2>1, <2>5, <3>1 DEF Serving
  <2>6. CASE Asking
    <3>1. UpTo(out', 0) /\ o.of = 0
      BY <2>4, <2>6 DEF Asking
    <3>2. OneBall(out) => OneBall(out') \/ BallIsLast(toClient')
      BY <1>0, <2>1, <2>3, <2>4, LastBall
    <3>3. BallIsLast(toClient) => BallIsLast(toClient')
      BY <1>0, <2>1, <2>3, <3>1, LastBall
    <3>4. UpTo(toClient, 0) => UpTo(toClient', 0)
      BY <1>0, <2>1, <2>3, <3>1, NumbersOfAppend
    <3> QED BY <1>1, <2>1, <2>2, <2>6, <3>1, <3>2, <3>3, <3>4 DEF Asking
  <2>7. CASE Answered
    <3>1. UpTo(out', 0) /\ o.of = 0 /\ o.word # "OX_SYNC_BALL" /\ Free(out', "OX_SYNC_BALL")
      BY <2>4, <2>7 DEF Answered, BallFree
    <3>2. UpTo(toClient', 0) /\ BallFree'
      BY <1>0, <2>1, <2>3, <2>7, <3>1, NumbersOfAppend, FreeOf DEF Answered, BallFree
    <3>3. BallHeld' \/ BallSent'
      BY <1>1, <2>1, <2>2, <2>7 DEF Answered, BallHeld, BallSent, BallTaken
    <3> QED BY <1>1, <2>1, <2>7, <3>1, <3>2, <3>3 DEF Answered
  <2> QED BY <1>2, <2>5, <2>6, <2>7
<1>5. CASE exchange_ox_sync_ball /\ noted
  <2>1. /\ spc = "check" /\ spc' = "write" /\ out' = SyncBall /\ discarding' /\ UNCHANGED <<toServer, toClient>>
    BY <1>5 DEF exchange_ox_sync_ball, Runs
  <2>2. ~discarding
    BY <1>0, <2>1 DEF ServerOK
  <2>3. Serving
    BY <1>2, <2>2 DEF Asking, Answered
  <2>4. Resetting
    BY <1>2, <1>5, <2>2 DEF NoReset, InReset, Quiet
  <2>5. ~TakesBall'
    BY <2>1 DEF TakesBall
  <2>6. OneBall(SyncBall) /\ UpTo(SyncBall, 0)
    BY BallsOfMessages, NumbersOfBall
  <2> QED BY <1>1, <2>1, <2>3, <2>4, <2>5, <2>6 DEF Serving, Asking
<1>6. CASE Exchanged
  <2>1. spc = "exchanged" /\ ~discarding' /\ UNCHANGED <<toServer, toClient, out>>
    BY <1>6 DEF Exchanged, Runs
  <2>2. discarding /\ TakesBall /\ out = <<>>
    BY <1>0, <2>1 DEF ServerOK, TakesBall
  <2>3. Answered /\ BallTaken
    BY <1>2, <2>2 DEF Serving, Asking, Answered, BallHeld, BallSent
  <2>4. Above(toClient, givenUp) /\ Above(out, givenUp)
    <3>1. givenUp \in Nat /\ UpTo(toClient, 0)
      BY <1>0, <2>3 DEF Answered
    <3>2. \A n \in Nat : Above(toClient, n)
      BY <1>0, <3>1, NumbersOfNone
    <3> QED BY <2>2, <3>1, <3>2, NumbersOfNothing
  <2> QED BY <1>1, <2>1, <2>3, <2>4 DEF Serving, Answered, BallTaken, BallFree
<1>7. CASE (exchange_ox_sync_ball /\ ~noted) \/ ExecuteEnds \/ sm_sigunmask \/ EnterSelect \/ SelectReturns \/ sm_sighandler
  <2>1. /\ UNCHANGED <<toServer, toClient, out, discarding, stag>>
        /\ \/ spc' = spc
           \/ spc \notin {"serial", "exchanged"} /\ spc' \notin {"serial", "exchanged"}
    BY <1>7 DEF exchange_ox_sync_ball, ExecuteEnds, sm_sigunmask, EnterSelect, SelectReturns, sm_sighandler, Runs,
       MessageDone
  <2>2. TakesBall' <=> TakesBall
    BY <2>1 DEF TakesBall
  <2> QED BY <1>1, <1>2, <2>1, <2>2 DEF Serving, Asking, Answered, BallHeld, BallSent, BallTaken, BallFree
<1>8. ~ServerReadsEnd /\ ~usr1_handler
  BY DEF ServerReadsEnd, usr1_handler
<1> QED BY <1>3, <1>4, <1>5, <1>6, <1>7, <1>8 DEF ServerNext, ServerStep, MathStep, ServerReads

LEMMA MathClient ==
  ASSUME StepInvariant, Line, MathOK, ClientNext
  PROVE  MathOK'
<1> DEFINE W == WordsTo(nreq)
           h == Head(toClient)
<1>0. /\ nreq \in Nat /\ givenUp \in 0 .. nreq
      /\ toServer \in Seq(W) /\ toClient \in Seq(W) /\ out \in Seq(W) /\ SyncBall \in Seq(W)
      /\ UNCHANGED <<options, serverVars>> /\ ServerOK /\ Base
  BY NumberedBase, ClientOnStreams DEF StepInvariant
<1>1. UNCHANGED <<server, out, discarding, spc, stag>> /\ (TakesBall' <=> TakesBall)
  BY <1>0 DEF options, serverVars, TakesBall
<1> SUFFICES ASSUME server = "ox_math", cpc' # "gone" PROVE (Serving \/ Asking \/ Answered)'
  BY <1>1 DEF MathOK
<1>2. cpc # "gone"
  BY DEF ClientNext, ClientReads, send_ox, OX_get, ox_reset, ClientReadsTag, ClientReadsSerial,
     ClientReadsBall, ClientReadsCmo, ClientReadsValue, ClientExits, ReadsWord
<1>3. (Serving \/ Asking \/ Answered) /\ (NoReset \/ InReset) /\ Grammar
  BY <1>0, <1>2 DEF MathOK, StepInvariant, ServerOK
<1>4. CASE ClientSends
  <2> DEFINE n == nreq + 1
             V == WordsTo(n)
  <2>1. PICK w : WriteAndFlush(w) /\ (w = Data(n) \/ \E code \in Commands : w = Command(code, n))
    BY <1>4 DEF ClientSends, Commands
  <2>2. /\ toServer' = (toServer \o wbuf) \o w /\ wbuf' = <<>>
        /\ UNCHANGED <<toClient, givenUp, call, cpc, ctag>> /\ cpc = "user"
    BY <1>4, <2>1 DEF WriteAndFlush, ClientSends
  <2>3. n \in Nat /\ n > 0 /\ givenUp \in Nat /\ givenUp < n
    BY <1>0
  <2>4. toServer \in Seq(V) /\ wbuf \in Seq(V) /\ w \in Seq(V) /\ toServer \o wbuf \in Seq(V)
    <3>1. toServer \in Seq(V) /\ wbuf \in Seq(V)
      BY <1>0, <2>3, NumberedBase, WordsGrow
    <3>2. n \in 0 .. n
      BY <2>3
    <3> QED BY <2>1, <2>3, <3>1, <3>2, WholeMessages, Joined
  <2> HIDE DEF n
  <2>5. Above(w, givenUp) /\ Free(w, "OX_SYNC_BALL")
    BY <2>1, <2>3, NumbersOfMessages
  <2>6. ASSUME wbuf = <<>> PROVE toServer' = toServer \o w
    <3>1. toServer \o <<>> = toServer
      BY <2>4
    <3> QED BY <2>2, <2>6, <3>1
  <2> HIDE DEF V
  <2>7. CASE Serving
    <3>1. Free(toServer', "OX_SYNC_BALL") /\ Above(toServer', givenUp)
      BY <2>3, <2>4, <2>5, <2>6, <2>7, NumbersOfBoth DEF Serving, V
    <3> QED BY <1>1, <2>2, <2>7, <3>1 DEF Serving, BallFree, BallRead
  <2>8. ~Asking
    BY <2>2 DEF Asking, Resetting, Reading
  <2>9. CASE Answered
    <3>1. BallHeld => BallSent'
      <4>1. ASSUME BallHeld PROVE Cut(toServer \o SyncBall, givenUp)
        BY <1>0, <4>1, CutByBall DEF BallHeld
      <4>2. ASSUME BallHeld PROVE Cut(toServer', givenUp)
        BY <2>2, <2>3, <2>4, <2>5, <4>1, <4>2, CutLengthened DEF BallHeld, V
      <4> QED BY <1>1, <2>2, <4>2 DEF BallHeld, BallSent
    <3>2. BallSent => BallSent'
      <4>1. ASSUME BallSent PROVE Cut(toServer', givenUp)
        BY <2>3, <2>4, <2>5, <2>6, <4>1, CutLengthened DEF BallSent, V
      <4> QED BY <1>1, <2>2, <4>1 DEF BallSent
    <3>3. BallTaken => BallTaken'
      <4>1. ASSUME BallTaken PROVE Free(toServer', "OX_SYNC_BALL") /\ Above(toServer', givenUp)
        BY <2>3, <2>4, <2>5, <2>6, <4>1, NumbersOfBoth DEF BallTaken, V
      <4> QED BY <1>1, <2>2, <4>1 DEF BallTaken
    <3> QED BY <1>1, <2>2, <2>9, <3>1, <3>2, <3>3 DEF Answered, BallFree, BallRead
  <2> QED BY <1>3, <2>7, <2>8, <2>9
<1>5. CASE ClientTakes
  <2>1. /\ cpc \in Reading /\ toClient # <<>> /\ toClient' = Tail(toClient)
        /\ UNCHANGED <<toServer, wbuf, nreq, givenUp, call>>
        /\ cpc = "tag" => ctag' = h.word /\ cpc' = "serial"
        /\ cpc # "tag" => cpc' # "serial"
        /\ call = "ox_reset" => cpc' \in Reading /\ ~BallRead
    BY <1>5 DEF ClientTakes
  <2>2. h.word # "OX_SYNC_BALL" => ~BallRead'
    BY <2>1 DEF BallRead
  <2>3. h.word = "OX_SYNC_BALL" => BallRead'
    <3>1. PICK m \in Phases : Parses(PhaseAt(cpc, ctag), toClient, m)
      BY <1>3 DEF Grammar
    <3>2. h.word \in Expected(PhaseAt(cpc, ctag))
      BY <1>0, <2>1, <3>1, ParsesFirst
    <3>3. cpc # "tag" => h.word # "OX_SYNC_BALL"
      BY <2>1, <3>2 DEF Reading, PhaseAt, Expected, Proper, SerialOf
    <3> QED BY <2>1, <3>3 DEF BallRead
  <2>4. CASE Serving
    <3>1. Above(toClient', givenUp) /\ BallFree' /\ ~BallRead'
      BY <1>0, <1>1, <2>1, <2>2, <2>4, NumbersOfTail, FreeOf DEF Serving, BallFree
    <3> QED BY <1>1, <2>1, <2>4, <3>1 DEF Serving
  <2>5. CASE Asking
    <3>1. ~BallRead /\ Resetting'
      BY <2>1, <2>5 DEF Asking, Resetting
    <3>2. BallIsLast(toClient) => BallIsLast(toClient') \/ (h.word = "OX_SYNC_BALL" /\ UpTo(toClient', 0))
      BY <1>0, <2>1, LastBall
    <3> QED BY <1>1, <2>1, <2>3, <2>5, <3>1, <3>2 DEF Asking
  <2>6. CASE Answered
    <3>1. UpTo(toClient', 0) /\ BallFree' /\ ~BallRead'
      BY <1>0, <1>1, <2>1, <2>2, <2>6, NumbersOfTail, FreeOf DEF Answered, BallFree
    <3> QED BY <1>1, <2>1, <2>6, <3>1 DEF Answered, BallHeld, BallSent, BallTaken
  <2> QED BY <1>3, <2>4, <2>5, <2>6
<1>6. CASE ClientSendsBall
  <2>1. /\ BallRead /\ cpc' = "user" /\ toClient # <<>> /\ toClient' = Tail(toClient)
        /\ WriteOnly(SyncBall) /\ givenUp' = nreq /\ cpc = "serial"
    BY <1>6 DEF ClientSendsBall, BallRead
  <2>2. Asking
    BY <1>3, <2>1 DEF Serving, Answered
  <2>3. BallFree
    BY <1>3, <2>1 DEF NoReset, InReset
  <2>4. UpTo(toClient, 0)
    <3>1. ~OneBall(out)
      BY <2>3 DEF BallFree, Free, OneBall
    <3>2. ~BallIsLast(toClient)
      BY <1>0, <2>3, LastBall DEF BallFree
    <3> QED BY <2>2, <3>1, <3>2 DEF Asking
  <2>5. UpTo(toClient', 0) /\ BallFree' /\ ~BallRead'
    BY <1>0, <1>1, <2>1, <2>3, <2>4, NumbersOfTail, FreeOf DEF BallFree, BallRead
  <2>6. UpTo(toServer, nreq)
    BY <1>0, NumbersGiven
  <2>7. BallHeld' \/ BallSent'
    <3>1. CASE wbuf' = wbuf \o SyncBall /\ UNCHANGED toServer
      <4>1. wbuf' = SyncBall
        BY <1>0, <2>2, <3>1 DEF Asking
      <4> QED BY <1>1, <2>1, <2>2, <2>6, <3>1, <4>1 DEF Asking, BallHeld
    <3>2. CASE toServer' = toServer \o SyncBall /\ UNCHANGED wbuf
      <4>1. Cut(toServer', nreq)
        BY <1>0, <2>2, <2>6, <3>2, CutByBall DEF Asking
      <4> QED BY <1>1, <2>1, <2>2, <3>2, <4>1 DEF Asking, BallSent
    <3> QED BY <2>1, <3>1, <3>2 DEF WriteOnly
  <2> QED BY <1>1, <2>2, <2>5, <2>7 DEF Asking, Answered
<1>7. CASE OX_get \/ ox_reset
  <2>1. UNCHANGED <<toServer, toClient, wbuf, givenUp>> /\ cpc = "user" /\ cpc' = "tag"
    BY <1>7 DEF OX_get, ox_reset, userVars
  <2>2. ~Asking /\ ~BallRead'
    BY <2>1 DEF Asking, Resetting, Reading, BallRead
  <2> QED BY <1>1, <1>3, <2>1, <2>2 DEF Serving, Answered, BallHeld, BallSent, BallTaken, BallFree
<1>8. ~ClientExits
  BY DEF ClientExits
<1> QED BY <1>4, <1>5, <1>6, <1>7, <1>8, ClientOnStreams, <1>0

LEMMA MathInductive == StepInvariant /\ Line /\ MathOK /\ [Next]_vars => MathOK'
<1>1. ASSUME MathOK, UNCHANGED vars PROVE MathOK'
  BY <1>1 DEF MathOK, Serving, Asking, Answered, BallHeld, BallSent, BallTaken, TakesBall, BallFree, BallRead,
     Resetting, vars, options, clientVars, userVars, serverVars
<1> QED BY <1>1, MathServer, MathClient DEF Next

----------------------------------------------------------------------------
(***************************************************************************)
(* The pops under way and those that OX_get has not answered.  What it has *)
(* not answered is under way; with ox_math what is under way, and not      *)
(* given up by a reset, it has not answered.                               *)
(***************************************************************************)
UnderWay(n) == Has(toClient, "value", n) \/ Has(out, "value", n) \/ Has(toServer, "SM_popCMO", n)
Among(s, n) == \E i \in 1 .. Len(s) : s[i] = n

Coming == ~torn /\ cpc # "gone" /\ ~Resetting =>
            \A n \in 1 .. MaxRequests : Among(awaited, n) => UnderWay(n)
Owed == server = "ox_math" /\ cpc # "gone" =>
            \A n \in 1 .. MaxRequests : UnderWay(n) /\ n > givenUp => Among(awaited, n)

LEMMA AmongTail ==
  ASSUME Base, AwaitedOK, NEW n \in Nat
  PROVE  /\ Among(awaited, n) => n > givenUp
         /\ awaited # <<>> =>
              /\ Head(awaited) \in 1 .. MaxRequests /\ Among(awaited, Head(awaited))
              /\ Among(awaited, n) <=> n = Head(awaited) \/ Among(Tail(awaited), n)
              /\ Among(Tail(awaited), n) => n > Head(awaited)
         /\ \A k : Among(Append(awaited, k), n) <=> Among(awaited, n) \/ n = k
<1>1. Among(awaited, n) => n > givenUp
  BY DEF Among, AwaitedOK
<1>2. ASSUME NEW k PROVE Among(Append(awaited, k), n) <=> Among(awaited, n) \/ n = k
  <2> DEFINE l == Len(awaited)
             a == Append(awaited, k)
  <2>1. l \in Nat /\ Len(a) = l + 1 /\ a[l + 1] = k /\ (\A i \in 1 .. l : a[i] = awaited[i]) /\ l + 1 \in 1 .. l + 1
    BY NumberedBase
  <2>2. \A i \in 1 .. l + 1 : i \in 1 .. l \/ i = l + 1
    BY <2>1
  <2>3. \A i \in 1 .. l : i \in 1 .. l + 1
    BY <2>1
  <2> HIDE DEF a
  <2>4. Among(a, n) <=> Among(awaited, n) \/ n = k
    BY <2>1, <2>2, <2>3 DEF Among
  <2> QED BY <2>4 DEF a
<1>3. ASSUME awaited # <<>>
      PROVE  /\ Head(awaited) \in 1 .. MaxRequests /\ Among(awaited, Head(awaited))
             /\ Among(awaited, n) <=> n = Head(awaited) \/ Among(Tail(awaited), n)
             /\ Among(Tail(awaited), n) => n > Head(awaited)
  <2> DEFINE t == Tail(awaited)
             l == Len(awaited)
  <2>1. /\ l \in Nat /\ l > 0 /\ Len(t) = l - 1 /\ Head(awaited) = awaited[1] /\ 1 \in 1 .. l
        /\ awaited[1] \in 1 .. MaxRequests
        /\ \A i \in 1 .. l - 1 : t[i] = awaited[i + 1] /\ i + 1 \in 1 .. l
        /\ \A i \in 1 .. l : i = 1 \/ i - 1 \in 1 .. l - 1
    <3>1. awaited \in Seq(1 .. MaxRequests) /\ awaited # <<>>
      BY <1>3, NumberedBase
    <3>2. /\ l \in Nat /\ l > 0 /\ Len(t) = l - 1 /\ Head(awaited) = awaited[1]
          /\ awaited[1] \in 1 .. MaxRequests
          /\ \A i \in 1 .. l - 1 : t[i] = awaited[i + 1] /\ i + 1 \in 1 .. l
      BY <3>1, TailIs
    <3> HIDE DEF t, l
    <3>3. 1 \in 1 .. l /\ \A i \in 1 .. l : i = 1 \/ i - 1 \in 1 .. l - 1
      BY <3>2
    <3> QED BY <3>2, <3>3
  <2>2. \A i \in 1 .. Len(t) : t[i] > Head(awaited)
    BY <1>3, AwaitedTail
  <2> HIDE DEF t
  <2>3. Among(awaited, n) <=> n = Head(awaited) \/ Among(t, n)
    <3>1. ASSUME NEW i \in 1 .. l, awaited[i] = n PROVE n = Head(awaited) \/ Among(t, n)
      <4>1. CASE i = 1
        BY <2>1, <3>1, <4>1
      <4>2. CASE i - 1 \in 1 .. l - 1
        <5>1. t[i - 1] = awaited[i]
          BY <2>1, <3>1, <4>2
        <5> QED BY <2>1, <3>1, <4>2, <5>1 DEF Among
      <4> QED BY <2>1, <3>1, <4>1, <4>2
    <3>2. Among(t, n) => Among(awaited, n)
      BY <2>1 DEF Among
    <3>3. Among(awaited, Head(awaited))
      BY <2>1 DEF Among
    <3> QED BY <3>1, <3>2, <3>3 DEF Among
  <2>4. Among(t, n) => n > Head(awaited)
    BY <2>2 DEF Among
  <2>5. Among(awaited, Head(awaited))
    BY <2>1 DEF Among
  <2> QED BY <2>1, <2>3, <2>4, <2>5 DEF t
<1> QED BY <1>1, <1>2, <1>3

LEMMA FirstIsLeast ==
  ASSUME Base, Line, toClient # <<>>, NEW n \in 1 .. MaxRequests
  PROVE  /\ UnderWay(n) => Head(toClient).of <= n
         /\ Has(Tail(toClient), "value", n) \/ Has(out, "value", n) \/ Has(toServer, "SM_popCMO", n) =>
              Head(toClient).of < n
<1> DEFINE v == Head(toClient).of
<1>0. /\ nreq \in Nat /\ toClient \in Seq(WordsTo(nreq)) /\ MaxRequests \in Nat /\ n > 0 /\ n \in Nat
  BY NumberedBase
<1>1. /\ v \in 0 .. nreq /\ Above(Tail(toClient), v) /\ Above(out, v) /\ Above(toServer, v)
      /\ Has(toClient, "value", n) => v = n \/ Has(Tail(toClient), "value", n)
  BY <1>0, NumbersOfTail DEF Line
<1>2. \A s, w : Above(s, v) /\ Has(s, w, n) => v < n
  BY <1>0, <1>1 DEF Above, Has
<1>3. Has(Tail(toClient), "value", n) \/ Has(out, "value", n) \/ Has(toServer, "SM_popCMO", n) => v < n
  BY <1>1, <1>2
<1> QED BY <1>0, <1>1, <1>3 DEF UnderWay

\* A server loses no pop, except where it discards it.
LEMMA UnderWayServer ==
  ASSUME StepInvariant, Line, ServerNext, ~torn, ~torn', NEW n \in 1 .. MaxRequests
  PROVE  /\ UnderWay(n)' => UnderWay(n)
         /\ UnderWay(n) =>
              \/ UnderWay(n)'
              \/ discarding /\ spc = "code" /\ toServer # <<>> /\ Head(toServer) = Of("SM_popCMO", n)
<1> DEFINE W == WordsTo(nreq)
           h == Head(toServer)
           o == Head(out)
<1>0. /\ nreq \in Nat /\ toServer \in Seq(W) /\ toClient \in Seq(W) /\ out \in Seq(W)
      /\ Parses(PhaseAt(spc, stag), toServer, "tag") /\ MaxRequests \in Nat
  BY NumberedBase DEF StepInvariant, Grammar
<1>1. CASE UNCHANGED Streams
  BY <1>1 DEF UnderWay, Streams
<1>2. CASE ServerTakes
  <2>1. /\ toServer # <<>> /\ toServer' = Tail(toServer) /\ UNCHANGED <<toClient, out>> /\ spc \in Codes
        /\ spc = "code" /\ h.word = "SM_popCMO" => discarding
    BY <1>2 DEF ServerTakes
  <2>2. Has(toServer, "SM_popCMO", n) <=> (h.word = "SM_popCMO" /\ h.of = n) \/ Has(toServer', "SM_popCMO", n)
    BY <1>0, <2>1, NumbersOfTail
  <2>3. h.word = "SM_popCMO" => spc = "code"
    <3>1. h.word \in Expected(PhaseAt(spc, stag))
      BY <1>0, <2>1, ParsesFirst
    <3> QED BY <2>1, <3>1 DEF Codes, PhaseAt, Expected, Proper, SerialOf, OxTags
  <2>4. h.word = "SM_popCMO" /\ h.of = n => h = Of("SM_popCMO", n)
    <3>1. h \in W
      BY <1>0, <2>1, NumbersOfTail
    <3> QED BY <3>1 DEF WordsTo, Of
  <2> QED BY <2>1, <2>2, <2>3, <2>4 DEF UnderWay
<1>3. CASE ServerTakesPop
  <2>1. /\ toServer # <<>> /\ toServer' = Tail(toServer) /\ UNCHANGED toClient
        /\ h.word = "SM_popCMO" /\ out = <<>> /\ out' = Data(h.of)
    BY <1>3 DEF ServerTakesPop
  <2>2. /\ Has(toServer, "SM_popCMO", n) <=> h.of = n \/ Has(toServer', "SM_popCMO", n)
        /\ h.of \in 0 .. nreq /\ h.of # 0
    BY <1>0, <2>1, NumbersOfTail DEF Line
  <2>3. Has(out', "value", n) <=> n = h.of
    <3>1. h.of \in Nat /\ h.of > 0
      BY <2>2
    <3> QED BY <2>1, <3>1, NumbersOfMessages
  <2>4. ~Has(out, "value", n)
    BY <2>1, NumbersOfNothing
  <2> QED BY <2>1, <2>2, <2>3, <2>4 DEF UnderWay
<1>4. CASE ServerPutsWord
  <2>1. /\ out # <<>> /\ out' = Tail(out) /\ toClient' = Append(toClient, o) /\ UNCHANGED toServer
    BY <1>4 DEF ServerPutsWord
  <2>2. /\ o \in W
        /\ Has(out, "value", n) <=> (o.word = "value" /\ o.of = n) \/ Has(out', "value", n)
    BY <1>0, <2>1, NumbersOfTail
  <2>3. Has(toClient', "value", n) <=> Has(toClient, "value", n) \/ (o.word = "value" /\ o.of = n)
    BY <1>0, <2>1, <2>2, NumbersOfAppend
  <2> QED BY <2>1, <2>2, <2>3 DEF UnderWay
<1>5. CASE ServerHasBall
  <2>1. out' = SyncBall /\ UNCHANGED <<toServer, toClient>> /\ out = <<>>
    BY <1>5 DEF ServerHasBall
  <2>2. ~Has(out, "value", n) /\ ~Has(out', "value", n)
    BY <2>1, NumbersOfNothing, NumbersOfBall
  <2> QED BY <2>1, <2>2 DEF UnderWay
<1> QED BY <1>1, <1>2, <1>3, <1>4, <1>5, ServerOnStreams DEF StepInvariant

PopsInvariant == StepInvariant /\ Line /\ AwaitedOK /\ MathOK /\ Coming /\ Owed

\* What OX_get returns.
LEMMA Answer ==
  ASSUME PopsInvariant, ClientTakes, Get, ~torn
  PROVE  /\ last' > last /\ last' <= Head(awaited)
         /\ server = "ox_math" => last' = Head(awaited)
<1> DEFINE v == Head(toClient).of
           h == Head(awaited)
<1>0. /\ Base /\ Line /\ AwaitedOK /\ toClient # <<>> /\ last' = v /\ cpc = "value" /\ call = "OX_get"
      /\ ~Resetting /\ nreq \in Nat /\ toClient \in Seq(WordsTo(nreq)) /\ givenUp \in 0 .. nreq /\ last \in 0 .. nreq
      /\ MaxRequests \in Nat /\ nreq <= MaxRequests
  BY NumberedBase DEF PopsInvariant, StepInvariant, ClientTakes, Get, Resetting, Base, ToolkitTypeOK
<1>1. Head(toClient).word = "value"
  <2>1. PICK m \in Phases : Parses(PhaseAt(cpc, ctag), toClient, m)
    BY DEF PopsInvariant, StepInvariant, Grammar
  <2>2. Head(toClient).word \in Expected(PhaseAt(cpc, ctag))
    BY <1>0, <2>1, ParsesFirst
  <2> QED BY <1>0, <2>2 DEF PhaseAt, Expected, Proper
<1>2. v \in 0 .. nreq /\ v # 0 /\ v > last
  BY <1>0, <1>1, NumbersOfTail DEF Line
<1>3. awaited # <<>>
  BY <1>0 DEF Base, Awaits, Reading
<1>4. h \in 1 .. MaxRequests /\ Among(awaited, h)
  BY <1>0, <1>3, AmongTail
<1>5. v <= h
  <2>1. UnderWay(h)
    BY <1>0, <1>4 DEF PopsInvariant, Coming
  <2> QED BY <1>0, <1>4, <2>1, FirstIsLeast
<1>6. ASSUME server = "ox_math" PROVE v = h
  <2>1. v > givenUp
    <3>1. CASE Serving
      BY <1>0, <1>2, <3>1, NumbersOfTail DEF Serving
    <3>2. ~Asking
      BY <1>0 DEF Asking
    <3>3. ~Answered
      <4>1. UpTo(toClient, 0) => v <= 0
        BY <1>0, NumbersOfTail
      <4> QED BY <1>2, <4>1 DEF Answered
    <3> QED BY <1>0, <1>6, <3>1, <3>2, <3>3 DEF PopsInvariant, MathOK
  <2>2. UnderWay(v)
    BY <1>0, <1>1, NumbersOfTail DEF UnderWay
  <2>3. v \in 1 .. MaxRequests
    BY <1>0, <1>2
  <2>4. Among(awaited, v)
    BY <1>0, <1>6, <2>1, <2>2, <2>3 DEF PopsInvariant, Owed
  <2>5. v = h \/ v > h
    BY <1>0, <1>3, <2>3, <2>4, AmongTail
  <2> QED BY <1>2, <1>4, <1>5, <2>5
<1> QED BY <1>0, <1>2, <1>5, <1>6

LEMMA PopsServer ==
  ASSUME PopsInvariant, ServerNext
  PROVE  Coming' /\ Owed'
<1>0. /\ StepInvariant /\ Line /\ AwaitedOK /\ MathOK /\ Coming /\ Owed /\ Base /\ ServerOK
      /\ UNCHANGED <<options, clientVars>> /\ Base' /\ ServerOK'
  BY ServerOnStreams, StepInductive DEF PopsInvariant, StepInvariant, Next
<1>1. /\ UNCHANGED <<server, cpc, awaited, givenUp>> /\ (Resetting' <=> Resetting)
  BY <1>0 DEF options, clientVars, userVars, Resetting
<1>2. ~torn' => ~torn
  BY DEF ServerNext, ServerStep, ServerReadsTag, ServerReadsSerial, ServerReadsCmo, ServerReadsValue,
     ServerReadsCode, ServerWrites, ServerReadsEnd, ExecuteEnds, MathStep, sm_sigunmask, EnterSelect,
     SelectReturns, exchange_ox_sync_ball, Exchanged, sm_sighandler, usr1_handler
<1>3. Coming'
  <2> SUFFICES ASSUME ~torn', cpc # "gone", ~Resetting, NEW n \in 1 .. MaxRequests, Among(awaited, n)
               PROVE  UnderWay(n)'
    BY <1>1 DEF Coming
  <2>1. UnderWay(n) /\ ~torn
    BY <1>0, <1>2 DEF Coming
  <2>2. ASSUME discarding, spc = "code", toServer # <<>>, Head(toServer) = Of("SM_popCMO", n) PROVE FALSE
    <3>1. server = "ox_math"
      BY <1>0, <2>2 DEF ServerOK
    <3>2. Answered /\ ~TakesBall
      BY <1>0, <2>2, <3>1 DEF MathOK, Serving, Asking, TakesBall
    <3>3. Head(toServer).of = n /\ Head(toServer).word # "OX_SYNC_BALL"
      BY <2>2 DEF Of
    <3>4. nreq \in Nat /\ toServer \in Seq(WordsTo(nreq)) /\ MaxRequests \in Nat /\ givenUp \in 0 .. nreq
      BY <1>0, NumberedBase
    <3>5. n <= givenUp
      <4>1. CASE BallHeld
        BY <2>2, <3>3, <3>4, <4>1, NumbersOfTail DEF BallHeld
      <4>2. CASE BallSent
        BY <2>2, <3>3, <3>4, <4>2, CutTail DEF BallSent
      <4> QED BY <3>2, <4>1, <4>2 DEF Answered, BallTaken
    <3>6. n > givenUp
      BY <1>0, <3>4, AmongTail
    <3> QED BY <3>4, <3>5, <3>6
  <2> QED BY <1>0, <2>1, <2>2, UnderWayServer
<1>4. Owed'
  <2> SUFFICES ASSUME server = "ox_math", cpc # "gone", NEW n \in 1 .. MaxRequests, UnderWay(n)', n > givenUp
               PROVE  Among(awaited, n)
    BY <1>1 DEF Owed
  <2>1. ~torn /\ ~torn'
    BY <1>0, <1>1 DEF ServerOK
  <2>2. UnderWay(n)
    BY <1>0, <2>1, UnderWayServer
  <2> QED BY <1>0, <2>2 DEF Owed
<1> QED BY <1>3, <1>4

LEMMA PopsClient ==
  ASSUME PopsInvariant, ClientNext
  PROVE  Coming' /\ Owed'
<1> DEFINE W == WordsTo(nreq)
           h == Head(toClient)
<1>0. /\ StepInvariant /\ Line /\ AwaitedOK /\ Coming /\ Owed /\ Base /\ ServerOK
      /\ nreq \in Nat /\ givenUp \in 0 .. nreq /\ MaxRequests \in Nat
      /\ toServer \in Seq(W) /\ toClient \in Seq(W) /\ out \in Seq(W) /\ wbuf \in Seq(W)
      /\ UNCHANGED <<options, serverVars>>
  BY NumberedBase, ClientOnStreams DEF PopsInvariant, StepInvariant
<1>1. UNCHANGED <<server, out, torn>> /\ (server = "ox_math" => ~torn)
  BY <1>0 DEF options, serverVars, ServerOK
<1>2. cpc # "gone"
  BY DEF ClientNext, ClientReads, send_ox, OX_get, ox_reset, ClientReadsTag, ClientReadsSerial,
     ClientReadsBall, ClientReadsCmo, ClientReadsValue, ClientExits, ReadsWord
<1>3. CASE ClientSends
  <2> DEFINE k == nreq + 1
             V == WordsTo(k)
  <2>1. PICK w : /\ WriteAndFlush(w) /\ (w = Data(k) \/ \E code \in Commands : w = Command(code, k))
                 /\ IF w = Command("SM_popCMO", k) THEN awaited' = Append(awaited, k) ELSE awaited' = awaited
    <3>1. Data(k) # Command("SM_popCMO", k) /\ Command("SM_execute", k) # Command("SM_popCMO", k)
      BY DEF Data, Command, Of, Word
    <3> QED BY <1>3, <3>1 DEF ClientSends, Commands
  <2>2. /\ toServer' = (toServer \o wbuf) \o w /\ UNCHANGED <<toClient, givenUp, call, cpc>> /\ cpc = "user"
    BY <1>3, <2>1 DEF WriteAndFlush, ClientSends
  <2>3. k \in Nat /\ k > 0
    BY <1>0
  <2>4. toServer \in Seq(V) /\ wbuf \in Seq(V) /\ w \in Seq(V) /\ toServer \o wbuf \in Seq(V)
    <3>1. toServer \in Seq(V) /\ wbuf \in Seq(V)
      BY <1>0, <2>3, WordsGrow
    <3>2. k \in 0 .. k
      BY <2>3
    <3> QED BY <2>1, <2>3, <3>1, <3>2, WholeMessages, Joined
  <2> HIDE DEF k
  <2>5. ASSUME NEW n \in 1 .. MaxRequests
        PROVE  /\ UnderWay(n)' <=> UnderWay(n) \/ (n = k /\ w = Command("SM_popCMO", k))
               /\ Among(awaited', n) <=> Among(awaited, n) \/ (n = k /\ w = Command("SM_popCMO", k))
    <3>1. Has(toServer', "SM_popCMO", n) <=>
            \/ Has(toServer, "SM_popCMO", n) \/ Has(wbuf, "SM_popCMO", n) \/ Has(w, "SM_popCMO", n)
      BY <2>2, <2>3, <2>4, NumbersOfBoth
    <3>2. Has(w, "SM_popCMO", n) <=> n = k /\ w = Command("SM_popCMO", k)
      BY <2>1, <2>3, NumbersOfMessages
    <3>3. ~Has(wbuf, "SM_popCMO", n)
      BY <1>0 DEF Line, UpTo, Has
    <3>4. UnderWay(n)' <=> UnderWay(n) \/ (n = k /\ w = Command("SM_popCMO", k))
      BY <1>1, <2>2, <3>1, <3>2, <3>3 DEF UnderWay
    <3>5. n \in Nat
      BY <1>0
    <3> QED BY <1>0, <2>1, <3>4, <3>5, AmongTail
  <2>6. ~Resetting /\ ~Resetting'
    BY <2>2 DEF Resetting, Reading
  <2> QED BY <1>0, <1>1, <1>2, <2>2, <2>5, <2>6 DEF Coming, Owed
<1>4. CASE ClientTakes
  <2>1. /\ cpc \in Reading /\ toClient # <<>> /\ toClient' = Tail(toClient)
        /\ UNCHANGED <<toServer, givenUp, call>> /\ cpc' \in Reading \cup {"user"}
        /\ call = "ox_reset" => cpc' \in Reading
        /\ cpc = "value" /\ call = "OX_get" => Get
        /\ IF Get THEN last' = h.of /\ awaited' = Tail(awaited)
                  ELSE \/ awaited' = awaited
                       \/ call = "OX_get" /\ cpc = "cmo" /\ h.word # "CMO_INT32" /\ awaited' = Tail(awaited)
    BY <1>4 DEF ClientTakes
  <2>2. ~torn => /\ h.word = "value" <=> cpc = "value"
                 /\ cpc = "cmo" => h.word = "CMO_INT32"
    <3> SUFFICES ASSUME ~torn PROVE (h.word = "value" <=> cpc = "value") /\ (cpc = "cmo" => h.word = "CMO_INT32")
      OBVIOUS
    <3>1. PICK m \in Phases : Parses(PhaseAt(cpc, ctag), toClient, m)
      BY <1>0 DEF StepInvariant, Grammar
    <3>2. h.word \in Expected(PhaseAt(cpc, ctag))
      BY <1>0, <2>1, <3>1, ParsesFirst
    <3> QED BY <2>1, <3>2 DEF Reading, PhaseAt, Expected, Proper, SerialOf, OxTags
  <2>3. ASSUME NEW n \in 1 .. MaxRequests
        PROVE  /\ UnderWay(n) <=> (h.word = "value" /\ h.of = n) \/ UnderWay(n)'
               /\ UnderWay(n)' => h.of < n
    <3>1. Has(toClient, "value", n) <=> (h.word = "value" /\ h.of = n) \/ Has(toClient', "value", n)
      BY <1>0, <2>1, NumbersOfTail
    <3>2. UnderWay(n) <=> (h.word = "value" /\ h.of = n) \/ UnderWay(n)'
      BY <1>1, <2>1, <3>1 DEF UnderWay
    <3>3. UnderWay(n)' => h.of < n
      BY <1>0, <1>1, <2>1, FirstIsLeast DEF UnderWay
    <3> QED BY <3>2, <3>3
  <2>4. Coming'
    <3> SUFFICES ASSUME ~torn, ~Resetting', NEW n \in 1 .. MaxRequests, Among(awaited', n) PROVE UnderWay(n)'
      BY <1>1 DEF Coming
    <3>1. ~Resetting /\ call # "ox_reset"
      BY <2>1 DEF Resetting
    <3>2. CASE Get
      <4>1. awaited # <<>> /\ awaited' = Tail(awaited) /\ cpc = "value" /\ n \in Nat
        BY <1>0, <2>1, <3>2 DEF Base, Awaits, Get
      <4>2. Among(awaited, n) /\ n > Head(awaited) /\ Head(awaited) \in Nat
        BY <1>0, <4>1, AmongTail
      <4>3. UnderWay(n)
        BY <1>0, <1>2, <3>1, <4>2 DEF Coming
      <4>4. h.of <= Head(awaited)
        BY <1>4, <2>1, <3>2, Answer
      <4>5. h.of \in Nat
        BY <1>0, <2>1, NumbersOfTail
      <4> QED BY <2>3, <4>1, <4>2, <4>3, <4>4, <4>5
    <3>3. CASE ~Get
      <4>1. awaited' = awaited /\ h.word # "value"
        <5>1. call = "OX_get"
          BY <1>0, <3>1 DEF Base, ToolkitTypeOK
        <5> QED BY <2>1, <2>2, <3>3, <5>1
      <4> QED BY <1>0, <1>2, <2>3, <3>1, <4>1 DEF Coming
    <3> QED BY <3>2, <3>3
  <2>5. Owed'
    <3> SUFFICES ASSUME server = "ox_math", NEW n \in 1 .. MaxRequests, UnderWay(n)', n > givenUp
                 PROVE  Among(awaited', n)
      BY <1>1, <2>1 DEF Owed
    <3>1. ~torn /\ Among(awaited, n)
      BY <1>0, <1>1, <1>2, <2>3 DEF Owed
    <3>2. CASE Get
      <4>1. awaited # <<>> /\ awaited' = Tail(awaited) /\ n \in Nat
        BY <1>0, <2>1, <3>2 DEF Base, Awaits, Get, Reading
      <4>2. h.of = Head(awaited)
        BY <1>4, <2>1, <3>1, <3>2, Answer
      <4>3. n # Head(awaited)
        <5>1. h.of < n /\ h.of \in Nat
          BY <1>0, <2>1, <2>3, NumbersOfTail
        <5> QED BY <4>1, <4>2, <5>1
      <4> QED BY <1>0, <3>1, <4>1, <4>3, AmongTail
    <3>3. CASE ~Get
      BY <2>1, <2>2, <3>1, <3>3
    <3> QED BY <3>2, <3>3
  <2> QED BY <2>4, <2>5
<1>5. CASE ClientSendsBall
  <2>1. toClient # <<>> /\ toClient' = Tail(toClient) /\ awaited' = <<>> /\ givenUp' = nreq /\ WriteOnly(SyncBall)
    BY <1>5 DEF ClientSendsBall
  <2>2. \A n : ~Among(awaited', n)
    BY <2>1 DEF Among
  <2>3. toServer' = toServer \/ toServer' = toServer \o SyncBall
    BY <2>1 DEF WriteOnly
  <2>4. ASSUME NEW n \in 1 .. MaxRequests, UnderWay(n)' PROVE n <= nreq
    <3>1. SyncBall \in Seq(W) /\ toServer' \in Seq(W) /\ toClient' \in Seq(W)
      BY <1>0, <2>1, <2>3, NumberedBase, NumbersOfTail, Joined
    <3>2. UpTo(toServer', nreq) /\ UpTo(toClient', nreq) /\ UpTo(out, nreq)
      BY <1>0, <3>1, NumbersGiven
    <3> QED BY <1>1, <2>4, <3>2 DEF UnderWay, Has, UpTo
  <2> QED BY <1>0, <2>1, <2>2, <2>4 DEF Coming, Owed
<1>6. CASE OX_get \/ ox_reset \/ ClientExits
  <2>1. /\ UNCHANGED <<toServer, toClient, awaited, givenUp>> /\ cpc = "user"
        /\ cpc' = "tag" \/ cpc' = "gone"
    BY <1>6 DEF OX_get, ox_reset, ClientExits, userVars
  <2>2. ~Resetting
    BY <2>1 DEF Resetting, Reading
  <2> QED BY <1>0, <1>1, <1>2, <2>1, <2>2 DEF Coming, Owed, UnderWay
<1> QED BY <1>0, <1>3, <1>4, <1>5, <1>6, ClientOnStreams

LEMMA PopsInductive == PopsInvariant /\ [Next]_vars => PopsInvariant'
<1> SUFFICES ASSUME PopsInvariant, [Next]_vars PROVE PopsInvariant'
  OBVIOUS
<1>1. StepInvariant' /\ Line' /\ AwaitedOK' /\ MathOK'
  BY StepInductive, LineInductive, AwaitedInductive, MathInductive DEF PopsInvariant, StepInvariant
<1>2. Coming' /\ Owed'
  <2>1. ASSUME UNCHANGED vars PROVE Coming' /\ Owed'
    BY <2>1 DEF PopsInvariant, Coming, Owed, UnderWay, Resetting, vars, options, clientVars, userVars, serverVars
  <2> QED BY <2>1, PopsServer, PopsClient DEF Next
<1> QED BY <1>1, <1>2 DEF PopsInvariant

LEMMA InitPops == Init => PopsInvariant
<1> SUFFICES ASSUME Init PROVE PopsInvariant
  OBVIOUS
<1>1. StepInvariant /\ Line /\ MathOK
  BY InitStep, InitLine, InitMath
<1>2. awaited = <<>> /\ toClient = <<>> /\ out = <<>> /\ toServer = <<>>
  BY DEF Init
<1>3. AwaitedOK /\ \A n : ~Among(awaited, n)
  BY <1>2 DEF AwaitedOK, Among
<1>4. \A n : ~UnderWay(n)
  BY <1>2, NumbersOfNothing DEF UnderWay
<1> QED BY <1>1, <1>3, <1>4 DEF PopsInvariant, Coming, Owed

LEMMA EveryAnswer ==
  ASSUME PopsInvariant, [Next]_vars, Get, ~torn
  PROVE  /\ last' > last /\ last' <= Head(awaited)
         /\ server = "ox_math" => last' = Head(awaited)
<1>1. cpc = "value" /\ cpc' = "user"
  BY DEF Get
<1>2. ClientNext
  BY <1>1, ServerOnStreams DEF Next, vars, clientVars, PopsInvariant, StepInvariant
<1>3. ClientTakes
  BY <1>1, <1>2, ClientOnStreams
     DEF PopsInvariant, StepInvariant, ClientSends, ClientSendsBall, BallRead, OX_get, ox_reset, ClientExits
<1> QED BY <1>3, Answer

\* With ox_math an answer that OX_get returns is that to the oldest pop, through any number of
\* requests and of resets, whatever is under way when they are asked for.
THEOREM MathAnswers == Spec => MathAnswersCorrespond
<1>1. PopsInvariant /\ [Next]_vars => [server = "ox_math" => AnswerIsOldest]_vars
  <2> SUFFICES ASSUME PopsInvariant, [Next]_vars, server = "ox_math", Get PROVE last' = Head(awaited)
    BY DEF AnswerIsOldest
  <2> QED BY EveryAnswer DEF PopsInvariant, StepInvariant, ServerOK
<1> QED BY <1>1, InitPops, PopsInductive, PTL DEF Spec, MathAnswersCorrespond

\* Unless a jump has cut a message the answers come in the order of the pops, none of them
\* twice, and none before its turn.
THEOREM JumpAnswersOrdered == Spec => JumpAnswersAscend
<1>1. PopsInvariant /\ [Next]_vars => [~torn /\ Get => last' > last /\ last' <= Head(awaited)]_vars
  BY EveryAnswer
<1> QED BY <1>1, InitPops, PopsInductive, PTL DEF Spec, JumpAnswersAscend

=============================================================================
