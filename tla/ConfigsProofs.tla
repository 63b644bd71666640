--------------------------- MODULE ConfigsProofs ---------------------------
(***************************************************************************)
(* The forwarders of Configs: each open registry has its own, they lose no *)
(* event, and none of them outlives the channel it sends on; and no        *)
(* registry is left open.  For any names, registries and numbers of events.*)
(***************************************************************************)
EXTENDS Configs, SequenceTheorems, FiniteSetTheorems, TLAPS

Shapes ==
    /\ DOMAIN fwd = Registries
    /\ \A r \in Registries : "pc" \in DOMAIN fwd[r] /\ "name" \in DOMAIN fwd[r]
    /\ {"made", "cancelled", "shut"} \subseteq DOMAIN mux

\* The wait of Close ends with no forwarder left, and nothing starts one
\* afterwards; only then is the channel closed.
WaitedFor ==
    /\ closing \in {"chan", "all", "done"} => \A r \in Registries : fwd[r].pc \in {"off", "exit"}
    /\ mux.shut => closing \in {"all", "done"}

NoLateInv == Shapes /\ WaitedFor /\ NoSendOnClosed

\* Names stand for different registries, and the forwarders map has exactly
\* those of watched ones, once Events was called.
Entries ==
    /\ \A n \in DOMAIN byName : byName[n] \in Registries \cap known
    /\ \A n, m \in DOMAIN byName : byName[n] = byName[m] => n = m
    /\ forwarders \subseteq DOMAIN byName
    /\ IF mux.made THEN \A n \in DOMAIN byName : byName[n] \in Watched => n \in forwarders
       ELSE forwarders = {}

ForwardedInv ==
    /\ Shapes
    /\ closing = "no" => Entries /\ ~mux.cancelled
    /\ AllForwarded
-----------------------------------------------------------------------------
LEMMA InitShapes == ConfigsInit => Shapes
<1> SUFFICES ASSUME ConfigsInit PROVE Shapes
  OBVIOUS
<1>1. mux = [made |-> FALSE, cap |-> 0, cancelled |-> FALSE, shut |-> FALSE]
  BY DEF ConfigsInit
<1>2. fwd = [r \in Registries |-> [pc |-> "off", name |-> "", hand |-> 0]]
  BY DEF ConfigsInit, NoForwarder
<1> QED BY <1>1, <1>2 DEF Shapes

LEMMA StartShapes ==
    ASSUME Shapes, NEW reg, startForwarders(reg)
    PROVE  /\ DOMAIN fwd' = Registries
           /\ \A r \in Registries : "pc" \in DOMAIN fwd'[r] /\ "name" \in DOMAIN fwd'[r]
<1> DEFINE new == {n \in DOMAIN reg \ forwarders : reg[n] \in Watched}
           started(r) == [pc |-> "recv", name |-> CHOOSE n \in new : reg[n] = r, hand |-> 0]
<1>1. fwd' = [r \in Registries |-> IF \E n \in new : reg[n] = r THEN started(r) ELSE fwd[r]]
  BY DEF startForwarders
<1>2. ASSUME NEW r \in Registries PROVE "pc" \in DOMAIN started(r) /\ "name" \in DOMAIN started(r)
  OBVIOUS
<1>3. ASSUME NEW r \in Registries PROVE fwd'[r] = started(r) \/ fwd'[r] = fwd[r]
  BY <1>1
<1> HIDE DEF new, started
<1> QED BY <1>1, <1>2, <1>3 DEF Shapes

\* What a forwarder's step does to its own record.
LEMMA ForwardShapes ==
    ASSUME Shapes, NEW r \in Registries, Forward(r)
    PROVE  /\ DOMAIN fwd' = Registries
           /\ \A q \in Registries \ {r} : fwd'[q] = fwd[q]
           /\ "pc" \in DOMAIN fwd'[r] /\ "name" \in DOMAIN fwd'[r]
           /\ fwd[r].pc \in {"recv", "send"}
           /\ \/ fwd'[r].pc \in {"recv", "send"} /\ fwd'[r].name = fwd[r].name
              \/ fwd'[r].pc = "exit" /\ (mux.cancelled \/ r \in regClosed)
<1>1. CASE ForwardReceive(r)
  BY <1>1 DEF ForwardReceive, Shapes
<1>2. CASE ForwardSend(r)
  BY <1>2 DEF ForwardSend, Shapes
<1>3. CASE ForwardExit(r)
  <2> DEFINE gone == [NoForwarder EXCEPT !.pc = "exit"]
  <2>1. "pc" \in DOMAIN NoForwarder /\ "name" \in DOMAIN NoForwarder
    BY DEF NoForwarder
  <2>2. "pc" \in DOMAIN gone /\ "name" \in DOMAIN gone /\ gone.pc = "exit"
    BY <2>1
  <2>3. fwd' = [fwd EXCEPT ![r] = gone]
    BY <1>3 DEF ForwardExit, Gone
  <2> HIDE DEF gone
  <2> QED BY <1>3, <2>2, <2>3 DEF ForwardExit, Shapes
<1> QED BY <1>1, <1>2, <1>3 DEF Forward

\* Everything but the forwarders' and Close's own steps, Events and Register.
Elsewhere ==
    \/ \E n \in Names : Remove(n)
    \/ CloseMark \/ Consume
    \/ \E r \in Registries : Emit(r) \/ CloseRegistry(r)

LEMMA ElsewhereStays ==
    ASSUME Elsewhere
    PROVE  UNCHANGED <<mux, fwd, panicked>> /\ (closing' = closing \/ (closing = "no" /\ closing' = "stop"))
BY DEF Elsewhere, Remove, CloseMark, CloseStep, Consume, Emit, CloseRegistry

LEMMA NextShapes == ASSUME Shapes, [ConfigsNext]_configsVars PROVE Shapes'
<1>1. CASE Elsewhere \/ UNCHANGED configsVars
  <2>1. UNCHANGED <<mux, fwd>>
    BY <1>1, ElsewhereStays DEF configsVars
  <2> QED BY <2>1 DEF Shapes
<1>2. ASSUME NEW n \in Names, NEW r \in Registries, Register(n, r) PROVE Shapes'
  BY <1>2, StartShapes DEF Register, Shapes
<1>3. CASE Events
  <2>1. {"made", "cancelled", "shut"} \subseteq DOMAIN mux'
    BY <1>3 DEF Events, Shapes
  <2> QED BY <1>3, <2>1, StartShapes DEF Events, Shapes
<1>4. CASE Close
  <2>1. UNCHANGED fwd /\ DOMAIN mux' = DOMAIN mux
    BY <1>4 DEF Close, CloseCancel, CloseWait, CloseChannel, CloseAll, CloseStep
  <2> QED BY <2>1 DEF Shapes
<1>5. ASSUME NEW r \in Registries, Forward(r) PROVE Shapes'
  <2>1. UNCHANGED mux
    BY <1>5 DEF Forward, ForwardReceive, ForwardSend, ForwardExit, Gone
  <2> QED BY <1>5, <2>1, ForwardShapes DEF Shapes
<1> QED BY <1>1, <1>2, <1>3, <1>4, <1>5 DEF ConfigsNext, Elsewhere
-----------------------------------------------------------------------------
LEMMA NoLateNext == ASSUME ~LateRegister, NoLateInv, [ConfigsNext]_configsVars PROVE NoLateInv'
<1> USE DEF NoLateInv
<1>1. Shapes'
  BY NextShapes
<1>2. CASE Elsewhere \/ UNCHANGED configsVars
  BY <1>1, <1>2, ElsewhereStays DEF WaitedFor, NoSendOnClosed, configsVars
<1>3. ASSUME NEW n \in Names, NEW r \in Registries, Register(n, r) PROVE NoLateInv'
  BY <1>1, <1>3 DEF Register, WaitedFor, NoSendOnClosed
<1>4. CASE Events
  <2>1. mux'.shut = mux.shut /\ closing = "no" /\ UNCHANGED <<closing, panicked>>
    BY <1>4 DEF Events, Shapes
  <2> QED BY <1>1, <2>1 DEF WaitedFor, NoSendOnClosed
<1>5. CASE Close
  <2>1. UNCHANGED <<fwd, panicked>>
    BY <1>5 DEF Close, CloseCancel, CloseWait, CloseChannel, CloseAll, CloseStep
  <2>2. CASE CloseCancel
    <3>1. mux'.shut = mux.shut /\ closing = "stop" /\ closing' = "wait"
      BY <2>2 DEF CloseCancel, CloseStep, Shapes
    <3> QED BY <1>1, <2>1, <3>1 DEF WaitedFor, NoSendOnClosed
  <2>3. CASE CloseWait
    BY <1>1, <2>1, <2>3 DEF CloseWait, CloseStep, WaitedFor, NoSendOnClosed
  <2>4. CASE CloseChannel \/ CloseAll
    BY <1>1, <2>1, <2>4 DEF CloseChannel, CloseAll, CloseStep, WaitedFor, NoSendOnClosed
  <2> QED BY <1>5, <2>2, <2>3, <2>4 DEF Close
<1>6. ASSUME NEW r \in Registries, Forward(r) PROVE NoLateInv'
  <2>1. closing \notin {"chan", "all", "done"} /\ ~mux.shut
    BY <1>6, ForwardShapes DEF WaitedFor
  <2>2. UNCHANGED <<mux, closing, panicked>>
    BY <1>6, <2>1 DEF Forward, ForwardReceive, ForwardSend, ForwardExit, Gone
  <2> QED BY <1>1, <2>1, <2>2 DEF WaitedFor, NoSendOnClosed
<1> QED BY <1>2, <1>3, <1>4, <1>5, <1>6 DEF ConfigsNext, Elsewhere

LEMMA NoLateInit == ConfigsInit => NoLateInv
BY InitShapes DEF ConfigsInit, NoLateInv, WaitedFor, NoSendOnClosed

\* As long as no client calls Register beside or after Close, no forwarder
\* sends on the channel that Close closed (Configs.Close).
THEOREM NeverPanics == ASSUME ~LateRegister PROVE ConfigsSpec => []NoSendOnClosed
<1>1. NoLateInv /\ [ConfigsNext]_configsVars => NoLateInv'
  BY NoLateNext
<1>2. NoLateInv => NoSendOnClosed
  BY DEF NoLateInv
<1> QED BY <1>1, <1>2, NoLateInit, PTL DEF ConfigsSpec
-----------------------------------------------------------------------------
LEMMA ForwardedInit == ConfigsInit => ForwardedInv
BY InitShapes DEF ConfigsInit, ForwardedInv, Entries, AllForwarded

LEMMA RegisterForwards ==
    ASSUME ForwardedInv, closing = "no", NEW n \in Names, NEW r \in Registries, Register(n, r)
    PROVE  Entries' /\ AllForwarded'
<1>1. /\ Entries /\ n \notin DOMAIN byName /\ r \notin known
      /\ DOMAIN byName' = DOMAIN byName \cup {n} /\ byName'[n] = r
      /\ \A m \in DOMAIN byName : byName'[m] = byName[m] /\ byName[m] # r
      /\ known' = known \cup {r} /\ UNCHANGED <<mux, closing, regClosed>>
  BY DEF ForwardedInv, Entries, Register
<1>2. CASE ~mux.made
  BY <1>1, <1>2 DEF Register, Entries, AllForwarded
<1>3. CASE mux.made
  <2> DEFINE reg == [x \in {n} |-> r]
             new == {x \in DOMAIN reg \ forwarders : reg[x] \in Watched}
             started(q) == [pc |-> "recv", name |-> CHOOSE x \in new : reg[x] = q, hand |-> 0]
  <2>1. /\ forwarders' = forwarders \cup new
        /\ fwd' = [q \in Registries |-> IF \E x \in new : reg[x] = q THEN started(q) ELSE fwd[q]]
    BY <1>3 DEF Register, startForwarders
  <2>2. new = IF r \in Watched THEN {n} ELSE {}
    BY <1>1 DEF Entries
  <2>3. reg[n] = r
    OBVIOUS
  <2>4. started(r).pc = "recv" /\ (r \in Watched => started(r).name = n)
    BY <2>2, <2>3
  <2>5. \A m \in DOMAIN byName : fwd'[byName[m]] = fwd[byName[m]]
    BY <1>1, <2>1, <2>2, <2>3 DEF Entries
  <2>6. r \in Watched => fwd'[r] = started(r)
    BY <2>1, <2>2, <2>3
  <2>7. Entries'
    BY <1>1, <1>3, <2>1, <2>2 DEF Entries
  <2>8. AllForwarded'
    <3> HIDE DEF started, new, reg
    <3> QED BY <1>1, <1>3, <2>4, <2>5, <2>6 DEF AllForwarded, ForwardedInv
  <2> QED BY <2>7, <2>8
<1> QED BY <1>2, <1>3

LEMMA EventsForward == ASSUME ForwardedInv, Events PROVE ForwardedInv'
<1>1. /\ Entries /\ forwarders = {} /\ ~mux.cancelled /\ closing = "no"
      /\ mux'.made /\ mux'.cancelled = mux.cancelled
      /\ UNCHANGED <<byName, closing, regClosed, known>>
  BY DEF ForwardedInv, Shapes, Entries, Events
<1> DEFINE new == {x \in DOMAIN byName \ forwarders : byName[x] \in Watched}
           started(q) == [pc |-> "recv", name |-> CHOOSE x \in new : byName[x] = q, hand |-> 0]
<1>2. /\ forwarders' = forwarders \cup new
      /\ fwd' = [q \in Registries |-> IF \E x \in new : byName[x] = q THEN started(q) ELSE fwd[q]]
  BY DEF Events, startForwarders
<1>3. Entries'
  BY <1>1, <1>2 DEF Entries
<1>4. ASSUME NEW n \in DOMAIN byName, byName[n] \in Watched
      PROVE  fwd'[byName[n]].pc = "recv" /\ fwd'[byName[n]].name = n
  <2>1. n \in new /\ byName[n] \in Registries
    BY <1>1, <1>4 DEF Entries
  <2>2. (CHOOSE x \in new : byName[x] = byName[n]) = n
    BY <1>1, <2>1 DEF Entries
  <2>3. fwd'[byName[n]] = started(byName[n])
    BY <1>2, <2>1
  <2> QED BY <2>2, <2>3
<1>5. AllForwarded'
  BY <1>1, <1>4 DEF AllForwarded
<1>6. Shapes'
  BY NextShapes DEF ForwardedInv, ConfigsNext
<1> QED BY <1>1, <1>3, <1>5, <1>6 DEF ForwardedInv

LEMMA ForwardedNext == ForwardedInv /\ [ConfigsNext]_configsVars => ForwardedInv'
<1> SUFFICES ASSUME ForwardedInv, [ConfigsNext]_configsVars PROVE ForwardedInv'
  OBVIOUS
<1>1. Shapes'
  BY NextShapes DEF ForwardedInv
<1>2. CASE \E n \in Names : Remove(n)
  <2>1. PICK n \in Names : Remove(n)
    BY <1>2
  <2>2. /\ n \in DOMAIN byName /\ DOMAIN byName' = DOMAIN byName \ {n}
        /\ \A m \in DOMAIN byName' : byName'[m] = byName[m]
        /\ forwarders' = forwarders \ {n} /\ regClosed \subseteq regClosed'
        /\ UNCHANGED <<mux, fwd, known, closing>>
    BY <2>1 DEF Remove, Unlisted
  <2> QED BY <1>1, <2>2 DEF ForwardedInv, Entries, AllForwarded
<1>3. CASE CloseMark \/ Consume \/ (\E r \in Registries : Emit(r) \/ CloseRegistry(r)) \/ UNCHANGED configsVars
  <2>1. /\ UNCHANGED <<byName, mux, forwarders, fwd, known>> /\ regClosed \subseteq regClosed'
        /\ closing' = "no" => closing = "no"
    BY <1>3 DEF CloseMark, CloseStep, Consume, Emit, CloseRegistry, configsVars
  <2> QED BY <1>1, <2>1 DEF ForwardedInv, Entries, AllForwarded
<1>4. ASSUME NEW n \in Names, NEW r \in Registries, Register(n, r) PROVE ForwardedInv'
  <2>1. closing' = closing /\ mux' = mux
    BY <1>4 DEF Register
  <2>2. CASE closing = "no"
    BY <1>1, <1>4, <2>1, <2>2, RegisterForwards DEF ForwardedInv
  <2>3. CASE closing # "no"
    BY <1>1, <2>1, <2>3 DEF ForwardedInv, AllForwarded
  <2> QED BY <2>2, <2>3
<1>5. CASE Close
  <2>1. closing' # "no"
    BY <1>5 DEF Close, CloseCancel, CloseWait, CloseChannel, CloseAll, CloseStep
  <2> QED BY <1>1, <2>1 DEF ForwardedInv, AllForwarded
<1>6. ASSUME NEW r \in Registries, Forward(r) PROVE ForwardedInv'
  <2>1. UNCHANGED <<byName, mux, forwarders, known, closing, regClosed>>
    BY <1>6 DEF Forward, ForwardReceive, ForwardSend, ForwardExit, Gone
  <2>2. Entries' \/ closing # "no"
    BY <2>1 DEF ForwardedInv, Entries
  <2>3. AllForwarded'
    <3>1. ASSUME mux.made, closing = "no", NEW n \in DOMAIN byName, byName[n] \in Watched \ regClosed
          PROVE  fwd'[byName[n]].pc \in {"recv", "send"} /\ fwd'[byName[n]].name = n
      <4>1. byName[n] \in Registries /\ fwd[byName[n]].pc \in {"recv", "send"} /\ fwd[byName[n]].name = n
        BY <3>1 DEF ForwardedInv, Entries, AllForwarded
      <4>2. ~mux.cancelled
        BY <3>1 DEF ForwardedInv
      <4> QED BY <1>6, <3>1, <4>1, <4>2, ForwardShapes DEF ForwardedInv
    <3> QED BY <2>1, <3>1 DEF AllForwarded
  <2> QED BY <1>1, <2>1, <2>2, <2>3 DEF ForwardedInv
<1>7. CASE Events
  BY <1>7, EventsForward
<1> QED BY <1>2, <1>3, <1>4, <1>5, <1>6, <1>7 DEF ConfigsNext

\* Once Events was called, and until Close, every open watched registry has
\* a running forwarder under its own name, however names are removed and
\* reused (Register, Remove, startForwarderLocked).
THEOREM Forwarded == ConfigsSpec => []AllForwarded
<1>1. ForwardedInv => AllForwarded
  BY DEF ForwardedInv
<1> QED BY <1>1, ForwardedInit, ForwardedNext, PTL DEF ConfigsSpec
-----------------------------------------------------------------------------
(* ClosesEverything: what is open has a name, and what has a name is listed. *)

\* A nonempty set of natural numbers has a least element.
LEMMA LeastNumber ==
    ASSUME NEW T, T \subseteq Nat, T # {}
    PROVE  \E i \in T : \A j \in T : i <= j
<1>1. PICK i \in T : \A j \in T : ~(<<j, i>> \in OpToRel(<, Nat))
  BY NatLessThanWellFounded, WFMin
<1>2. \A j \in T : ~(j < i)
  BY <1>1 DEF OpToRel
<1> QED BY <1>2

LEMMA RemoveFirstIs ==
    ASSUME NEW S, NEW s \in Seq(S), NEW e
    PROVE  \/ Seqs!RemoveFirst(s, e) = s
           \/ \E i \in 1..Len(s) :
                 s[i] = e /\ Seqs!RemoveFirst(s, e) = SubSeq(s, 1, i - 1) \o SubSeq(s, i + 1, Len(s))
<1> DEFINE I == {i \in 1..Len(s) : s[i] = e}
<1>1. CASE I = {}
  BY <1>1 DEF Seqs!RemoveFirst
<1>2. CASE I # {}
  <2>1. Seqs!SelectInSeq(s, LAMBDA v : v = e) = Seqs!Min(I)
    BY <1>2 DEF Seqs!SelectInSeq
  <2>2. I \subseteq Nat
    OBVIOUS
  <2>3. PICK i \in I : \A j \in I : i <= j
    <3> HIDE DEF I
    <3> QED BY <1>2, <2>2, LeastNumber
  <2>4. Seqs!Min(I) \in I
    BY <2>3 DEF Seqs!Min
  <2> QED BY <1>2, <2>1, <2>4 DEF Seqs!RemoveFirst, Seqs!RemoveAt
<1> QED BY <1>1, <1>2

\* The other names stay listed.
LEMMA RemoveFirstKeeps ==
    ASSUME NEW S, NEW s \in Seq(S), NEW e
    PROVE  /\ Seqs!RemoveFirst(s, e) \in Seq(S)
           /\ \A j \in DOMAIN s : s[j] # e =>
                 \E k \in DOMAIN Seqs!RemoveFirst(s, e) : Seqs!RemoveFirst(s, e)[k] = s[j]
<1>1. CASE Seqs!RemoveFirst(s, e) = s
  BY <1>1
<1>2. ASSUME NEW i \in 1..Len(s), s[i] = e,
             Seqs!RemoveFirst(s, e) = SubSeq(s, 1, i - 1) \o SubSeq(s, i + 1, Len(s))
      PROVE  /\ Seqs!RemoveFirst(s, e) \in Seq(S)
             /\ \A j \in DOMAIN s : s[j] # e =>
                   \E k \in DOMAIN Seqs!RemoveFirst(s, e) : Seqs!RemoveFirst(s, e)[k] = s[j]
  <2> DEFINE a == SubSeq(s, 1, i - 1)
             b == SubSeq(s, i + 1, Len(s))
  <2>1. a \in Seq(S) /\ Len(a) = i - 1 /\ \A j \in 1..(i - 1) : a[j] = s[j]
    OBVIOUS
  <2>2. b \in Seq(S) /\ Len(b) = Len(s) - i /\ \A j \in 1..(Len(s) - i) : b[j] = s[i + j]
    OBVIOUS
  <2> HIDE DEF a, b
  <2>3. /\ a \o b \in Seq(S) /\ Len(a \o b) = Len(a) + Len(b)
        /\ \A j \in 1..(Len(a) + Len(b)) : (a \o b)[j] = IF j <= Len(a) THEN a[j] ELSE b[j - Len(a)]
    BY <2>1, <2>2, ConcatProperties
  <2>4. ASSUME NEW j \in 1..Len(s), s[j] # e PROVE \E k \in 1..(Len(s) - 1) : (a \o b)[k] = s[j]
    <3>1. CASE j < i
      <4>1. j \in 1..(Len(s) - 1) /\ j \in 1..(Len(a) + Len(b)) /\ j <= Len(a) /\ j \in 1..(i - 1)
        BY <2>1, <2>2, <3>1
      <4> QED BY <2>1, <2>3, <4>1
    <3>2. CASE j > i
      <4>1. /\ j - 1 \in 1..(Len(s) - 1) /\ j - 1 \in 1..(Len(a) + Len(b)) /\ ~(j - 1 <= Len(a))
            /\ (j - 1) - Len(a) = j - i /\ j - i \in 1..(Len(s) - i) /\ i + (j - i) = j
        BY <2>1, <2>2, <3>2
      <4> QED BY <2>2, <2>3, <4>1
    <3>3. j # i /\ (j < i \/ j = i \/ j > i)
      BY <1>2, <2>4
    <3> QED BY <3>1, <3>2, <3>3
  <2>5. DOMAIN (a \o b) = 1..(Len(s) - 1)
    BY <2>1, <2>2, <2>3
  <2>6. Seqs!RemoveFirst(s, e) = a \o b
    BY <1>2 DEF a, b
  <2>7. \A j \in DOMAIN s : s[j] # e => \E k \in DOMAIN (a \o b) : (a \o b)[k] = s[j]
    <3>1. DOMAIN s = 1..Len(s)
      OBVIOUS
    <3> DEFINE w == a \o b
    <3>2. DOMAIN w = 1..(Len(s) - 1) /\ \A j \in 1..Len(s) : s[j] # e => \E k \in 1..(Len(s) - 1) : w[k] = s[j]
      BY <2>4, <2>5
    <3> HIDE DEF w
    <3>3. \A j \in DOMAIN s : s[j] # e => \E k \in DOMAIN w : w[k] = s[j]
      BY <3>1, <3>2, Zenon
    <3> QED BY <3>3 DEF w
  <2> QED BY <2>3, <2>6, <2>7, Zenon
<1> QED BY <1>1, <1>2, RemoveFirstIs

ClosedInv ==
    /\ order \in Seq(Names)
    /\ \A n \in DOMAIN byName : \E i \in DOMAIN order : order[i] = n
    /\ ClosesEverything

LEMMA ClosedNext == ASSUME ~LateRegister, ClosedInv, [ConfigsNext]_configsVars PROVE ClosedInv'
<1>1. ASSUME NEW n \in Names, Remove(n) PROVE ClosedInv'
  <2>1. /\ DOMAIN byName' = DOMAIN byName \ {n} /\ \A m \in DOMAIN byName' : byName'[m] = byName[m]
        /\ regClosed' = regClosed \cup {byName[n]} /\ UNCHANGED <<known, closing>>
    BY <1>1 DEF Remove, Unlisted
  <2>2. order' = Seqs!RemoveFirst(order, n)
    BY <1>1 DEF Remove, Unlisted
  <2>3. order' \in Seq(Names) /\ \A j \in DOMAIN order : order[j] # n => \E k \in DOMAIN order' : order'[k] = order[j]
    BY <2>2, RemoveFirstKeeps DEF ClosedInv
  <2>4. \A m \in DOMAIN byName' : \E i \in DOMAIN order' : order'[i] = m
    BY <2>1, <2>3 DEF ClosedInv
  <2>5. ClosesEverything'
    BY <2>1 DEF ClosedInv, ClosesEverything
  <2> QED BY <2>3, <2>4, <2>5 DEF ClosedInv
<1>2. ASSUME NEW n \in Names, NEW r \in Registries, Register(n, r) PROVE ClosedInv'
  <2>1. /\ DOMAIN byName' = DOMAIN byName \cup {n} /\ byName'[n] = r
        /\ \A m \in DOMAIN byName : byName'[m] = byName[m]
        /\ order' = Append(order, n) /\ known' = known \cup {r} /\ UNCHANGED <<closing, regClosed>>
        /\ closing = "no"
    BY <1>2 DEF Register
  <2>2. /\ order' \in Seq(Names) /\ DOMAIN order' = 1..(Len(order) + 1) /\ order'[Len(order) + 1] = n
        /\ DOMAIN order = 1..Len(order) /\ \A i \in 1..Len(order) : order'[i] = order[i]
        /\ Len(order) \in Nat
    BY <2>1 DEF ClosedInv
  <2>3. \A m \in DOMAIN byName' : \E i \in DOMAIN order' : order'[i] = m
    BY <2>1, <2>2 DEF ClosedInv
  <2>4. ClosesEverything'
    BY <2>1 DEF ClosedInv, ClosesEverything
  <2> QED BY <2>2, <2>3, <2>4 DEF ClosedInv
<1>3. CASE CloseAll
  <2>1. /\ regClosed' = regClosed \cup {byName[order[i]] : i \in DOMAIN order} /\ UNCHANGED known
        /\ DOMAIN byName' = {} /\ order' = <<>>
    BY <1>3 DEF CloseAll, CloseStep
  <2>2. \A r \in known' : r \in regClosed'
    BY <2>1 DEF ClosedInv, ClosesEverything
  <2>3. order' \in Seq(Names)
    BY <2>1
  <2> QED BY <2>1, <2>2, <2>3 DEF ClosedInv, ClosesEverything
<1>4. CASE /\ UNCHANGED <<byName, order, known>> /\ regClosed \subseteq regClosed'
           /\ closing' = "done" => closing = "done"
  BY <1>4 DEF ClosedInv, ClosesEverything
<1>5. CASE Events \/ CloseMark \/ CloseCancel \/ CloseWait \/ CloseChannel \/ Consume \/ UNCHANGED configsVars
  BY <1>4, <1>5 DEF Events, CloseMark, CloseCancel, CloseWait, CloseChannel, CloseStep, Consume, configsVars
<1>6. ASSUME NEW r \in Registries, Emit(r) \/ CloseRegistry(r) \/ Forward(r) PROVE ClosedInv'
  BY <1>4, <1>6 DEF Emit, CloseRegistry, Forward, ForwardReceive, ForwardSend, ForwardExit, Gone
<1> QED BY <1>1, <1>2, <1>3, <1>5, <1>6 DEF ConfigsNext, Close

\* Remove closes the registry it removes and Close every one that is left, as
\* long as no client calls Register beside or after Close.
THEOREM Closes == ASSUME ~LateRegister PROVE ConfigsSpec => []ClosesEverything
<1>1. ConfigsInit => ClosedInv
  BY DEF ConfigsInit, ClosedInv, ClosesEverything
<1>2. ClosedInv => ClosesEverything
  BY DEF ClosedInv
<1>3. ClosedInv /\ [ConfigsNext]_configsVars => ClosedInv'
  BY ClosedNext
<1> QED BY <1>1, <1>2, <1>3, PTL DEF ConfigsSpec
-----------------------------------------------------------------------------
(* The events of one registry in the multiplexed channel.                  *)

Muxed == [name : Names \cup {""}, reg : Registries, evt : Nat]

\* t, and e's number after it if e is an event of r.
Noted(t, e, r) == IF e.reg = r THEN Append(t, e.evt) ELSE t

\* g gives of each of the first m events of s the numbers of r's up to it.
Notes(g, s, r, m) ==
    g \in [0..m -> Seq(Nat)] /\ g[0] = <<>> /\ \A i \in 1..m : g[i] = Noted(g[i - 1], s[i], r)

LEMMA NotedType == ASSUME NEW t \in Seq(Nat), NEW e \in Muxed, NEW r PROVE Noted(t, e, r) \in Seq(Nat)
<1>1. e.evt \in Nat
  BY DEF Muxed
<1>2. Append(t, e.evt) \in Seq(Nat)
  BY <1>1
<1> QED BY <1>2 DEF Noted

LEMMA NotesExist ==
    ASSUME NEW s \in Seq(Muxed), NEW r
    PROVE  \E g : Notes(g, s, r, Len(s))
<1> DEFINE Bad == {m \in 0..Len(s) : ~\E g : Notes(g, s, r, m)}
<1>0. Len(s) \in Nat
  OBVIOUS
<1>1. SUFFICES ASSUME Bad # {} PROVE FALSE
  <2>1. Bad = {} => Len(s) \notin Bad
    OBVIOUS
  <2>2. Len(s) \in 0..Len(s)
    BY <1>0
  <2> QED BY <2>1, <2>2, Zenon
<1>2. PICK m \in Bad : \A j \in Bad : m <= j
  <2>1. Bad \subseteq Nat
    OBVIOUS
  <2> HIDE DEF Bad
  <2> QED BY <1>1, <2>1, LeastNumber
<1>3. m # 0
  <2> DEFINE none == [i \in 0..0 |-> <<>>]
  <2>1. none \in [0..0 -> Seq(Nat)] /\ none[0] = <<>> /\ \A i \in 1..0 : FALSE
    OBVIOUS
  <2> HIDE DEF none
  <2>2. Notes(none, s, r, 0)
    BY <2>1, Zenon DEF Notes
  <2> QED BY <2>2
<1>4. m \in 1..Len(s) /\ m - 1 \in 0..Len(s) /\ ~(m <= m - 1)
  BY <1>0, <1>2, <1>3
<1>5. m - 1 \notin Bad
  <2> HIDE DEF Bad
  <2> QED BY <1>2, <1>4, Zenon
<1>6. PICK g : Notes(g, s, r, m - 1)
  BY <1>4, <1>5, Zenon
<1> DEFINE last == Noted(g[m - 1], s[m], r)
           h == [i \in 0..m |-> IF i = m THEN last ELSE g[i]]
<1>7. \A i \in 0..(m - 1) : g[i] \in Seq(Nat)
  BY <1>6 DEF Notes
<1>8. last \in Seq(Nat)
  <2>1. s[m] \in Muxed /\ m - 1 \in 0..(m - 1)
    BY <1>4
  <2> QED BY <1>7, <2>1, NotedType
<1> HIDE DEF last
<1>9. h \in [0..m -> Seq(Nat)] /\ h[m] = last /\ \A i \in 0..(m - 1) : h[i] = g[i]
  BY <1>4, <1>7, <1>8
<1> HIDE DEF h
<1>10. ASSUME NEW i \in 1..m PROVE h[i] = Noted(h[i - 1], s[i], r)
  <2>1. CASE i = m
    <3>1. m - 1 \in 0..(m - 1)
      BY <1>4
    <3> QED BY <1>9, <2>1, <3>1 DEF last
  <2>2. CASE i # m
    <3>1. i \in 1..(m - 1) /\ i \in 0..(m - 1) /\ i - 1 \in 0..(m - 1)
      BY <1>4, <2>2
    <3> QED BY <1>6, <1>9, <3>1 DEF Notes
  <2> QED BY <2>1, <2>2
<1>11. h[0] = <<>>
  <2>1. 0 \in 0..(m - 1)
    BY <1>4
  <2> QED BY <1>6, <1>9, <2>1 DEF Notes
<1> QED BY <1>2, <1>9, <1>10, <1>11 DEF Notes

\* There is one such function, so Numbered is its last value.
LEMMA NumberedIs ==
    ASSUME NEW s \in Seq(Muxed), NEW r, NEW g, Notes(g, s, r, Len(s))
    PROVE  Numbered(s, r) = g[Len(s)]
<1> DEFINE n == Len(s)
           Rec(f) == [i \in 0..n |-> IF i = 0 THEN <<>>
                                     ELSE IF s[i].reg = r THEN Append(f[i - 1], s[i].evt) ELSE f[i - 1]]
           out == CHOOSE f : f = Rec(f)
<1>0. n \in Nat
  OBVIOUS
<1>1. g = Rec(g)
  <2>1. \A i \in 0..n : i = 0 \/ i \in 1..n
    BY <1>0
  <2>2. \A i \in 0..n : g[i] = Rec(g)[i]
    BY <2>1 DEF Notes, Noted
  <2>3. g = [i \in 0..n |-> g[i]]
    BY DEF Notes
  <2> QED BY <2>2, <2>3
<1>2. out = Rec(out)
  BY <1>1, Zenon
<1>3. Numbered(s, r) = out[n]
  BY DEF Numbered
<1> HIDE DEF out
<1>4. out[0] = <<>> /\ \A i \in 1..n : out[i] = Noted(out[i - 1], s[i], r)
  <2>1. 0 \in 0..n /\ \A i \in 1..n : i \in 0..n /\ i # 0
    BY <1>0
  <2> QED BY <1>2, <2>1 DEF Noted
<1> DEFINE B == {i \in 0..n : out[i] # g[i]}
<1>5. B = {}
  <2>1. SUFFICES ASSUME B # {} PROVE FALSE
    OBVIOUS
  <2>2. PICK i \in B : \A j \in B : i <= j
    <3>1. B \subseteq Nat
      OBVIOUS
    <3> HIDE DEF B
    <3> QED BY <2>1, <3>1, LeastNumber
  <2>3. i # 0
    BY <1>4, <2>2 DEF Notes
  <2>4. i \in 1..n /\ i - 1 \in 0..n /\ ~(i <= i - 1)
    BY <1>0, <2>2, <2>3
  <2>5. out[i - 1] = g[i - 1]
    BY <2>2, <2>4
  <2>6. out[i] = g[i]
    BY <1>4, <2>4, <2>5 DEF Notes
  <2> QED BY <2>2, <2>6
<1>6. n \in 0..n
  BY <1>0
<1> QED BY <1>3, <1>5, <1>6

LEMMA NumberedType == ASSUME NEW s \in Seq(Muxed), NEW r PROVE Numbered(s, r) \in Seq(Nat)
<1>1. PICK g : Notes(g, s, r, Len(s))
  BY NotesExist
<1>2. Numbered(s, r) = g[Len(s)] /\ Len(s) \in 0..Len(s)
  BY <1>1, NumberedIs
<1> QED BY <1>1, <1>2 DEF Notes

LEMMA NumberedEmpty == ASSUME NEW r PROVE Numbered(<<>>, r) = <<>>
<1>1. <<>> \in Seq(Muxed) /\ Len(<<>>) = 0
  OBVIOUS
<1>2. PICK g : Notes(g, <<>>, r, Len(<<>>))
  BY <1>1, NotesExist
<1> QED BY <1>1, <1>2, NumberedIs DEF Notes

\* What a forwarder sends comes last.
LEMMA NumberedAppend ==
    ASSUME NEW s \in Seq(Muxed), NEW e \in Muxed, NEW r
    PROVE  Numbered(Append(s, e), r) = Noted(Numbered(s, r), e, r)
<1> DEFINE n == Len(s)
           w == Append(s, e)
<1>1. n \in Nat /\ w \in Seq(Muxed) /\ Len(w) = n + 1 /\ w[n + 1] = e /\ \A i \in 1..n : w[i] = s[i]
  OBVIOUS
<1>2. PICK g : Notes(g, s, r, n)
  BY NotesExist
<1>3. PICK h : Notes(h, w, r, n + 1)
  <2>1. \E h : Notes(h, w, r, Len(w))
    <3> HIDE DEF w
    <3> QED BY <1>1, NotesExist
  <2> HIDE DEF w
  <2> QED BY <1>1, <2>1
<1>4. Numbered(w, r) = h[n + 1]
  <2> HIDE DEF w
  <2> QED BY <1>1, <1>3, NumberedIs
<1> HIDE DEF w
<1> DEFINE f == [i \in 0..n |-> h[i]]
<1>5. Notes(f, s, r, n)
  <2>1. \A i \in 0..n : i \in 0..(n + 1) /\ f[i] = h[i]
    BY <1>1
  <2>2. \A i \in 1..n : i \in 1..(n + 1) /\ i \in 0..n /\ i - 1 \in 0..n
    BY <1>1
  <2>3. f \in [0..n -> Seq(Nat)]
    BY <1>3, <2>1 DEF Notes
  <2>4. 0 \in 0..n
    BY <1>1
  <2> HIDE DEF f
  <2>5. f[0] = <<>>
    BY <1>3, <2>1, <2>4 DEF Notes
  <2>6. \A i \in 1..n : f[i] = Noted(f[i - 1], s[i], r)
    BY <1>1, <1>3, <2>1, <2>2 DEF Notes
  <2> QED BY <2>3, <2>5, <2>6 DEF Notes
<1>6. Numbered(s, r) = h[n]
  <2>1. Numbered(s, r) = f[n]
    <3> HIDE DEF f
    <3> QED BY <1>5, NumberedIs
  <2>2. n \in 0..n
    BY <1>1
  <2> QED BY <2>1, <2>2
<1>7. h[n + 1] = Noted(h[n], e, r)
  <2>1. n + 1 \in 1..(n + 1) /\ (n + 1) - 1 = n
    BY <1>1
  <2> QED BY <1>1, <1>3, <2>1 DEF Notes
<1> QED BY <1>4, <1>6, <1>7 DEF w

\* What a consumer takes came first.
LEMMA NumberedTail ==
    ASSUME NEW s \in Seq(Muxed), s # <<>>, NEW r
    PROVE  Numbered(s, r) = Noted(<<>>, Head(s), r) \o Numbered(Tail(s), r)
<1> DEFINE n == Len(s)
           t == Tail(s)
           front == Noted(<<>>, Head(s), r)
<1>1. /\ n \in Nat \ {0} /\ t \in Seq(Muxed) /\ Len(t) = n - 1 /\ Head(s) = s[1] /\ s[1] \in Muxed
      /\ \A i \in 1..(n - 1) : t[i] = s[i + 1] /\ t[i] \in Muxed
  OBVIOUS
<1>2. front \in Seq(Nat)
  <2>1. <<>> \in Seq(Nat) /\ Head(s) \in Muxed
    BY <1>1
  <2> QED BY <2>1, NotedType
<1>3. PICK g : Notes(g, s, r, n)
  BY NotesExist
<1>4. PICK h : Notes(h, t, r, n - 1)
  <2>1. \E h : Notes(h, t, r, Len(t))
    <3> HIDE DEF t
    <3> QED BY <1>1, NotesExist
  <2> HIDE DEF t
  <2> QED BY <1>1, <2>1
<1>5. Numbered(s, r) = g[n]
  BY <1>3, NumberedIs
<1>6. Numbered(t, r) = h[n - 1]
  <2> HIDE DEF t
  <2> QED BY <1>1, <1>4, NumberedIs
<1> HIDE DEF t, front
<1> DEFINE B == {i \in 0..(n - 1) : g[i + 1] # front \o h[i]}
<1>7. B = {}
  <2>1. SUFFICES ASSUME B # {} PROVE FALSE
    OBVIOUS
  <2>2. PICK i \in B : \A j \in B : i <= j
    <3>1. B \subseteq Nat
      OBVIOUS
    <3> HIDE DEF B
    <3> QED BY <2>1, <3>1, LeastNumber
  <2>3. i # 0
    <3>1. g[1] = front
      <4>1. 1 \in 1..n /\ 1 - 1 = 0
        BY <1>1
      <4> QED BY <1>1, <1>3, <4>1 DEF Notes, front
    <3>2. front \o h[0] = front
      BY <1>2, <1>4, ConcatEmptySeq DEF Notes
    <3> QED BY <2>2, <3>1, <3>2
  <2>4. /\ i \in 1..(n - 1) /\ i - 1 \in 0..(n - 1) /\ ~(i <= i - 1) /\ i \in Int
        /\ i + 1 \in 1..n /\ (i + 1) - 1 = i /\ (i - 1) + 1 = i
    BY <1>1, <2>2, <2>3
  <2>5. g[i] = front \o h[i - 1]
    BY <2>2, <2>4
  <2>6. g[i + 1] = Noted(g[i], t[i], r) /\ h[i] = Noted(h[i - 1], t[i], r)
    BY <1>1, <1>3, <1>4, <2>4 DEF Notes
  <2>7. h[i - 1] \in Seq(Nat) /\ t[i] \in Muxed /\ t[i].evt \in Nat
    BY <1>1, <1>4, <2>4 DEF Notes, Muxed
  <2> HIDE DEF B
  <2>8. ASSUME NEW x \in Seq(Nat), NEW v \in Nat PROVE Append(front \o x, v) = front \o Append(x, v)
    <3>1. front \o x \in Seq(Nat) /\ <<v>> \in Seq(Nat)
      BY <1>2
    <3>2. Append(front \o x, v) = (front \o x) \o <<v>>
      BY <3>1, AppendIsConcat
    <3>3. Append(x, v) = x \o <<v>>
      BY AppendIsConcat
    <3>4. (front \o x) \o <<v>> = front \o (x \o <<v>>)
      BY <1>2, <3>1, ConcatAssociative
    <3> QED BY <3>2, <3>3, <3>4, Zenon
  <2>9. Noted(front \o h[i - 1], t[i], r) = front \o Noted(h[i - 1], t[i], r)
    BY <2>7, <2>8 DEF Noted
  <2> QED BY <2>2, <2>5, <2>6, <2>9 DEF B
<1>8. n - 1 \in 0..(n - 1) /\ (n - 1) + 1 = n
  BY <1>1
<1>9. g[n] = front \o h[n - 1]
  BY <1>7, <1>8
<1> QED BY <1>5, <1>6, <1>9 DEF front, t
-----------------------------------------------------------------------------
(* NothingLost: what a registry delivered is in four places, in order.     *)

Upto(n) == [i \in 1..n |-> i]
Forwarders == [pc : {"off", "recv", "send", "exit"}, name : Names \cup {""}, hand : Nat]

FlowTypes ==
    /\ DOMAIN byName \subseteq Names
    /\ merged \in Seq(Muxed)
    /\ fwd \in [Registries -> Forwarders]
    /\ channel \in [Registries -> Seq(Nat)] /\ got \in [Registries -> Seq(Nat)]
    /\ emitted \in [Registries -> Nat]
    /\ {"made", "cancelled", "shut"} \subseteq DOMAIN mux

\* Forwarders run once Events was called, of registered registries only; the
\* channel is closed only after the context is cancelled.
MuxOrder ==
    /\ \A r \in Registries : fwd[r].pc # "off" => r \in known /\ mux.made
    /\ \A n \in DOMAIN byName : byName[n] \in known
    /\ closing \in {"no", "stop"} => ~mux.cancelled /\ ~mux.shut
    /\ closing \notin {"no", "stop"} => mux.cancelled = mux.made
    /\ mux.shut => mux.made

\* Without a Close, a forwarder leaves nothing behind it.
FlowOf(r) ==
    /\ ((got[r] \o Numbered(merged, r)) \o InHand(r)) \o Waiting(r) = Upto(emitted[r])
    /\ fwd[r].pc = "exit" => r \in regClosed /\ channel[r] = <<>>

FlowInv == FlowTypes /\ MuxOrder /\ (~mux.cancelled => \A r \in Registries : FlowOf(r))

LEMMA FlowHolds == FlowInv => NothingLost
  BY DEF FlowInv, FlowOf, NothingLost, Upto

LEMMA UptoNext == ASSUME NEW n \in Nat PROVE Upto(n) \in Seq(Nat) /\ Append(Upto(n), n + 1) = Upto(n + 1)
<1> DEFINE u == Upto(n)
           v == Upto(n + 1)
<1>1. u \in Seq(Nat) /\ Len(u) = n /\ \A i \in 1..n : u[i] = i
  BY DEF Upto
<1>2. v \in Seq(Nat) /\ Len(v) = n + 1 /\ \A i \in 1..(n + 1) : v[i] = i
  BY DEF Upto
<1> HIDE DEF u, v
<1> DEFINE w == Append(u, n + 1)
<1>3. w \in Seq(Nat) /\ Len(w) = n + 1 /\ \A i \in 1..(n + 1) : w[i] = IF i <= n THEN u[i] ELSE n + 1
  BY <1>1
<1> HIDE DEF w
<1>4. \A i \in 1..(n + 1) : w[i] = v[i]
  BY <1>1, <1>2, <1>3
<1>5. w = v
  BY <1>2, <1>3, <1>4, SeqEqual
<1> QED BY <1>1, <1>5 DEF u, v, w

\* Where an event goes from one place to the next, the order stays.
LEMMA Places ==
    ASSUME NEW a \in Seq(Nat), NEW b \in Seq(Nat), NEW v \in Nat
    PROVE  /\ a \o Append(b, v) = Append(a \o b, v)
           /\ a \o Append(b, v) = (a \o b) \o <<v>>
           /\ a \o (<<v>> \o b) = Append(a, v) \o b
           /\ a \o <<>> = a /\ <<>> \o a = a
<1>1. <<v>> \in Seq(Nat) /\ a \o b \in Seq(Nat)
  OBVIOUS
<1>2. Append(a, v) = a \o <<v>> /\ Append(b, v) = b \o <<v>> /\ Append(a \o b, v) = (a \o b) \o <<v>>
  BY <1>1, AppendIsConcat
<1>3. (a \o b) \o <<v>> = a \o (b \o <<v>>)
  BY <1>1, ConcatAssociative
<1>4. (a \o <<v>>) \o b = a \o (<<v>> \o b)
  BY <1>1, ConcatAssociative
<1>5. a \o <<>> = a /\ <<>> \o a = a
  BY ConcatEmptySeq
<1> QED BY <1>2, <1>3, <1>4, <1>5, Zenon

LEMMA FlowInit == ConfigsInit => FlowInv
<1> SUFFICES ASSUME ConfigsInit PROVE FlowInv
  OBVIOUS
<1>1. mux = [made |-> FALSE, cap |-> 0, cancelled |-> FALSE, shut |-> FALSE] /\ closing = "no"
  BY DEF ConfigsInit
<1>2. {"made", "cancelled", "shut"} \subseteq DOMAIN mux /\ ~mux.made /\ ~mux.cancelled /\ ~mux.shut
  BY <1>1
<1>3. NoForwarder \in Forwarders /\ NoForwarder.pc = "off"
  BY DEF NoForwarder, Forwarders
<1>4. fwd = [r \in Registries |-> NoForwarder] /\ merged = <<>>
  BY DEF ConfigsInit
<1>5. FlowTypes
  BY <1>2, <1>3, <1>4 DEF ConfigsInit, FlowTypes
<1>6. MuxOrder
  BY <1>1, <1>2, <1>3, <1>4 DEF MuxOrder, ConfigsInit
<1>7. ASSUME NEW r \in Registries PROVE FlowOf(r)
  <2>1. got[r] = <<>> /\ channel[r] = <<>> /\ emitted[r] = 0 /\ fwd[r].pc = "off"
    BY <1>3, <1>4 DEF ConfigsInit
  <2>2. Numbered(merged, r) = <<>> /\ InHand(r) = <<>> /\ Waiting(r) = <<>>
    BY <1>4, <2>1, NumberedEmpty DEF InHand, Waiting
  <2>3. <<>> \in Seq(Nat) /\ <<>> \o <<>> = <<>>
    OBVIOUS
  <2>4. Upto(0) = <<>>
    BY DEF Upto
  <2> QED BY <2>1, <2>2, <2>3, <2>4 DEF FlowOf
<1> QED BY <1>5, <1>6, <1>7 DEF FlowInv

\* A forwarder that starts holds nothing yet.
LEMMA StartFlows ==
    ASSUME FlowTypes, NEW reg, startForwarders(reg), DOMAIN reg \subseteq Names,
           \A n \in DOMAIN reg : \A r \in Registries : reg[n] = r => fwd[r].pc = "off"
    PROVE  /\ fwd' \in [Registries -> Forwarders]
           /\ \A r \in Registries :
                 /\ InHand(r)' = InHand(r) /\ (channel' = channel => Waiting(r)' = Waiting(r))
                 /\ fwd'[r].pc = "exit" => fwd[r].pc = "exit"
                 /\ fwd'[r].pc # "off" => fwd[r].pc # "off" \/ \E n \in DOMAIN reg : reg[n] = r
<1> DEFINE new == {n \in DOMAIN reg \ forwarders : reg[n] \in Watched}
           at(r) == CHOOSE n \in new : reg[n] = r
           started(r) == [pc |-> "recv", name |-> at(r), hand |-> 0]
<1>1. fwd' = [r \in Registries |-> IF \E n \in new : reg[n] = r THEN started(r) ELSE fwd[r]]
  BY DEF startForwarders
<1>2. ASSUME NEW r \in Registries, \E n \in new : reg[n] = r
      PROVE  started(r) \in Forwarders /\ started(r).pc = "recv" /\ fwd[r].pc = "off"
  <2>1. at(r) \in new /\ reg[at(r)] = r
    BY <1>2
  <2>2. new \subseteq Names
    OBVIOUS
  <2>3. fwd[r].pc = "off"
    BY <2>1
  <2> HIDE DEF at, new
  <2> QED BY <2>1, <2>2, <2>3 DEF Forwarders
<1>3. \A n \in new : n \in DOMAIN reg
  OBVIOUS
<1> HIDE DEF new, started
<1>4. \A r \in Registries : fwd'[r] = IF \E n \in new : reg[n] = r THEN started(r) ELSE fwd[r]
  BY <1>1
<1>5. fwd' \in [Registries -> Forwarders]
  BY <1>1, <1>2 DEF FlowTypes
<1>6. ASSUME NEW r \in Registries
      PROVE  /\ InHand(r)' = InHand(r) /\ (channel' = channel => Waiting(r)' = Waiting(r))
             /\ fwd'[r].pc = "exit" => fwd[r].pc = "exit"
             /\ fwd'[r].pc # "off" => fwd[r].pc # "off" \/ \E n \in DOMAIN reg : reg[n] = r
  <2>1. CASE \E n \in new : reg[n] = r
    <3>1. fwd'[r].pc = "recv" /\ fwd[r].pc = "off"
      BY <1>2, <1>4, <2>1
    <3> QED BY <1>3, <2>1, <3>1 DEF InHand, Waiting
  <2>2. CASE ~\E n \in new : reg[n] = r
    <3>1. fwd'[r] = fwd[r]
      BY <1>4, <2>2
    <3> QED BY <3>1 DEF InHand, Waiting
  <2> QED BY <2>1, <2>2
<1> QED BY <1>5, <1>6

\* Steps that move no event: a registry is no less closed, a forwarder does
\* not exit, and holds and leaves what it held and left.
LEMMA FlowStays ==
    ASSUME FlowInv, NEW r \in Registries, ~mux.cancelled, UNCHANGED <<merged, channel, emitted, got>>,
           regClosed \subseteq regClosed', InHand(r)' = InHand(r), Waiting(r)' = Waiting(r),
           fwd'[r].pc = "exit" => fwd[r].pc = "exit"
    PROVE  FlowOf(r)'
  BY DEF FlowInv, FlowOf

LEMMA StartKeepsFlow ==
    ASSUME FlowInv, NEW reg, startForwarders(reg), DOMAIN reg \subseteq Names,
           \A n \in DOMAIN reg : \A r \in Registries : reg[n] = r => fwd[r].pc = "off",
           UNCHANGED <<merged, channel, emitted, got, regClosed>>,
           mux'.cancelled = mux.cancelled
    PROVE  ~mux'.cancelled => \A r \in Registries : FlowOf(r)'
<1>1. FlowTypes
  BY DEF FlowInv
<1>2. \A r \in Registries :
        /\ InHand(r)' = InHand(r) /\ Waiting(r)' = Waiting(r)
        /\ fwd'[r].pc = "exit" => fwd[r].pc = "exit"
  BY <1>1, StartFlows
<1> QED BY <1>2, FlowStays

LEMMA RegisterFlows == ASSUME FlowInv, NEW n \in Names, NEW r \in Registries, Register(n, r) PROVE FlowInv'
<1>1. /\ r \notin known /\ DOMAIN byName' = DOMAIN byName \cup {n} /\ known' = known \cup {r}
      /\ \A m \in DOMAIN byName' : byName'[m] = r \/ (m \in DOMAIN byName /\ byName'[m] = byName[m])
      /\ UNCHANGED <<closing, mux, merged, channel, emitted, regClosed, got>>
  BY DEF Register
<1>2. fwd[r].pc = "off"
  BY <1>1 DEF FlowInv, MuxOrder
<1>3. CASE UNCHANGED <<forwarders, fwd>>
  <2>1. FlowTypes' /\ MuxOrder'
    BY <1>1, <1>3 DEF FlowInv, FlowTypes, MuxOrder
  <2>2. ASSUME ~mux.cancelled, NEW q \in Registries PROVE FlowOf(q)'
    BY <1>1, <1>3, <2>2 DEF FlowInv, FlowOf, InHand, Waiting
  <2> QED BY <1>1, <2>1, <2>2 DEF FlowInv
<1>4. CASE mux.made /\ startForwarders([x \in {n} |-> r])
  <2> DEFINE reg == [x \in {n} |-> r]
  <2>1. DOMAIN reg = {n} /\ reg[n] = r
    OBVIOUS
  <2>2. startForwarders(reg)
    BY <1>4
  <2> HIDE DEF reg
  <2>3. DOMAIN reg \subseteq Names /\ \A m \in DOMAIN reg : \A q \in Registries : reg[m] = q => fwd[q].pc = "off"
    BY <1>2, <2>1
  <2>4. /\ fwd' \in [Registries -> Forwarders]
        /\ \A q \in Registries : fwd'[q].pc # "off" => fwd[q].pc # "off" \/ q = r
    BY <2>1, <2>2, <2>3, StartFlows DEF FlowInv
  <2>5. FlowTypes' /\ MuxOrder'
    BY <1>1, <1>4, <2>4 DEF FlowInv, FlowTypes, MuxOrder
  <2>6. ~mux'.cancelled => \A q \in Registries : FlowOf(q)'
    BY <1>1, <2>2, <2>3, StartKeepsFlow
  <2> QED BY <2>5, <2>6 DEF FlowInv
<1> QED BY <1>3, <1>4 DEF Register

LEMMA EventsFlow == ASSUME FlowInv, Events PROVE FlowInv'
<1>1. /\ closing = "no" /\ ~mux.made /\ mux'.made /\ mux'.cancelled = mux.cancelled /\ mux'.shut = mux.shut
      /\ DOMAIN mux' = DOMAIN mux /\ startForwarders(byName)
      /\ UNCHANGED <<byName, closing, merged, channel, emitted, regClosed, got, known>>
  BY DEF Events, FlowInv, FlowTypes
<1>2. \A r \in Registries : fwd[r].pc = "off"
  BY <1>1 DEF FlowInv, MuxOrder
<1>3. DOMAIN byName \subseteq Names
  BY DEF FlowInv, FlowTypes
<1>4. /\ fwd' \in [Registries -> Forwarders]
      /\ \A r \in Registries : fwd'[r].pc # "off" => \E n \in DOMAIN byName : byName[n] = r
  BY <1>1, <1>2, <1>3, StartFlows DEF FlowInv
<1>5. FlowTypes' /\ MuxOrder'
  BY <1>1, <1>4 DEF FlowInv, FlowTypes, MuxOrder
<1>6. ~mux'.cancelled => \A r \in Registries : FlowOf(r)'
  BY <1>1, <1>2, <1>3, StartKeepsFlow
<1> QED BY <1>5, <1>6 DEF FlowInv

LEMMA CloseFlows == ASSUME FlowInv, Close \/ CloseMark PROVE FlowInv'
<1>1. UNCHANGED <<fwd, merged, channel, emitted, got, known>> /\ DOMAIN mux' = DOMAIN mux
  BY DEF Close, CloseMark, CloseStep, CloseCancel, CloseWait, CloseChannel, CloseAll
<1>2. /\ DOMAIN byName' \subseteq DOMAIN byName /\ \A n \in DOMAIN byName' : byName'[n] = byName[n]
      /\ regClosed \subseteq regClosed'
  BY DEF Close, CloseMark, CloseStep, CloseCancel, CloseWait, CloseChannel, CloseAll
<1>3. /\ mux'.made = mux.made /\ (mux.cancelled => mux'.cancelled) /\ closing' # "no"
      /\ (closing' = "stop" => mux' = mux /\ closing = "no")
      /\ (closing' # "stop" => mux'.cancelled = mux.made /\ (mux'.shut => mux.made))
  BY DEF Close, CloseMark, CloseStep, CloseCancel, CloseWait, CloseChannel, CloseAll, FlowInv, FlowTypes, MuxOrder
<1>4. FlowTypes' /\ MuxOrder'
  BY <1>1, <1>2, <1>3 DEF FlowInv, FlowTypes, MuxOrder
<1>5. ASSUME ~mux'.cancelled, NEW r \in Registries PROVE FlowOf(r)'
  BY <1>1, <1>2, <1>3, <1>5 DEF FlowInv, FlowOf, InHand, Waiting
<1> QED BY <1>4, <1>5 DEF FlowInv

\* Registries that close, under Configs or outside it.
LEMMA ClosingFlows ==
    ASSUME FlowInv, (\E n \in Names : Remove(n)) \/ (\E r \in Registries : CloseRegistry(r))
    PROVE  FlowInv'
<1>1. UNCHANGED <<mux, closing, fwd, merged, channel, emitted, got, known>> /\ regClosed \subseteq regClosed'
  BY DEF Remove, CloseRegistry
<1>2. DOMAIN byName' \subseteq DOMAIN byName /\ \A n \in DOMAIN byName' : byName'[n] = byName[n]
  BY DEF Remove, Unlisted, CloseRegistry
<1>3. FlowTypes' /\ MuxOrder'
  BY <1>1, <1>2 DEF FlowInv, FlowTypes, MuxOrder
<1>4. ASSUME ~mux'.cancelled, NEW r \in Registries PROVE FlowOf(r)'
  BY <1>1, <1>4 DEF FlowInv, FlowOf, InHand, Waiting
<1> QED BY <1>3, <1>4 DEF FlowInv

LEMMA EmitFlows == ASSUME FlowInv, NEW r \in Registries, Emit(r) PROVE FlowInv'
<1>1. /\ r \notin regClosed /\ UNCHANGED <<byName, closing, mux, merged, fwd, regClosed, got, known>>
      /\ emitted' = [emitted EXCEPT ![r] = @ + 1]
      /\ channel' = [channel EXCEPT ![r] = Append(@, emitted[r] + 1)]
  BY DEF Emit
<1>2. emitted[r] \in Nat /\ channel[r] \in Seq(Nat) /\ got[r] \in Seq(Nat) /\ Numbered(merged, r) \in Seq(Nat)
      /\ InHand(r) \in Seq(Nat)
  <2>1. fwd[r].hand \in Nat
    BY DEF FlowInv, FlowTypes, Forwarders
  <2> QED BY <2>1, NumberedType DEF FlowInv, FlowTypes, InHand
<1>3. FlowTypes'
  <2>1. emitted[r] + 1 \in Nat /\ Append(channel[r], emitted[r] + 1) \in Seq(Nat)
    BY <1>2
  <2> QED BY <1>1, <2>1 DEF FlowInv, FlowTypes
<1>4. MuxOrder'
  BY <1>1 DEF FlowInv, MuxOrder
<1>5. ASSUME ~mux'.cancelled, NEW q \in Registries PROVE FlowOf(q)'
  <2>1. FlowOf(q) /\ InHand(q)' = InHand(q)
    BY <1>1, <1>5 DEF FlowInv, InHand
  <2>2. CASE q # r
    <3>1. channel'[q] = channel[q] /\ emitted'[q] = emitted[q]
      BY <1>1, <2>2
    <3>2. Waiting(q)' = Waiting(q)
      BY <1>1, <3>1 DEF Waiting
    <3> QED BY <1>1, <2>1, <3>1, <3>2 DEF FlowOf
  <2>3. CASE q = r
    <3>1. fwd[r].pc # "exit"
      BY <1>1, <2>1, <2>3 DEF FlowOf
    <3>2. channel'[r] = Append(channel[r], emitted[r] + 1) /\ emitted'[r] = emitted[r] + 1
      BY <1>1 DEF FlowInv, FlowTypes
    <3>3. Waiting(r) = channel[r] /\ Waiting(r)' = Append(channel[r], emitted[r] + 1)
      BY <1>1, <3>1, <3>2 DEF Waiting
    <3> DEFINE a == (got[r] \o Numbered(merged, r)) \o InHand(r)
    <3>4. a \in Seq(Nat)
      BY <1>2
    <3>5. a \o channel[r] = Upto(emitted[r])
      BY <2>1, <2>3, <3>3 DEF FlowOf
    <3>6. a' = a
      BY <1>1, <2>1, <2>3
    <3> HIDE DEF a
    <3>7. a \o Append(channel[r], emitted[r] + 1) = Append(a \o channel[r], emitted[r] + 1)
      <4>1. channel[r] \in Seq(Nat) /\ emitted[r] + 1 \in Nat
        BY <1>2
      <4> QED BY <3>4, <4>1, Places, Zenon
    <3>8. a \o Append(channel[r], emitted[r] + 1) = Upto(emitted[r] + 1)
      BY <1>2, <3>5, <3>7, UptoNext
    <3>9. a' \o Waiting(r)' = Upto(emitted'[r])
      BY <3>2, <3>3, <3>6, <3>8
    <3> QED BY <1>1, <2>3, <3>1, <3>9 DEF FlowOf, a
  <2> QED BY <2>2, <2>3
<1> QED BY <1>3, <1>4, <1>5 DEF FlowInv

LEMMA ReceiveFlows == ASSUME FlowInv, NEW r \in Registries, ForwardReceive(r) PROVE FlowInv'
<1> DEFINE v == Head(channel[r])
<1>1. /\ fwd[r].pc = "recv" /\ channel[r] # <<>>
      /\ UNCHANGED <<byName, closing, mux, merged, emitted, regClosed, got, known>>
      /\ fwd' = [fwd EXCEPT ![r].pc = "send", ![r].hand = v]
      /\ channel' = [channel EXCEPT ![r] = Tail(@)]
  BY DEF ForwardReceive
<1>2. /\ emitted[r] \in Nat /\ channel[r] \in Seq(Nat) /\ got[r] \in Seq(Nat) /\ Numbered(merged, r) \in Seq(Nat)
      /\ v \in Nat /\ Tail(channel[r]) \in Seq(Nat) /\ channel[r] = <<v>> \o Tail(channel[r])
  <2>1. channel[r] \in Seq(Nat)
    BY DEF FlowInv, FlowTypes
  <2>2. v \in Nat /\ Tail(channel[r]) \in Seq(Nat) /\ channel[r] = <<v>> \o Tail(channel[r])
    BY <1>1, <2>1, HeadTailProperties
  <2> QED BY <2>1, <2>2, NumberedType DEF FlowInv, FlowTypes
<1> HIDE DEF v
<1>3. /\ \A q \in Registries \ {r} : fwd'[q] = fwd[q] /\ channel'[q] = channel[q]
      /\ fwd'[r] = [pc |-> "send", name |-> fwd[r].name, hand |-> v]
      /\ channel'[r] = Tail(channel[r])
  BY <1>1 DEF FlowInv, FlowTypes, Forwarders
<1>4. FlowTypes'
  <2>1. fwd'[r] \in Forwarders
    <3>1. fwd[r].name \in Names \cup {""}
      BY DEF FlowInv, FlowTypes, Forwarders
    <3>2. v \in Nat
      BY <1>2
    <3>3. ASSUME NEW nm \in Names \cup {""}, NEW h \in Nat
          PROVE  [pc |-> "send", name |-> nm, hand |-> h] \in Forwarders
      BY DEF Forwarders
    <3>4. [pc |-> "send", name |-> fwd[r].name, hand |-> v] \in Forwarders
      BY <3>1, <3>2, <3>3
    <3> QED BY <1>3, <3>4, Zenon
  <2>2. DOMAIN fwd' = Registries /\ fwd' = [q \in Registries |-> fwd'[q]]
    BY <1>1 DEF FlowInv, FlowTypes
  <2>3. \A q \in Registries : fwd'[q] \in Forwarders
    BY <1>3, <2>1 DEF FlowInv, FlowTypes
  <2>4. fwd' \in [Registries -> Forwarders]
    BY <2>2, <2>3
  <2> QED BY <1>1, <1>2, <2>4 DEF FlowInv, FlowTypes
<1>5. MuxOrder'
  BY <1>1, <1>3 DEF FlowInv, MuxOrder
<1>6. ASSUME ~mux'.cancelled, NEW q \in Registries PROVE FlowOf(q)'
  <2>1. FlowOf(q)
    BY <1>1, <1>6 DEF FlowInv
  <2>2. CASE q # r
    BY <1>1, <1>3, <2>1, <2>2 DEF FlowOf, InHand, Waiting
  <2>3. CASE q = r
    <3>0. fwd'[r].pc = "send" /\ fwd'[r].hand = v /\ channel'[r] = Tail(channel[r])
      BY <1>3
    <3>1. InHand(r) = <<>> /\ InHand(r)' = <<v>> /\ Waiting(r) = channel[r] /\ Waiting(r)' = Tail(channel[r])
      BY <1>1, <3>0, Zenon DEF InHand, Waiting
    <3> DEFINE a == got[r] \o Numbered(merged, r)
               b == Tail(channel[r])
    <3>2. a \in Seq(Nat) /\ b \in Seq(Nat)
      BY <1>2
    <3>3. (a \o <<>>) \o channel[r] = Upto(emitted[r]) /\ a' = a /\ channel[r] = <<v>> \o b
      BY <1>1, <1>2, <2>1, <2>3, <3>1 DEF FlowOf
    <3> HIDE DEF a, b
    <3>4. a \o <<>> = a /\ a \o (<<v>> \o b) = (a \o <<v>>) \o b
      <4>1. <<v>> \in Seq(Nat)
        BY <1>2
      <4> QED BY <3>2, <4>1, ConcatAssociative, ConcatEmptySeq
    <3>5. (a' \o InHand(r)') \o Waiting(r)' = Upto(emitted[r])
      BY <3>1, <3>3, <3>4 DEF b
    <3> QED BY <1>1, <1>3, <2>3, <3>5 DEF FlowOf, a
  <2> QED BY <2>2, <2>3
<1> QED BY <1>4, <1>5, <1>6 DEF FlowInv

LEMMA SendFlows == ASSUME FlowInv, NEW r \in Registries, ForwardSend(r) PROVE FlowInv'
<1> DEFINE e == [name |-> fwd[r].name, reg |-> r, evt |-> fwd[r].hand]
<1>1. /\ fwd[r].pc = "send"
      /\ UNCHANGED <<byName, closing, mux, channel, emitted, regClosed, got, known>>
      /\ fwd' = [fwd EXCEPT ![r].pc = "recv", ![r].hand = 0]
      /\ IF mux.shut THEN merged' = merged ELSE merged' = Append(merged, e)
  BY DEF ForwardSend
<1>2. e \in Muxed /\ e.reg = r /\ e.evt = fwd[r].hand /\ fwd[r].hand \in Nat
  <2>1. fwd[r].name \in Names \cup {""} /\ fwd[r].hand \in Nat
    BY DEF FlowInv, FlowTypes, Forwarders
  <2> QED BY <2>1 DEF Muxed
<1> HIDE DEF e
<1>3. /\ \A q \in Registries \ {r} : fwd'[q] = fwd[q]
      /\ fwd'[r] = [pc |-> "recv", name |-> fwd[r].name, hand |-> 0]
  BY <1>1 DEF FlowInv, FlowTypes, Forwarders
<1>4. merged \in Seq(Muxed) /\ Append(merged, e) \in Seq(Muxed)
  BY <1>2 DEF FlowInv, FlowTypes
<1>5. FlowTypes'
  <2>1. fwd'[r] \in Forwarders
    <3>1. fwd[r].name \in Names \cup {""}
      BY DEF FlowInv, FlowTypes, Forwarders
    <3>2. 0 \in Nat
      BY <1>2
    <3>3. ASSUME NEW nm \in Names \cup {""}, NEW h \in Nat
          PROVE  [pc |-> "recv", name |-> nm, hand |-> h] \in Forwarders
      BY DEF Forwarders
    <3>4. [pc |-> "recv", name |-> fwd[r].name, hand |-> 0] \in Forwarders
      BY <3>1, <3>2, <3>3
    <3> QED BY <1>3, <3>4, Zenon
  <2>2. DOMAIN fwd' = Registries /\ fwd' = [q \in Registries |-> fwd'[q]]
    BY <1>1 DEF FlowInv, FlowTypes
  <2>3. \A q \in Registries : fwd'[q] \in Forwarders
    BY <1>3, <2>1 DEF FlowInv, FlowTypes
  <2>4. fwd' \in [Registries -> Forwarders]
    BY <2>2, <2>3
  <2> QED BY <1>1, <1>4, <2>4 DEF FlowInv, FlowTypes
<1>6. MuxOrder'
  BY <1>1, <1>3 DEF FlowInv, MuxOrder
<1>7. ASSUME ~mux'.cancelled, NEW q \in Registries PROVE FlowOf(q)'
  <2>1. FlowOf(q) /\ merged' = Append(merged, e)
    BY <1>1, <1>7 DEF FlowInv, MuxOrder
  <2>2. Numbered(merged', q) = Noted(Numbered(merged, q), e, q)
    BY <1>2, <1>4, <2>1, NumberedAppend
  <2>3. CASE q # r
    <3>1. Numbered(merged', q) = Numbered(merged, q)
      BY <1>2, <2>2, <2>3 DEF Noted
    <3> QED BY <1>1, <1>3, <2>1, <2>3, <3>1 DEF FlowOf, InHand, Waiting
  <2>4. CASE q = r
    <3>1. InHand(r) = <<fwd[r].hand>> /\ InHand(r)' = <<>> /\ Waiting(r)' = Waiting(r)
      BY <1>1, <1>3 DEF InHand, Waiting
    <3> DEFINE a == got[r]
               b == Numbered(merged, r)
               v == fwd[r].hand
    <3>2. a \in Seq(Nat) /\ b \in Seq(Nat) /\ v \in Nat
      BY <1>2, <1>4, NumberedType DEF FlowInv, FlowTypes
    <3>3. Numbered(merged', r) = Append(b, v)
      BY <1>2, <2>2, <2>4 DEF Noted
    <3>4. ((a \o b) \o <<v>>) \o Waiting(r) = Upto(emitted[r])
      BY <2>1, <2>4, <3>1 DEF FlowOf
    <3> HIDE DEF b, v
    <3>5. a \o Append(b, v) = (a \o b) \o <<v>> /\ (a \o Append(b, v)) \o <<>> = a \o Append(b, v)
      <4>1. a \o Append(b, v) \in Seq(Nat)
        BY <3>2
      <4>2. (a \o Append(b, v)) \o <<>> = a \o Append(b, v)
        BY <4>1, ConcatEmptySeq
      <4> QED BY <3>2, <4>2, Places, Zenon
    <3>6. ((a \o Append(b, v)) \o InHand(r)') \o Waiting(r)' = Upto(emitted[r])
      BY <3>1, <3>4, <3>5
    <3> QED BY <1>1, <1>3, <2>1, <2>4, <3>3, <3>6 DEF FlowOf
  <2> QED BY <2>3, <2>4
<1> QED BY <1>5, <1>6, <1>7 DEF FlowInv

LEMMA ExitFlows == ASSUME FlowInv, NEW r \in Registries, ForwardExit(r) PROVE FlowInv'
<1> DEFINE gone == [NoForwarder EXCEPT !.pc = "exit"]
<1>1. /\ fwd[r].pc # "off" /\ fwd' = [fwd EXCEPT ![r] = gone]
      /\ mux.cancelled \/ (fwd[r].pc = "recv" /\ r \in regClosed /\ channel[r] = <<>>)
      /\ UNCHANGED <<byName, closing, mux, merged, channel, emitted, regClosed, got, known>>
  BY DEF ForwardExit, Gone
<1>2. gone \in Forwarders /\ gone.pc = "exit"
  BY DEF NoForwarder, Forwarders
<1> HIDE DEF gone
<1>3. fwd'[r] = gone /\ \A q \in Registries \ {r} : fwd'[q] = fwd[q]
  BY <1>1 DEF FlowInv, FlowTypes
<1>4. FlowTypes' /\ MuxOrder'
  BY <1>1, <1>2, <1>3 DEF FlowInv, FlowTypes, MuxOrder
<1>5. ASSUME ~mux'.cancelled, NEW q \in Registries PROVE FlowOf(q)'
  <2>1. FlowOf(q)
    BY <1>1, <1>5 DEF FlowInv
  <2>2. CASE q # r
    BY <1>1, <1>3, <2>1, <2>2 DEF FlowOf, InHand, Waiting
  <2>3. CASE q = r
    <3>1. InHand(r) = <<>> /\ InHand(r)' = <<>> /\ Waiting(r) = <<>> /\ Waiting(r)' = <<>>
      BY <1>1, <1>2, <1>3, <1>5 DEF InHand, Waiting
    <3> QED BY <1>1, <1>5, <2>1, <2>3, <3>1 DEF FlowOf
  <2> QED BY <2>2, <2>3
<1> QED BY <1>4, <1>5 DEF FlowInv

LEMMA ConsumeFlows == ASSUME FlowInv, Consume PROVE FlowInv'
<1> DEFINE e == Head(merged)
<1>1. /\ merged # <<>> /\ merged' = Tail(merged) /\ got' = [got EXCEPT ![e.reg] = Append(@, e.evt)]
      /\ UNCHANGED <<byName, closing, mux, fwd, channel, emitted, regClosed, known>>
  BY DEF Consume
<1>2. merged \in Seq(Muxed) /\ e \in Muxed /\ Tail(merged) \in Seq(Muxed)
  BY <1>1 DEF FlowInv, FlowTypes
<1>3. e.reg \in Registries /\ e.evt \in Nat
  BY <1>2 DEF Muxed
<1>4. ASSUME NEW q \in Registries
      PROVE  Numbered(merged, q) = Noted(<<>>, e, q) \o Numbered(Tail(merged), q)
  BY <1>1, <1>2, NumberedTail
<1> HIDE DEF e
<1>5. got[e.reg] \in Seq(Nat) /\ Append(got[e.reg], e.evt) \in Seq(Nat)
  BY <1>3 DEF FlowInv, FlowTypes
<1>6. FlowTypes'
  BY <1>1, <1>2, <1>3, <1>5 DEF FlowInv, FlowTypes
<1>7. MuxOrder'
  BY <1>1 DEF FlowInv, MuxOrder
<1>8. ASSUME ~mux'.cancelled, NEW q \in Registries PROVE FlowOf(q)'
  <2>1. FlowOf(q)
    BY <1>1, <1>8 DEF FlowInv
  <2> DEFINE a == got[q]
             b == Numbered(Tail(merged), q)
  <2>2. a \in Seq(Nat) /\ b \in Seq(Nat)
    BY <1>2, NumberedType DEF FlowInv, FlowTypes
  <2>3. Numbered(merged, q) = Noted(<<>>, e, q) \o b /\ Numbered(merged', q) = b
    BY <1>1, <1>4
  <2>4. got'[q] \o b = a \o Numbered(merged, q)
    <3>1. CASE e.reg = q
      <4>1. got'[q] = Append(a, e.evt) /\ Noted(<<>>, e, q) = <<e.evt>>
        BY <1>1, <1>3, <3>1 DEF FlowInv, FlowTypes, Noted
      <4> HIDE DEF a, b
      <4>2. a \o (<<e.evt>> \o b) = Append(a, e.evt) \o b
        BY <1>3, <2>2, Places
      <4> QED BY <2>3, <4>1, <4>2
    <3>2. CASE e.reg # q
      <4>1. got'[q] = a /\ Noted(<<>>, e, q) = <<>>
        BY <1>1, <3>2 DEF FlowInv, FlowTypes, Noted
      <4> HIDE DEF a, b
      <4>2. <<>> \o b = b
        BY <2>2, ConcatEmptySeq
      <4> QED BY <2>3, <4>1, <4>2
    <3> QED BY <3>1, <3>2
  <2>5. InHand(q)' = InHand(q) /\ Waiting(q)' = Waiting(q)
    BY <1>1 DEF InHand, Waiting
  <2> HIDE DEF b
  <2> QED BY <1>1, <2>1, <2>3, <2>4, <2>5 DEF FlowOf
<1> QED BY <1>6, <1>7, <1>8 DEF FlowInv

LEMMA FlowNext == ASSUME FlowInv, [ConfigsNext]_configsVars PROVE FlowInv'
<1>1. CASE UNCHANGED configsVars
  BY <1>1 DEF configsVars, FlowInv, FlowTypes, MuxOrder, FlowOf, InHand, Waiting
<1>2. ASSUME NEW r \in Registries, Forward(r) PROVE FlowInv'
  BY <1>2, ReceiveFlows, SendFlows, ExitFlows DEF Forward
<1>3. CASE ConfigsNext
  BY <1>2, <1>3, RegisterFlows, EventsFlow, CloseFlows, ClosingFlows, EmitFlows, ConsumeFlows DEF ConfigsNext
<1> QED BY <1>1, <1>3

\* Until Close cancels the forwarders, each event a watched registry
\* delivered is, once and in order, with a consumer, in the multiplexed
\* channel, in the forwarder's hand or still in the registry's own channel,
\* however registries are added and removed: a forwarder that ends leaves
\* nothing behind (startForwarderLocked, Register, Remove).
THEOREM KeepsEvents == ConfigsSpec => []NothingLost
<1>1. FlowInv /\ [ConfigsNext]_configsVars => FlowInv'
  BY FlowNext
<1> QED BY <1>1, FlowInit, FlowHolds, PTL DEF ConfigsSpec
=============================================================================
