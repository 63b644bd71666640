------------------------------ MODULE Configs ------------------------------
(***************************************************************************)
(* Configs (configs.go): named registries, the multiplexed event channel   *)
(* that the first call of Events makes, one forwarder per watched          *)
(* registry, and Close in its steps.  Of a registry only its event channel *)
(* is seen here (module WatchEngine has the rest); its events are numbered.*)
(***************************************************************************)
EXTENDS Naturals, Sequences, FiniteSets

Seqs == INSTANCE SequencesExt

CONSTANTS
    Names,              \* registration names
    Registries,         \* registries, each registered at most once
    Watched,            \* the ones built with a watch engine
    RegistryBuf,        \* WithEventBufferSize of each
    LateRegister,       \* whether clients still call Register beside or after Close
    MaxEvents           \* bound: events each registry delivers

ASSUME ConfigsAssumption ==
    /\ Watched \subseteq Registries
    /\ RegistryBuf \in Nat \ {0} /\ MaxEvents \in Nat
    /\ LateRegister \in BOOLEAN

VARIABLES
    byName,             \* name -> registry
    order,              \* names in registration order
    closing,            \* Close: "no", "stop", "wait", "chan", "all", "done"
    mux,                \* made, cap, cancelled, shut: the channel and its context
    merged,             \* the multiplexed channel
    forwarders,         \* names with an entry in the forwarders map
    fwd,                \* each registry's forwarder: pc, name, hand
    channel,            \* each registry's event channel
    emitted,            \* events each registry put on it
    regClosed,          \* registries that are closed
    got,                \* events of each registry that consumers received
    known,              \* every registry registered so far
    panicked            \* a forwarder sent on the closed channel

configsVars == <<byName, order, closing, mux, merged, forwarders, fwd, channel, emitted,
                 regClosed, got, known, panicked>>

NoForwarder == [pc |-> "off", name |-> "", hand |-> 0]

ConfigsInit ==
    /\ byName = [n \in {} |-> n] /\ order = <<>>
    /\ closing = "no"
    /\ mux = [made |-> FALSE, cap |-> 0, cancelled |-> FALSE, shut |-> FALSE]
    /\ merged = <<>>
    /\ forwarders = {}
    /\ fwd = [r \in Registries |-> NoForwarder]
    /\ channel = [r \in Registries |-> <<>>]
    /\ emitted = [r \in Registries |-> 0]
    /\ regClosed = {}
    /\ got = [r \in Registries |-> <<>>]
    /\ known = {}
    /\ panicked = FALSE

\* startForwarderLocked for every name of reg (a function from names to
\* registries) without an entry: an unwatched registry gets none.
startForwarders(reg) ==
    LET new == {n \in DOMAIN reg \ forwarders : reg[n] \in Watched}
    IN  /\ forwarders' = forwarders \cup new
        /\ fwd' = [r \in Registries |->
                      IF \E n \in new : reg[n] = r
                      THEN [pc |-> "recv", name |-> CHOOSE n \in new : reg[n] = r, hand |-> 0]
                      ELSE fwd[r]]

Register(n, r) ==
    /\ closing = "no" \/ LateRegister
    /\ n \notin DOMAIN byName /\ r \notin known
    /\ byName' = [x \in DOMAIN byName \cup {n} |-> IF x = n THEN r ELSE byName[x]]
    /\ order' = Append(order, n)
    /\ known' = known \cup {r}
    /\ IF mux.made THEN startForwarders([x \in {n} |-> r]) ELSE UNCHANGED <<forwarders, fwd>>
    /\ UNCHANGED <<closing, mux, merged, channel, emitted, regClosed, got, panicked>>

Unlisted(n) ==
    /\ byName' = [x \in DOMAIN byName \ {n} |-> byName[x]]
    /\ order' = Seqs!RemoveFirst(order, n)

\* Mutants of Remove: the forwarders entry stays; the registry stays open.
RemoveKeepsEntry(n) ==
    /\ n \in DOMAIN byName /\ Unlisted(n)
    /\ regClosed' = regClosed \cup {byName[n]}
    /\ UNCHANGED <<closing, mux, merged, forwarders, fwd, channel, emitted, got, known, panicked>>
RemoveLeavesOpen(n) ==
    /\ n \in DOMAIN byName /\ Unlisted(n)
    /\ forwarders' = forwarders \ {n}
    /\ UNCHANGED <<closing, mux, merged, fwd, channel, emitted, regClosed, got, known, panicked>>

\* Remove closes the registry under the lock; its forwarder ends by itself.
Remove(n) ==
    /\ n \in DOMAIN byName /\ Unlisted(n)
    /\ forwarders' = forwarders \ {n}
    /\ regClosed' = regClosed \cup {byName[n]}
    /\ UNCHANGED <<closing, mux, merged, fwd, channel, emitted, got, known, panicked>>

\* The first call makes the channel, sized by the registries there are.
Events ==
    /\ closing = "no" /\ ~mux.made
    /\ mux' = [mux EXCEPT !.made = TRUE, !.cap = Cardinality(DOMAIN byName) * 4 + 1]
    /\ startForwarders(byName)
    /\ UNCHANGED <<byName, order, closing, merged, channel, emitted, regClosed, got, known, panicked>>
-----------------------------------------------------------------------------
(* A registry delivers an event, or its owner closes it: both outside      *)
(* Configs.  A full channel drops (module WatchEngine).                    *)
Emit(r) ==
    /\ r \in Watched \ regClosed /\ emitted[r] < MaxEvents /\ Len(channel[r]) < RegistryBuf
    /\ emitted' = [emitted EXCEPT ![r] = @ + 1]
    /\ channel' = [channel EXCEPT ![r] = Append(@, emitted[r] + 1)]
    /\ UNCHANGED <<byName, order, closing, mux, merged, forwarders, fwd, regClosed, got, known, panicked>>

CloseRegistry(r) ==
    /\ r \in known \ regClosed
    /\ regClosed' = regClosed \cup {r}
    /\ UNCHANGED <<byName, order, closing, mux, merged, forwarders, fwd, channel, emitted, got, known, panicked>>
-----------------------------------------------------------------------------
(* A forwarder: both selects also watch the context.                       *)
ForwardReceive(r) ==
    /\ fwd[r].pc = "recv" /\ channel[r] # <<>>
    /\ fwd' = [fwd EXCEPT ![r].pc = "send", ![r].hand = Head(channel[r])]
    /\ channel' = [channel EXCEPT ![r] = Tail(@)]
    /\ UNCHANGED <<byName, order, closing, mux, merged, forwarders, emitted, regClosed, got, known, panicked>>

\* A send on the closed channel is ready, and panics when it is chosen.
ForwardSend(r) ==
    /\ fwd[r].pc = "send"
    /\ IF mux.shut
       THEN panicked' = TRUE /\ UNCHANGED merged
       ELSE /\ Len(merged) < mux.cap
            /\ merged' = Append(merged, [name |-> fwd[r].name, reg |-> r, evt |-> fwd[r].hand])
            /\ UNCHANGED panicked
    /\ fwd' = [fwd EXCEPT ![r].pc = "recv", ![r].hand = 0]
    /\ UNCHANGED <<byName, order, closing, mux, forwarders, channel, emitted, regClosed, got, known>>

Gone(r) ==
    /\ fwd' = [fwd EXCEPT ![r] = [NoForwarder EXCEPT !.pc = "exit"]]
    /\ UNCHANGED <<byName, order, closing, mux, merged, forwarders, channel, emitted, regClosed,
                   got, known, panicked>>

\* Mutants of ForwardExit: a closed channel is not drained; the send does
\* not watch the context.
ForwardExitUndrained(r) ==
    /\ \/ fwd[r].pc \in {"recv", "send"} /\ mux.cancelled
       \/ fwd[r].pc = "recv" /\ r \in regClosed
    /\ Gone(r)
ForwardExitIdle(r) ==
    /\ fwd[r].pc = "recv"
    /\ mux.cancelled \/ (r \in regClosed /\ channel[r] = <<>>)
    /\ Gone(r)

ForwardExit(r) ==
    /\ \/ fwd[r].pc \in {"recv", "send"} /\ mux.cancelled
       \/ fwd[r].pc = "recv" /\ r \in regClosed /\ channel[r] = <<>>
    /\ Gone(r)

Consume ==
    /\ merged # <<>>
    /\ merged' = Tail(merged)
    /\ got' = [got EXCEPT ![Head(merged).reg] = Append(@, Head(merged).evt)]
    /\ UNCHANGED <<byName, order, closing, mux, forwarders, fwd, channel, emitted, regClosed, known, panicked>>
-----------------------------------------------------------------------------
(* Close: mark closed under the lock; cancel; wait for the forwarders;     *)
(* close the channel; then, under the lock again, close the registries.    *)
CloseStep(from, to) ==
    /\ closing = from /\ closing' = to
    /\ UNCHANGED <<forwarders, fwd, channel, emitted, got, known, panicked>>

CloseMark == CloseStep("no", "stop") /\ UNCHANGED <<byName, order, mux, merged, regClosed>>

CloseCancel ==
    /\ CloseStep("stop", "wait")
    /\ mux' = [mux EXCEPT !.cancelled = mux.made]
    /\ UNCHANGED <<byName, order, merged, regClosed>>

\* Mutant of CloseWait: it does not wait.
CloseHurried == CloseStep("wait", "chan") /\ UNCHANGED <<byName, order, mux, merged, regClosed>>

CloseWait ==
    /\ CloseStep("wait", "chan")
    /\ \A r \in Registries : fwd[r].pc \in {"off", "exit"}
    /\ UNCHANGED <<byName, order, mux, merged, regClosed>>

CloseChannel ==
    /\ CloseStep("chan", "all")
    /\ mux' = [mux EXCEPT !.shut = mux.made]
    /\ UNCHANGED <<byName, order, merged, regClosed>>

CloseAll ==
    /\ CloseStep("all", "done")
    /\ regClosed' = regClosed \cup {byName[order[i]] : i \in DOMAIN order}
    /\ byName' = [n \in {} |-> n] /\ order' = <<>>
    /\ UNCHANGED <<mux, merged>>

Close == CloseCancel \/ CloseWait \/ CloseChannel \/ CloseAll
Forward(r) == ForwardReceive(r) \/ ForwardSend(r) \/ ForwardExit(r)

ConfigsNext ==
    \/ \E n \in Names : Remove(n) \/ \E r \in Registries : Register(n, r)
    \/ Events \/ CloseMark \/ Close \/ Consume
    \/ \E r \in Registries : Emit(r) \/ CloseRegistry(r) \/ Forward(r)

ConfigsSpec == ConfigsInit /\ [][ConfigsNext]_configsVars

\* A Close that began goes on, and forwarders run; nobody has to consume.
FairConfigsSpec ==
    /\ ConfigsSpec
    /\ WF_configsVars(Close)
    /\ \A r \in Registries : WF_configsVars(Forward(r))
-----------------------------------------------------------------------------
\* The numbers of r's events in s, in order.
Numbered(s, r) ==
    LET out[i \in 0..Len(s)] == IF i = 0 THEN <<>>
                                ELSE IF s[i].reg = r THEN Append(out[i-1], s[i].evt) ELSE out[i-1]
    IN  out[Len(s)]
InHand(r) == IF fwd[r].pc = "send" THEN <<fwd[r].hand>> ELSE <<>>
Waiting(r) == IF fwd[r].pc = "exit" THEN <<>> ELSE channel[r]

\* "carrying every contained registry's events": until Close, what the
\* consumers received and what is under way is every event a registry
\* delivered, once and in order, a removed registry's last ones included
\* (startForwarderLocked, Remove).
NothingLost ==
    ~mux.cancelled => \A r \in Registries :
        got[r] \o Numbered(merged, r) \o InHand(r) \o Waiting(r) = [i \in 1..emitted[r] |-> i]

\* Once Events was called, every open watched registry has a running
\* forwarder under its name, however names are removed and reused
\* (Register, Remove).
AllForwarded ==
    mux.made /\ closing = "no" => \A n \in DOMAIN byName :
        byName[n] \in Watched \ regClosed
            => fwd[byName[n]].pc \in {"recv", "send"} /\ fwd[byName[n]].name = n

\* No forwarder sends on the channel Close closed: "Stop the multiplex under
\* lock to coordinate with Register" (Close).
NoSendOnClosed == ~panicked

\* "Closing a Configs closes every contained Registry", and Remove the one
\* it removes.
ClosesEverything ==
    /\ \A r \in known : r \notin regClosed => \E n \in DOMAIN byName : byName[n] = r
    /\ closing = "done" => DOMAIN byName = {}

\* Close returns with nobody reading the channel.
ConfigsCloseReturns == closing # "no" ~> closing = "done"
=============================================================================
