-------------------------------- MODULE MCLinks --------------------------------
\* The links between processes and between a client and its room, and what goes over
\* them, each checked on its own in one run: `part` says which of them moves.
EXTENDS Wire, MessageTypes, Backplane

CONSTANTS Kind, MaxUnclaimed, MaxFrames, MaxBinds,
          Peer, Newcomer, MaxAsks, MaxLosses,
          Samples, Escape, MaxRef, Seats, MapKeys, Used, Placed, MaxTouches, a, b,
          Guest, RoomCap, MaxProxyCalls, MaxOwnSteps, MaxLostCalls, MaxEffects, MaxApplied

VARIABLES part,
          room, tasks, sent, early, got, applied, spoiled,
          asker, alive, holds, known, outbox, inbox, req, had, ran, dropped, losses,
          message, received,
          root, items, before, context, allowed, visible, joined, synced, server, session, behind,
          exact, badKey, touches,
          remote, cache, asked, answers, open, serial, drift, mine, unsure, fetched, kicked, heard,
          ownSteps, lostCalls,
          mounted, effects, result, selector, version, view, listens, dirty, late

Box == INSTANCE RoomInbox
Disc == INSTANCE Discovery
Codec == INSTANCE MessageCodec
Ops == INSTANCE OpStream
Proxy == INSTANCE RoomProxy
Hooks == INSTANCE RoomHooks

box == <<room, tasks, sent, early, got, applied, spoiled>>
discovery == <<asker, alive, holds, known, outbox, inbox, req, had, ran, dropped, losses>>
codec == <<message, received>>
stream == <<root, items, before, context, allowed, visible, joined, synced, server, session, behind,
            exact, badKey, touches>>
proxy == <<remote, cache, asked, answers, open, serial, drift, mine, unsure, fetched, kicked, heard,
           ownSteps, lostCalls>>
hooks == <<mounted, effects, result, selector, version, view, listens, dirty, late>>
vars == <<part, box, discovery, backplaneVars, codec, stream, proxy, hooks>>

Seating == <<a, b>>
KeyOrder == <<1, 300>>
KeysUsed == [home \in {"open", "vault"} |-> IF home = "open" THEN {1} ELSE {1, 300}]

\* Payloads for each declaration: numbers at and between the ends of their types, flags
\* that fill a byte, strings that are not valid on the wire, optionals and nested messages.
Numbers == {Num(q) : q \in {-10241, -2561, -31, -10, -9, -3, -1, 0, 1, 2, 3, 10, 29, 30, 2539,
                            2540, 5101, 5120}}
           \cup {NaN, PosInf, NegInf, NegZero}
Numeric == {Scalar(k) : k \in IntKind \cup {"float64", "float32"}}
           \cup {Fixed(0), Fixed(1)}
Texts   == {Str(s) : s \in {<<>>, <<97>>, <<0>>, <<97, 55296>>, <<0, 0, 0>>, <<97, 0, 97, 97>>}}
Odd     == {Str(<<>>), Str(<<97, 55296>>)}
Either  == {Bool(TRUE), Bool(FALSE)}
Maybe   == Either \cup {Absent}
OptFlag == Optional(Scalar("bool"))
Inner   == <<Optional(Scalar("int8")), OptFlag>>
Inners  == {Msg(<<x, y>>) : x \in {Absent, Num(-20)}, y \in Maybe}
MapText == MapOf(Optional(Scalar("float64")))
Entries == {<<>>, <<[k |-> <<97>>, v |-> Absent]>>,
            <<[k |-> <<0>>, v |-> Num(7)], [k |-> <<>>, v |-> NegZero]>>}
Given(def, payloads) == {[def |-> def, payload |-> p] : p \in payloads}

Messages ==
    Given(<<>>, {<<>>}) \cup
    UNION {Given(<<f>>, {<<x>> : x \in Numbers}) : f \in Numeric}
    \cup Given(<<OptFlag, Scalar("bool"), OptFlag, Optional(Scalar("uint8")), OptFlag,
                 OptFlag>>,
               Maybe \X Either \X Maybe \X {Absent, Num(20)} \X Maybe
               \X {Absent, Bool(TRUE)})
    \cup Given(<<Optional(Scalar("string")), ArrayOf(Scalar("string")),
                 Optional(Enum(3))>>,
               (Texts \cup {Absent})
               \X {Arr(s) : s \in {<<>>} \cup {<<x>> : x \in Texts} \cup (Odd \X Odd)}
               \X {Absent, Case(1), Case(3)})
    \cup Given(<<Nested(Inner), ArrayOf(Nested(Inner)), MapText>>,
               Inners \X {Arr(s) : s \in {<<>>, <<Msg(<<Num(-20), Absent>>), Msg(<<Absent, Bool(TRUE)>>)>>} \cup {<<x>> : x \in Inners}}
               \X {Map(m) : m \in Entries})
    \cup Given(<<Nested(Inner), ArrayOf(Nested(<<>>))>>,
               Inners \X {Arr(<<Msg(<<>>)>>)})

\* The parts that do not move stay at one of their initial states.
Init ==
    /\ part \in {"inbox", "discovery", "backplane", "codec", "stream", "proxy", "hooks"}
    /\ Box!InboxInit
    /\ Disc!DiscoveryInit
    /\ part # "discovery" => holds = {}
    /\ BackplaneInit
    /\ IF part = "codec" THEN Codec!MessageInit
       ELSE message = [def |-> <<>>, payload |-> <<>>] /\ received = Codec!Pending
    /\ Ops!OpInit
    /\ part # "stream" => items["open"][1] = Ops!Nothing /\ items["vault"][1] = Ops!Nothing
    /\ Proxy!ProxyInit
    /\ part # "proxy" => remote.seats = {}
    /\ Hooks!HooksInit
    /\ part # "hooks" => ~selector

Next ==
    \/ part = "inbox" /\ Box!InboxNext
       /\ UNCHANGED <<part, discovery, backplaneVars, codec, stream, proxy, hooks>>
    \/ part = "discovery" /\ Disc!DiscoveryNext
       /\ UNCHANGED <<part, box, backplaneVars, codec, stream, proxy, hooks>>
    \/ part = "backplane" /\ BackplaneNext
       /\ UNCHANGED <<part, box, discovery, codec, stream, proxy, hooks>>
    \/ part = "codec" /\ Codec!MessageNext
       /\ UNCHANGED <<part, box, discovery, backplaneVars, stream, proxy, hooks>>
    \/ part = "stream" /\ Ops!OpNext
       /\ UNCHANGED <<part, box, discovery, backplaneVars, codec, proxy, hooks>>
    \/ part = "proxy" /\ Proxy!ProxyNext
       /\ UNCHANGED <<part, box, discovery, backplaneVars, codec, stream, hooks>>
    \/ part = "hooks" /\ Hooks!HooksNext
       /\ UNCHANGED <<part, box, discovery, backplaneVars, codec, stream, proxy>>

Spec == Init /\ [][Next]_vars

\* What reaches a room before its listeners is kept for them in order, and its replica
\* applies what the server sent, in order (client-js/src/room.ts).
InboxSound == Box!InboxSound

\* A question to the cluster that ends early has heard everyone that counts
\* (requests.ts, node.ts, registry.ts).
DiscoverySound == Disc!DiscoverySound

\* A receiver holds of every field of a message what its type promises of the value sent,
\* under either codec, and nothing but an exact encoding is accepted (schema-codec.ts,
\* message-codec.ts, messagepack.ts).
MessagesSound == part = "codec" => Codec!MessagesSound

\* A client whose patches could be encoded decodes the very ops that were selected for it,
\* and its session agrees with the room's on every ref it holds; without a key outside its
\* type every patch can be encoded (schema-codec.ts, encoder.ts, room.ts).
StreamSound == part = "stream" => Ops!StreamSound

\* A proxy of a room on another process describes it as it is once nothing is under way,
\* and its calls take effect in the order they were made (cluster/proxy.ts, server.ts).
ProxySound == Proxy!ProxySound

\* A React component keeps no room it no longer asks for, and shows the room and the state
\* it has now (client-js/src/react/index.ts).
HooksSound == Hooks!HooksSound
=============================================================================
