----------------------------- MODULE Mcp_proofs -----------------------------
(***************************************************************************)
(* MCP servers.  Of McpConnections, for any servers, any number of requests *)
(* and clients: nothing leads to a client that is gone, no client is lost,  *)
(* the tools offered are those there are, and the settings, connections and *)
(* tools come to what the user asked for.  Of McpTransport, for any set of  *)
(* calls and any amount of noise: at most one reader, own answers while the *)
(* pipe is in step, and that a pipe out of step stays so.                   *)
(***************************************************************************)
EXTENDS McpConnections, McpTransport, TLAPS

-----------------------------------------------------------------------------
\* What is assumed of the constants.
Given ==
  /\ Jira \notin Servers /\ Listed \subseteq Servers
  /\ MaxClients \in Nat /\ MaxOps \in Nat

Typed == Given /\ TypeOK

LEMMA CorosAre == "task" \in Coros /\ "handler" \in Coros /\ Coros = {"task", "handler"}
BY DEF Coros

LEMMA ClientsAre ==
  ASSUME Typed
  PROVE  /\ Nobody \notin Clients /\ Clients \subseteq Nat /\ Nobody = 0
         /\ made \in Nat /\ made <= MaxClients /\ MaxClients \in Nat
         /\ \A c \in 1 .. made : c \in Clients /\ c # Nobody
BY DEF Clients, Nobody, Typed, Given, TypeOK

\* The types of each part of a frame.
LEMMA FrameParts ==
  ASSUME Typed, NEW co \in Coros
  PROVE  /\ frame[co] \in Frames
         /\ frame[co].kind \in Kinds /\ frame[co].at \in {"idle", "drop", "closing", "open", "opening"}
         /\ frame[co].obj \in {"task", "own"} /\ frame[co].drop \subseteq Names /\ frame[co].open \subseteq Names
         /\ frame[co].name \in Names /\ frame[co].client \in Clients \cup {Nobody}
         /\ frame[co].hide \subseteq Tools
<1>1. frame[co] \in Frames
  BY DEF Typed, TypeOK
<1> QED BY <1>1 DEF Frames

\* A step of one coroutine leaves the other's frame alone.
LEMMA Goes ==
  ASSUME Typed, NEW co \in Coros, NEW g \in Frames, Go(co, g)
  PROVE  /\ frame' \in [Coros -> Frames] /\ frame'[co] = g
         /\ \A o \in Coros : o # co => frame'[o] = frame[o]
BY DEF Go, Typed, TypeOK

\* What a request does, whatever it is about.
LEMMA BeginDoes ==
  ASSUME Typed, NEW kind \in Kinds, NEW obj \in {"task", "own"},
         NEW drop \in SUBSET Names, NEW open \in SUBSET Names, Begin(kind, obj, drop, open)
  PROVE  /\ frame' \in [Coros -> Frames]
         /\ frame["handler"].at = "idle" /\ frame'["task"] = frame["task"]
         /\ LET g == frame'["handler"] IN
              /\ g.kind = kind /\ g.at = "drop" /\ g.obj = obj /\ g.drop = drop /\ g.open = open
              /\ g.name = Jira /\ g.client = Nobody /\ g.hide = {}
         /\ overlap' = (overlap \/ frame["task"].at # "idle") /\ overlap' \in BOOLEAN
         /\ ops' \in 0 .. MaxOps
         /\ UNCHANGED <<managerVars, cache, failed, stale>>
<1> DEFINE g == [Rest EXCEPT !.kind = kind, !.at = "drop", !.obj = obj, !.drop = drop, !.open = open]
<1>1. Rest \in Frames /\ Rest.name = Jira /\ Rest.client = Nobody /\ Rest.hide = {}
  BY DEF Rest, Frames, Kinds, Names
<1>2. /\ g \in Frames
      /\ g.kind = kind /\ g.at = "drop" /\ g.obj = obj /\ g.drop = drop /\ g.open = open
      /\ g.name = Jira /\ g.client = Nobody /\ g.hide = {}
  BY <1>1 DEF Frames
<1>3. Go("handler", g)
  BY DEF Begin
<1> HIDE DEF g
<1>4. frame' \in [Coros -> Frames] /\ frame'["handler"] = g /\ frame'["task"] = frame["task"]
  BY <1>2, <1>3, Goes, CorosAre
<1>5. overlap' \in BOOLEAN /\ ops' \in 0 .. MaxOps
  BY DEF Begin, Typed, Given, TypeOK
<1> QED BY <1>2, <1>4, <1>5 DEF Begin

\* The handler's frame.
LEMMA BeginFrame ==
  ASSUME Typed, NEW kind, NEW obj, NEW drop, NEW open, Begin(kind, obj, drop, open)
  PROVE  /\ frame'["handler"].kind = kind /\ frame'["handler"].at = "drop" /\ frame'["handler"].obj = obj
         /\ frame'["handler"].drop = drop /\ frame'["handler"].open = open
         /\ frame["handler"].at = "idle" /\ frame'["task"] = frame["task"]
<1> DEFINE g == [Rest EXCEPT !.kind = kind, !.at = "drop", !.obj = obj, !.drop = drop, !.open = open]
<1>1. g.kind = kind /\ g.at = "drop" /\ g.obj = obj /\ g.drop = drop /\ g.open = open
  BY DEF Rest
<1>2. frame' = [frame EXCEPT !["handler"] = g] /\ frame["handler"].at = "idle"
  BY DEF Begin, Go
<1> HIDE DEF g
<1>3. DOMAIN frame = Coros
  BY DEF Typed, TypeOK
<1>4. frame'["handler"] = g /\ frame'["task"] = frame["task"]
  BY <1>2, <1>3, CorosAre
<1> QED BY <1>1, <1>2, <1>4

\* The operations of the handlers, and what they have to drop and to open.
Requested(kind, obj, drop, open) ==
  /\ Begin(kind, obj, drop, open)
  /\ kind = "install" => drop = {}
  /\ kind # "reload" => \A m, n \in drop : m = n

LEMMA RequestBegins ==
  ASSUME Typed, Request
  PROVE  \E kind \in Kinds \ {"none", "connectAll"}, obj \in {"task", "own"},
            drop \in SUBSET Names, open \in SUBSET Names : Requested(kind, obj, drop, open)
<1>1. Obj \in {"task", "own"} /\ "own" \in {"task", "own"}
  BY DEF Obj, Typed, TypeOK
<1>2. \A s \in Names : \A b : If(s, b) \in SUBSET Names
  BY DEF If
<1>3. Servers \subseteq Names /\ Jira \in Names
  BY DEF Names
<1>4. {"toggle", "save", "reconnect", "reload", "install", "uninstall", "jira"} = Kinds \ {"none", "connectAll"}
  BY DEF Kinds
<1>5. ASSUME NEW s \in Servers, Reconnect(s) \/ Uninstall(s)
      PROVE  \E kind \in Kinds \ {"none", "connectAll"}, obj \in {"task", "own"},
                drop \in SUBSET Names, open \in SUBSET Names : Requested(kind, obj, drop, open)
  <2>1. {s} \in SUBSET Names
    BY <1>3
  <2>2. Requested("reconnect", Obj, If(s, Connected(s)), If(s, Current[s].enabled))
        \/ Requested("uninstall", Obj, If(s, Connected(s)), {s})
    BY <1>5 DEF Reconnect, Uninstall, Requested, If
  <2>3. If(s, Connected(s)) \in SUBSET Names /\ If(s, Current[s].enabled) \in SUBSET Names
    BY <1>2, <1>3
  <2> QED BY <1>1, <1>4, <2>1, <2>2, <2>3
<1>6. ASSUME NEW s \in Servers, NEW b \in BOOLEAN, ToggleServer(s, b) \/ Install(s, b)
      PROVE  \E kind \in Kinds \ {"none", "connectAll"}, obj \in {"task", "own"},
                drop \in SUBSET Names, open \in SUBSET Names : Requested(kind, obj, drop, open)
  <2>1. Requested("toggle", Obj, If(s, ~b /\ Connected(s)), If(s, b /\ ~Connected(s) /\ disk[s].listed))
        \/ Requested("install", Obj, {}, If(s, b))
    BY <1>6 DEF ToggleServer, Install, Requested, If
  <2>2. If(s, ~b /\ Connected(s)) \in SUBSET Names /\ {} \in SUBSET Names
        /\ If(s, b /\ ~Connected(s) /\ disk[s].listed) \in SUBSET Names /\ If(s, b) \in SUBSET Names
    BY <1>2, <1>3
  <2> QED BY <1>1, <1>4, <2>1, <2>2
<1>7. ASSUME NEW s \in Servers, NEW h \in SUBSET Tools, SaveTools(s, h)
      PROVE  \E kind \in Kinds \ {"none", "connectAll"}, obj \in {"task", "own"},
                drop \in SUBSET Names, open \in SUBSET Names : Requested(kind, obj, drop, open)
  <2>1. PICK st : Begin("save", Obj, If(s, Connected(s)), If(s, Connected(s) /\ st[s].enabled))
    BY <1>7 DEF SaveTools
  <2>2. If(s, Connected(s)) \in SUBSET Names /\ If(s, Connected(s) /\ st[s].enabled) \in SUBSET Names
    BY <1>2, <1>3
  <2>3. Requested("save", Obj, If(s, Connected(s)), If(s, Connected(s) /\ st[s].enabled))
    BY <2>1 DEF Requested, If
  <2> QED BY <1>1, <1>4, <2>2, <2>3
<1>8. ASSUME Reload \/ JiraConnect \/ JiraDisconnect
      PROVE  \E kind \in Kinds \ {"none", "connectAll"}, obj \in {"task", "own"},
                drop \in SUBSET Names, open \in SUBSET Names : Requested(kind, obj, drop, open)
  <2>1. Requested("reload", "own", {n \in Names : Connected(n)} \ Enabled(disk), {})
        \/ Requested("jira", "own", If(Jira, Connected(Jira)), {Jira})
        \/ Requested("jira", "own", If(Jira, Connected(Jira)), {})
    BY <1>8 DEF Reload, JiraConnect, JiraDisconnect, Requested, If
  <2>2. {n \in Names : Connected(n)} \ Enabled(disk) \in SUBSET Names /\ {} \in SUBSET Names
        /\ If(Jira, Connected(Jira)) \in SUBSET Names /\ {Jira} \in SUBSET Names
    BY <1>2, <1>3
  <2> QED BY <1>1, <1>4, <2>1, <2>2
<1> QED BY <1>5, <1>6, <1>7, <1>8 DEF Request

-----------------------------------------------------------------------------
(* What each step of an operation does.                                     *)

\* Only the frame of co moves, and its operation stays.
Moves(co) ==
  /\ frame' \in [Coros -> Frames]
  /\ \A o \in Coros : o # co => frame'[o] = frame[o]
  /\ frame'[co].kind = frame[co].kind /\ frame'[co].obj = frame[co].obj

LEMMA DropDoes ==
  ASSUME Typed, NEW co \in Coros, Drop(co)
  PROVE  /\ frame[co].at = "drop" /\ Moves(co)
         /\ frame'[co].open = frame[co].open /\ frame'[co].name = frame[co].name
         /\ frame'[co].hide = frame[co].hide
         /\ UNCHANGED <<settingVars, live, made, cache, ops, historyVars, failed, stale>>
         /\ \E n \in Names :
              /\ n \in frame[co].drop /\ frame'[co].drop = frame[co].drop \ {n}
              /\ \/ /\ Connected(n)
                    /\ frame'[co].at = "closing" /\ frame'[co].client = connections[n]
                    /\ connections' = [connections EXCEPT ![n] = Nobody]
                    /\ reg' = [reg EXCEPT ![connections[n]] = {}]
                    /\ executor' = [x \in Names \X Tools |->
                         IF x[1] = n /\ x[2] \in reg[connections[n]] THEN Nobody ELSE executor[x]]
                 \/ /\ ~Connected(n)
                    /\ frame'[co].at = "drop" /\ frame'[co].client = frame[co].client
                    /\ UNCHANGED <<connections, executor, reg>>
<1> DEFINE f == frame[co]
<1>1. f \in Frames /\ f.drop \subseteq Names
  BY FrameParts
<1>2. PICK n \in f.drop :
        IF Connected(n)
        THEN /\ Forget(n)
             /\ reg' = [reg EXCEPT ![connections[n]] = {}]
             /\ Go(co, [f EXCEPT !.drop = @ \ {n}, !.at = "closing", !.client = connections[n]])
        ELSE Go(co, [f EXCEPT !.drop = @ \ {n}]) /\ UNCHANGED <<connections, executor, reg>>
  BY DEF Drop
<1>3. n \in Names /\ connections[n] \in Clients \cup {Nobody} /\ DOMAIN executor = Names \X Tools
  BY <1>1 DEF Typed, TypeOK
<1>4. f.at = "drop" /\ UNCHANGED <<settingVars, live, made, cache, ops, historyVars, failed, stale>>
  BY DEF Drop
<1>5. CASE Connected(n)
  <2> DEFINE g == [f EXCEPT !.drop = @ \ {n}, !.at = "closing", !.client = connections[n]]
  <2>1. /\ g \in Frames
        /\ g.kind = f.kind /\ g.obj = f.obj /\ g.open = f.open /\ g.name = f.name /\ g.hide = f.hide
        /\ g.drop = f.drop \ {n} /\ g.at = "closing" /\ g.client = connections[n]
    BY <1>1, <1>3 DEF Frames
  <2>2. Go(co, g) /\ Forget(n) /\ reg' = [reg EXCEPT ![connections[n]] = {}]
    BY <1>2, <1>5
  <2> HIDE DEF g
  <2>3. /\ frame' \in [Coros -> Frames] /\ frame'[co] = g
        /\ \A o \in Coros : o # co => frame'[o] = frame[o]
    BY <2>1, <2>2, Goes
  <2>4. Moves(co)
    BY <2>1, <2>3 DEF Moves
  <2> QED BY <1>3, <1>4, <1>5, <2>1, <2>2, <2>3, <2>4 DEF Forget
<1>6. CASE ~Connected(n)
  <2> DEFINE g == [f EXCEPT !.drop = @ \ {n}]
  <2>1. /\ g \in Frames
        /\ g.kind = f.kind /\ g.obj = f.obj /\ g.open = f.open /\ g.name = f.name /\ g.hide = f.hide
        /\ g.drop = f.drop \ {n} /\ g.at = f.at /\ g.client = f.client
    BY <1>1, <1>3 DEF Frames
  <2>2. Go(co, g) /\ UNCHANGED <<connections, executor, reg>>
    BY <1>2, <1>6
  <2> HIDE DEF g
  <2>3. /\ frame' \in [Coros -> Frames] /\ frame'[co] = g
        /\ \A o \in Coros : o # co => frame'[o] = frame[o]
    BY <2>1, <2>2, Goes
  <2>4. Moves(co)
    BY <2>1, <2>3 DEF Moves
  <2> QED BY <1>3, <1>4, <1>6, <2>1, <2>2, <2>3, <2>4
<1> QED BY <1>5, <1>6

LEMMA ClosedDoes ==
  ASSUME Typed, NEW co \in Coros, Closed(co)
  PROVE  /\ frame[co].at = "closing" /\ Moves(co)
         /\ frame'[co].at = "drop" /\ frame'[co].client = Nobody
         /\ frame'[co].drop = frame[co].drop /\ frame'[co].open = frame[co].open
         /\ frame'[co].name = frame[co].name /\ frame'[co].hide = frame[co].hide
<1> DEFINE f == frame[co]
           g == [f EXCEPT !.at = "drop", !.client = Nobody]
<1>1. f \in Frames
  BY FrameParts
<1>2. /\ g \in Frames
      /\ g.kind = f.kind /\ g.obj = f.obj /\ g.drop = f.drop /\ g.open = f.open /\ g.name = f.name
      /\ g.hide = f.hide /\ g.at = "drop" /\ g.client = Nobody
  BY <1>1 DEF Frames
<1>3. f.at = "closing" /\ Go(co, g)
  BY DEF Closed
<1> HIDE DEF g
<1>4. /\ frame' \in [Coros -> Frames] /\ frame'[co] = g
      /\ \A o \in Coros : o # co => frame'[o] = frame[o]
  BY <1>2, <1>3, Goes
<1> QED BY <1>2, <1>3, <1>4 DEF Moves

\* The operation goes on, or is given up.
LEMMA CloseFailsDoes ==
  ASSUME Typed, NEW co \in Coros, CloseFails(co)
  PROVE  /\ frame[co].at = "closing" /\ frame' \in [Coros -> Frames]
         /\ \A o \in Coros : o # co => frame'[o] = frame[o]
         /\ frame'[co].client = Nobody /\ frame'[co].drop \subseteq frame[co].drop
         /\ \/ /\ Catches(frame[co].kind) /\ Moves(co) /\ frame'[co].at = "drop"
               /\ frame'[co].drop = frame[co].drop /\ frame'[co].open = frame[co].open
            \/ /\ ~Catches(frame[co].kind) /\ frame'[co].at = "idle" /\ frame'[co].kind = "none"
               /\ frame'[co].drop = {} /\ frame'[co].open = {}
<1> DEFINE f == frame[co]
           g == [f EXCEPT !.at = "drop", !.client = Nobody]
<1>1. f \in Frames
  BY FrameParts
<1>2. f.at = "closing" /\ Go(co, IF Catches(f.kind) THEN g ELSE Rest)
  BY DEF CloseFails
<1>3. /\ g \in Frames
      /\ g.kind = f.kind /\ g.obj = f.obj /\ g.drop = f.drop /\ g.open = f.open
      /\ g.at = "drop" /\ g.client = Nobody
  BY <1>1 DEF Frames
<1>4. /\ Rest \in Frames /\ Rest.at = "idle" /\ Rest.kind = "none" /\ Rest.client = Nobody
      /\ Rest.drop = {} /\ Rest.open = {}
  BY DEF Rest, Frames, Kinds, Names
<1> HIDE DEF g
<1>5. CASE Catches(f.kind)
  <2>1. /\ frame' \in [Coros -> Frames] /\ frame'[co] = g
        /\ \A o \in Coros : o # co => frame'[o] = frame[o]
    BY <1>2, <1>3, <1>5, Goes
  <2> QED BY <1>2, <1>3, <1>5, <2>1 DEF Moves
<1>6. CASE ~Catches(f.kind)
  <2>1. /\ frame' \in [Coros -> Frames] /\ frame'[co] = Rest
        /\ \A o \in Coros : o # co => frame'[o] = frame[o]
    BY <1>2, <1>4, <1>6, Goes
  <2> QED BY <1>2, <1>4, <1>6, <2>1
<1> QED BY <1>5, <1>6

\* The names to open, when there is nothing more to drop.
ToOpen(f) ==
  CASE f.kind = "uninstall" -> {}
    [] f.kind \in {"connectAll", "reload"} -> {s \in Enabled(settings[f.obj]) : ~Connected(s)}
    [] OTHER -> f.open

LEMMA StartOpeningDoes ==
  ASSUME Typed, NEW co \in Coros, StartOpening(co)
  PROVE  /\ frame[co].at = "drop" /\ frame[co].drop = {} /\ Moves(co)
         /\ frame'[co].at = "open" /\ frame'[co].client = frame[co].client
         /\ frame'[co].drop = frame[co].drop /\ frame'[co].open = ToOpen(frame[co])
         /\ frame'[co].name = frame[co].name /\ frame'[co].hide = frame[co].hide
<1> DEFINE f == frame[co]
           o == ToOpen(f)
           g == [f EXCEPT !.at = "open", !.open = o]
<1>1. f \in Frames /\ f.open \subseteq Names
  BY FrameParts
<1>2. o \subseteq Names
  BY <1>1 DEF ToOpen, Enabled, Names
<1>3. f.at = "drop" /\ f.drop = {} /\ Go(co, g)
  BY Zenon DEF StartOpening, ToOpen
<1> HIDE DEF o
<1>4. /\ g \in Frames
      /\ g.kind = f.kind /\ g.obj = f.obj /\ g.drop = f.drop /\ g.open = o /\ g.name = f.name
      /\ g.hide = f.hide /\ g.at = "open" /\ g.client = f.client
  BY <1>1, <1>2 DEF Frames
<1> HIDE DEF g
<1>5. /\ frame' \in [Coros -> Frames] /\ frame'[co] = g
      /\ \A p \in Coros : p # co => frame'[p] = frame[p]
  BY <1>3, <1>4, Goes
<1> QED BY <1>3, <1>4, <1>5 DEF Moves, o

LEMMA OpenDoes ==
  ASSUME Typed, NEW co \in Coros, Open(co)
  PROVE  /\ frame[co].at = "open" /\ Moves(co) /\ frame'[co].drop = frame[co].drop
         /\ frame'[co].open \subseteq frame[co].open
         /\ UNCHANGED <<settingVars, connections, reg, executor, cache, ops, historyVars, failed, stale>>
         /\ \E n \in Names : n \in frame[co].open /\
              \/ /\ Connected(n)
                 /\ frame'[co].at = "open" /\ frame'[co].client = frame[co].client
                 /\ frame'[co].name = frame[co].name /\ frame'[co].hide = frame[co].hide
                 /\ UNCHANGED <<made, live>>
              \/ /\ ~Connected(n)
                 /\ frame'[co].at = "opening" /\ frame'[co].client = made + 1
                 /\ frame'[co].name = n /\ frame'[co].hide = Filter(frame[co], n)
                 /\ made + 1 \in Clients /\ made' = made + 1 /\ live' = live \cup {made + 1}
<1> DEFINE f == frame[co]
           others(n) == IF GoesOn(f.kind) THEN f.open \ {n} ELSE {}
<1>1. f \in Frames /\ f.open \subseteq Names
  BY FrameParts
<1>2. PICK n \in f.open :
        IF Connected(n)
        THEN Go(co, [f EXCEPT !.open = others(n)]) /\ UNCHANGED <<made, live>>
        ELSE /\ made + 1 \in Clients /\ made' = made + 1
             /\ live' = live \cup {made + 1}
             /\ Go(co, [f EXCEPT !.open = others(n), !.at = "opening", !.name = n, !.client = made + 1,
                          !.hide = Filter(f, n)])
  BY DEF Open
<1>3. n \in Names /\ others(n) \subseteq f.open
  BY <1>1
<1>4. f.at = "open" /\ UNCHANGED <<settingVars, connections, reg, executor, cache, ops, historyVars, failed, stale>>
  BY DEF Open
<1>5. Filter(f, n) \subseteq Tools
  <2>1. CASE n = Jira \/ f.kind = "install"
    BY <2>1 DEF Filter
  <2>2. CASE ~(n = Jira \/ f.kind = "install")
    <3>1. n \in Servers /\ f.obj \in {"task", "own"}
      BY <1>3, <2>2, FrameParts DEF Names
    <3>2. settings[f.obj][n] \in ServerSettings
      BY <3>1 DEF Typed, TypeOK
    <3> QED BY <2>2, <3>2 DEF Filter, ServerSettings
  <2> QED BY <2>1, <2>2
<1> DEFINE os == others(n)
           hd == Filter(f, n)
<1>6. os \subseteq Names /\ os \subseteq f.open /\ hd \subseteq Tools
  BY <1>1, <1>3, <1>5
<1>7. IF Connected(n)
        THEN Go(co, [f EXCEPT !.open = os]) /\ UNCHANGED <<made, live>>
        ELSE /\ made + 1 \in Clients /\ made' = made + 1
             /\ live' = live \cup {made + 1}
             /\ Go(co, [f EXCEPT !.open = os, !.at = "opening", !.name = n, !.client = made + 1,
                          !.hide = hd])
  BY <1>2
<1> HIDE DEF os, hd, others
<1>8. CASE Connected(n)
  <2> DEFINE g == [f EXCEPT !.open = os]
  <2>1. /\ g \in Frames
        /\ g.kind = f.kind /\ g.obj = f.obj /\ g.drop = f.drop /\ g.open = os /\ g.name = f.name
        /\ g.hide = f.hide /\ g.at = f.at /\ g.client = f.client
    BY <1>1, <1>6 DEF Frames
  <2>2. Go(co, g) /\ UNCHANGED <<made, live>>
    BY <1>7, <1>8
  <2> HIDE DEF g
  <2>3. /\ frame' \in [Coros -> Frames] /\ frame'[co] = g
        /\ \A p \in Coros : p # co => frame'[p] = frame[p]
    BY <2>1, <2>2, Goes
  <2>4. Moves(co)
    BY <2>1, <2>3 DEF Moves
  <2> QED BY <1>3, <1>4, <1>6, <1>8, <2>1, <2>2, <2>3, <2>4
<1>9. CASE ~Connected(n)
  <2> DEFINE c == made + 1
             g == [f EXCEPT !.open = os, !.at = "opening", !.name = n, !.client = c, !.hide = hd]
  <2>1. c \in Clients /\ made' = c /\ live' = live \cup {c} /\ Go(co, g)
    BY <1>7, <1>9
  <2> HIDE DEF c
  <2>2. /\ g \in Frames
        /\ g.kind = f.kind /\ g.obj = f.obj /\ g.drop = f.drop /\ g.open = os /\ g.name = n
        /\ g.hide = hd /\ g.at = "opening" /\ g.client = c
    BY <1>1, <1>3, <1>6, <2>1 DEF Frames
  <2> HIDE DEF g
  <2>3. /\ frame' \in [Coros -> Frames] /\ frame'[co] = g
        /\ \A p \in Coros : p # co => frame'[p] = frame[p]
    BY <2>1, <2>2, Goes
  <2>4. Moves(co)
    BY <2>2, <2>3 DEF Moves
  <2> QED BY <1>3, <1>4, <1>6, <1>9, <2>1, <2>2, <2>3, <2>4 DEF c, hd
<1> QED BY <1>8, <1>9

LEMMA OpenedDoes ==
  ASSUME Typed, NEW co \in Coros, Opened(co)
  PROVE  /\ frame[co].at = "opening" /\ Moves(co)
         /\ frame'[co].at = "open" /\ frame'[co].client = Nobody
         /\ frame'[co].drop = frame[co].drop /\ frame'[co].open = frame[co].open
         /\ frame'[co].name = frame[co].name /\ frame'[co].hide = frame[co].hide
         /\ reg' = [reg EXCEPT ![frame[co].client] = Tools \ frame[co].hide]
         /\ connections' = [connections EXCEPT ![frame[co].name] = frame[co].client]
         /\ executor' = [x \in Names \X Tools |->
              IF x[1] = frame[co].name /\ x[2] \notin frame[co].hide THEN frame[co].client ELSE executor[x]]
<1> DEFINE f == frame[co]
           g == [f EXCEPT !.at = "open", !.client = Nobody]
<1>1. f \in Frames /\ DOMAIN executor = Names \X Tools
  BY FrameParts DEF Typed, TypeOK
<1>2. /\ g \in Frames
      /\ g.kind = f.kind /\ g.obj = f.obj /\ g.drop = f.drop /\ g.open = f.open /\ g.name = f.name
      /\ g.hide = f.hide /\ g.at = "open" /\ g.client = Nobody
  BY <1>1 DEF Frames
<1>3. f.at = "opening" /\ Go(co, g)
  BY DEF Opened
<1> HIDE DEF g
<1>4. /\ frame' \in [Coros -> Frames] /\ frame'[co] = g
      /\ \A o \in Coros : o # co => frame'[o] = frame[o]
  BY <1>2, <1>3, Goes
<1> QED BY <1>1, <1>2, <1>3, <1>4 DEF Moves, Opened

LEMMA OpenFailsDoes ==
  ASSUME Typed, NEW co \in Coros, OpenFails(co)
  PROVE  /\ frame[co].at = "opening" /\ Moves(co)
         /\ frame'[co].at = "open" /\ frame'[co].client = Nobody
         /\ frame'[co].drop = frame[co].drop /\ frame'[co].open = frame[co].open
         /\ frame'[co].name = frame[co].name /\ frame'[co].hide = frame[co].hide
<1> DEFINE f == frame[co]
           g == [f EXCEPT !.at = "open", !.client = Nobody]
<1>1. f \in Frames
  BY FrameParts
<1>2. /\ g \in Frames
      /\ g.kind = f.kind /\ g.obj = f.obj /\ g.drop = f.drop /\ g.open = f.open /\ g.name = f.name
      /\ g.hide = f.hide /\ g.at = "open" /\ g.client = Nobody
  BY <1>1 DEF Frames
<1>3. f.at = "opening" /\ Go(co, g)
  BY DEF OpenFails
<1> HIDE DEF g
<1>4. /\ frame' \in [Coros -> Frames] /\ frame'[co] = g
      /\ \A o \in Coros : o # co => frame'[o] = frame[o]
  BY <1>2, <1>3, Goes
<1> QED BY <1>2, <1>3, <1>4 DEF Moves

LEMMA FinishDoes ==
  ASSUME Typed, NEW co \in Coros, Finish(co)
  PROVE  /\ frame[co].at = "open" /\ frame[co].open = {}
         /\ frame' \in [Coros -> Frames] /\ \A o \in Coros : o # co => frame'[o] = frame[o]
         /\ frame'[co].at = "idle" /\ frame'[co].kind = "none" /\ frame'[co].client = Nobody
         /\ frame'[co].drop = {} /\ frame'[co].open = {}
<1>1. /\ Rest \in Frames /\ Rest.at = "idle" /\ Rest.kind = "none" /\ Rest.client = Nobody
      /\ Rest.drop = {} /\ Rest.open = {}
  BY DEF Rest, Frames, Kinds, Names
<1>2. frame[co].at = "open" /\ frame[co].open = {} /\ Go(co, Rest)
  BY DEF Finish
<1>3. /\ frame' \in [Coros -> Frames] /\ frame'[co] = Rest
      /\ \A o \in Coros : o # co => frame'[o] = frame[o]
  BY <1>1, <1>2, Goes
<1> QED BY <1>1, <1>2, <1>3

-----------------------------------------------------------------------------
(* Each step keeps the types.                                               *)

SettingsType ==
  /\ disk \in [Servers -> ServerSettings]
  /\ settings \in [{"task", "own"} -> [Servers -> ServerSettings]]
  /\ pointer \in {"none", "task", "own"}
  /\ wish \in [Servers -> ServerSettings]

ManagerType ==
  /\ connections \in [Names -> Clients \cup {Nobody}]
  /\ reg \in [Clients -> SUBSET Tools]
  /\ live \in SUBSET Clients /\ failed \in SUBSET Clients
  /\ executor \in [Names \X Tools -> Clients \cup {Nobody}]
  /\ made \in 0 .. MaxClients

LoopType ==
  /\ cache = NotBuilt \/ cache \in SUBSET (Names \X Tools)
  /\ frame \in [Coros -> Frames]
  /\ ops \in 0 .. MaxOps /\ overlap \in BOOLEAN /\ stale \in BOOLEAN

LEMMA TypeParts == Typed <=> Given /\ SettingsType /\ ManagerType /\ LoopType
BY DEF Typed, Given, TypeOK, SettingsType, ManagerType, LoopType

LEMMA TypePartsNext == Typed' <=> Given /\ SettingsType' /\ ManagerType' /\ LoopType'
BY DEF Typed, Given, TypeOK, SettingsType, ManagerType, LoopType

\* The settings of a server that is not there, and of one that is new.
LEMMA SettingsAre ==
  /\ Absent \in ServerSettings /\ Unseen \in ServerSettings
  /\ Absent.listed = FALSE /\ Absent.enabled = FALSE /\ Absent.hidden = {}
  /\ Unseen.listed = TRUE /\ Unseen.enabled = TRUE /\ Unseen.hidden = {}
BY DEF Absent, Unseen, ServerSettings

\* What the requests write.
LEMMA SettingsChanged ==
  ASSUME NEW st \in [Servers -> ServerSettings], NEW s \in Servers, NEW b \in BOOLEAN, NEW h \in SUBSET Tools
  PROVE  /\ [st EXCEPT ![s].enabled = b] \in [Servers -> ServerSettings]
         /\ [st EXCEPT ![s].hidden = h] \in [Servers -> ServerSettings]
         /\ [st EXCEPT ![s].known = h] \in [Servers -> ServerSettings]
         /\ [st EXCEPT ![s] = Unseen] \in [Servers -> ServerSettings]
         /\ [st EXCEPT ![s] = Absent] \in [Servers -> ServerSettings]
<1>1. st[s] \in ServerSettings
  OBVIOUS
<1>2. /\ [st[s] EXCEPT !.enabled = b] \in ServerSettings
      /\ [st[s] EXCEPT !.hidden = h] \in ServerSettings
      /\ [st[s] EXCEPT !.known = h] \in ServerSettings
  BY <1>1 DEF ServerSettings
<1> QED BY <1>2, SettingsAre

LEMMA CurrentType ==
  ASSUME SettingsType
  PROVE  Current \in [Servers -> ServerSettings] /\ Obj \in {"task", "own"}
BY DEF SettingsType, Current, Obj

LEMMA RequestKeepsSettings ==
  ASSUME SettingsType, Request
  PROVE  SettingsType'
<1>1. Current \in [Servers -> ServerSettings] /\ Obj \in {"task", "own"}
  BY CurrentType
<1>2. ASSUME NEW obj \in {"task", "own"}, NEW st \in [Servers -> ServerSettings], Put(obj, st)
      PROVE  settings' \in [{"task", "own"} -> [Servers -> ServerSettings]] /\ pointer' \in {"none", "task", "own"}
  BY <1>2 DEF Put, SettingsType
<1>3. ASSUME NEW s \in Servers, Reconnect(s) PROVE SettingsType'
  BY <1>1, <1>2, <1>3 DEF Reconnect, SettingsType
<1>4. ASSUME NEW s \in Servers, Uninstall(s) PROVE SettingsType'
  <2>1. wish' \in [Servers -> ServerSettings] /\ Put(Obj, Current) /\ disk' = disk
    BY <1>4, SettingsChanged DEF Uninstall, SettingsType
  <2> QED BY <1>1, <1>2, <2>1 DEF SettingsType
<1>5. ASSUME NEW s \in Servers, NEW b \in BOOLEAN, ToggleServer(s, b) PROVE SettingsType'
  <2>1. Toggled(s, b) \in [Servers -> ServerSettings]
    BY SettingsChanged DEF Toggled, SettingsType
  <2>2. Put(Obj, Toggled(s, b)) /\ disk' = Toggled(s, b)
    BY <1>5 DEF ToggleServer, Save
  <2>3. wish' = [wish EXCEPT ![s].enabled = b /\ wish[s].listed] /\ (b /\ wish[s].listed) \in BOOLEAN
    BY <1>5 DEF ToggleServer
  <2>4. wish' \in [Servers -> ServerSettings]
    BY <2>3, SettingsChanged DEF SettingsType
  <2> QED BY <1>1, <1>2, <2>1, <2>2, <2>4 DEF SettingsType
<1>6. ASSUME NEW s \in Servers, NEW b \in BOOLEAN, Install(s, b) PROVE SettingsType'
  <2>1. Put(Obj, [Current EXCEPT ![s] = Unseen]) /\ disk' = [Current EXCEPT ![s] = Unseen]
        /\ wish' = [wish EXCEPT ![s] = Unseen]
    BY <1>6 DEF Install, Save
  <2>2. [Current EXCEPT ![s] = Unseen] \in [Servers -> ServerSettings] /\ wish' \in [Servers -> ServerSettings]
    BY <1>1, <2>1, SettingsChanged DEF SettingsType
  <2> QED BY <1>1, <1>2, <2>1, <2>2 DEF SettingsType
<1>7. ASSUME NEW s \in Servers, NEW h \in SUBSET Tools, SaveTools(s, h) PROVE SettingsType'
  <2> DEFINE st == IF Current[s].listed
                   THEN [Current EXCEPT ![s].hidden = h, ![s].known = Tools] ELSE Current
  <2>1. st \in [Servers -> ServerSettings]
    <3>1. Current[s] \in ServerSettings
      BY <1>1
    <3>2. [Current[s] EXCEPT !.hidden = h, !.known = Tools] \in ServerSettings
      BY <3>1 DEF ServerSettings
    <3> QED BY <1>1, <3>2
  <2>2. Put(Obj, st) /\ disk' = st
    BY <1>7, Zenon DEF SaveTools, Save
  <2>3. wish' = [wish EXCEPT ![s].hidden = IF wish[s].listed THEN h ELSE {}]
    BY <1>7 DEF SaveTools
  <2> HIDE DEF st
  <2>4. wish' \in [Servers -> ServerSettings]
    BY <2>3, SettingsChanged DEF SettingsType
  <2> QED BY <1>1, <1>2, <2>1, <2>2, <2>4 DEF SettingsType
<1>8. CASE Reload
  <2>1. "own" \in {"task", "own"} /\ disk \in [Servers -> ServerSettings]
    BY DEF SettingsType
  <2>2. Put("own", disk) /\ UNCHANGED <<disk, wish>>
    BY <1>8 DEF Reload
  <2> QED BY <1>2, <2>1, <2>2 DEF SettingsType
<1>9. CASE JiraConnect \/ JiraDisconnect
  <2>1. UNCHANGED <<disk, settings, pointer, wish>>
    BY <1>9 DEF JiraConnect, JiraDisconnect, settingVars
  <2> QED BY <2>1 DEF SettingsType
<1> QED BY <1>3, <1>4, <1>5, <1>6, <1>7, <1>8, <1>9 DEF Request

LEMMA StartOpeningKeepsSettings ==
  ASSUME Typed, NEW co \in Coros, StartOpening(co)
  PROVE  SettingsType'
<1> DEFINE f == frame[co]
           st == [s \in Servers |-> IF s \in f.open THEN Absent ELSE settings[f.obj][s]]
<1>1. SettingsType /\ f.obj \in {"task", "own"}
  BY TypeParts, FrameParts
<1>2. st \in [Servers -> ServerSettings]
  BY <1>1, SettingsAre DEF SettingsType
<1>3. \/ settings' = [settings EXCEPT ![f.obj] = st] /\ (disk' = settings'[f.obj] \/ disk' = disk)
      \/ UNCHANGED <<settings, disk>>
  BY Zenon DEF StartOpening
<1>4. pointer' = pointer /\ wish' = wish
  BY DEF StartOpening, historyVars
<1> HIDE DEF st
<1> QED BY <1>1, <1>2, <1>3, <1>4 DEF SettingsType

LEMMA OpenedKeepsSettings ==
  ASSUME Typed, NEW co \in Coros, Opened(co)
  PROVE  SettingsType'
<1> DEFINE f == frame[co]
           n == f.name
           st == [settings[f.obj] EXCEPT ![n].known = Tools]
<1>1. SettingsType /\ f.obj \in {"task", "own"} /\ n \in Names
  BY TypeParts, FrameParts
<1>2. pointer' = pointer /\ wish' = wish
  BY DEF Opened, historyVars
<1>3. CASE n # Jira /\ settings' = [settings EXCEPT ![f.obj][n].known = Tools] /\ disk' = settings'[f.obj]
  <2>1. n \in Servers /\ settings[f.obj] \in [Servers -> ServerSettings]
    BY <1>1, <1>3 DEF Names, SettingsType
  <2>2. st \in [Servers -> ServerSettings]
    BY <2>1, SettingsChanged
  <2>3. settings' = [settings EXCEPT ![f.obj] = st]
    BY <1>3
  <2>4. disk' = settings'[f.obj]
    BY <1>3
  <2> HIDE DEF st
  <2> QED BY <1>1, <1>2, <2>2, <2>3, <2>4 DEF SettingsType
<1>4. CASE UNCHANGED <<settings, disk>>
  BY <1>1, <1>2, <1>4 DEF SettingsType
<1> QED BY <1>3, <1>4 DEF Opened

\* Settings that no other step changes.
LEMMA SettingsStep ==
  ASSUME Typed, Next
  PROVE  SettingsType'
<1>1. SettingsType
  BY TypeParts
<1>2. ASSUME UNCHANGED settingVars, wish' = wish PROVE SettingsType'
  BY <1>1, <1>2 DEF SettingsType, settingVars
<1>3. CASE Request
  BY <1>1, <1>3, RequestKeepsSettings
<1>4. CASE GetTools
  BY <1>2, <1>4 DEF GetTools, historyVars
<1>5. ASSUME NEW co \in Coros,
             \/ Drop(co) \/ Closed(co) \/ CloseFails(co) \/ StartOpening(co)
             \/ Open(co) \/ Opened(co) \/ OpenFails(co) \/ Finish(co)
      PROVE  SettingsType'
  <2>1. CASE Drop(co) \/ Closed(co) \/ CloseFails(co) \/ Open(co) \/ OpenFails(co)
    BY <1>2, <2>1 DEF Drop, Closed, CloseFails, Open, OpenFails, historyVars
  <2>2. CASE StartOpening(co)
    BY <2>2, StartOpeningKeepsSettings
  <2>3. CASE Opened(co)
    BY <2>3, OpenedKeepsSettings
  <2>4. CASE Finish(co)
    <3>1. disk' = disk /\ settings' = settings /\ wish' = wish /\ pointer' \in {"task", pointer}
      BY <2>4 DEF Finish, historyVars
    <3> QED BY <1>1, <3>1 DEF SettingsType
  <2> QED BY <1>5, <2>1, <2>2, <2>3, <2>4
<1> QED BY <1>3, <1>4, <1>5 DEF Next

\* A coroutine that awaits a client has one, and no other has.
Busy(co) == frame[co].at \in {"closing", "opening"}
Engaged  == \A co \in Coros : Busy(co) <=> frame[co].client # Nobody

LEMMA ManagerStep ==
  ASSUME Typed, Engaged, Next
  PROVE  ManagerType'
<1>1. ManagerType
  BY TypeParts
<1>2. ASSUME UNCHANGED managerVars, failed' = failed PROVE ManagerType'
  BY <1>1, <1>2 DEF ManagerType, managerVars
<1>3. CASE Request
  BY <1>2, <1>3, RequestBegins DEF Requested, Begin
<1>4. CASE GetTools
  BY <1>2, <1>4 DEF GetTools
<1>5. ASSUME NEW co \in Coros, Drop(co) PROVE ManagerType'
  <2>1. UNCHANGED <<live, made, failed>>
    BY <1>5 DEF Drop
  <2>2. PICK n \in Names :
          \/ /\ Connected(n)
             /\ connections' = [connections EXCEPT ![n] = Nobody]
             /\ reg' = [reg EXCEPT ![connections[n]] = {}]
             /\ executor' = [x \in Names \X Tools |->
                  IF x[1] = n /\ x[2] \in reg[connections[n]] THEN Nobody ELSE executor[x]]
          \/ UNCHANGED <<connections, executor, reg>>
    BY <1>5, DropDoes
  <2> QED BY <1>1, <2>1, <2>2 DEF ManagerType
<1>6. ASSUME NEW co \in Coros, Closed(co) \/ CloseFails(co) PROVE ManagerType'
  BY <1>1, <1>6 DEF Closed, CloseFails, ManagerType
<1>7. ASSUME NEW co \in Coros, StartOpening(co) \/ Finish(co) PROVE ManagerType'
  BY <1>2, <1>7 DEF StartOpening, Finish
<1>8. ASSUME NEW co \in Coros, Open(co) PROVE ManagerType'
  <2>1. UNCHANGED <<connections, reg, executor, failed>>
    BY <1>8, OpenDoes
  <2>2. UNCHANGED <<made, live>> \/ (made + 1 \in Clients /\ made' = made + 1 /\ live' = live \cup {made + 1})
    BY <1>8, OpenDoes
  <2>3. \A c \in Clients : c \in 0 .. MaxClients
    BY DEF Typed, Given, Clients
  <2> QED BY <1>1, <2>1, <2>2, <2>3 DEF ManagerType
<1>9. ASSUME NEW co \in Coros, Opened(co) PROVE ManagerType'
  <2>1. frame[co].client \in Clients \cup {Nobody} /\ frame[co].name \in Names /\ frame[co].hide \subseteq Tools
    BY FrameParts
  <2>2. UNCHANGED <<live, made, failed>>
    BY <1>9 DEF Opened
  <2>3. /\ reg' = [reg EXCEPT ![frame[co].client] = Tools \ frame[co].hide]
        /\ connections' = [connections EXCEPT ![frame[co].name] = frame[co].client]
        /\ executor' = [x \in Names \X Tools |->
             IF x[1] = frame[co].name /\ x[2] \notin frame[co].hide THEN frame[co].client ELSE executor[x]]
    BY <1>9, OpenedDoes
  <2>4. reg' \in [Clients -> SUBSET Tools] /\ connections' \in [Names -> Clients \cup {Nobody}]
    BY <1>1, <2>1, <2>3 DEF ManagerType
  <2>5. executor' \in [Names \X Tools -> Clients \cup {Nobody}]
    BY <1>1, <2>1, <2>3 DEF ManagerType
  <2> QED BY <1>1, <2>2, <2>4, <2>5 DEF ManagerType
<1>10. ASSUME NEW co \in Coros, OpenFails(co) PROVE ManagerType'
  <2>1. frame[co].client \in Clients
    BY <1>10, OpenFailsDoes, FrameParts DEF Engaged, Busy
  <2> QED BY <1>1, <1>10, <2>1 DEF OpenFails, ManagerType
<1> QED BY <1>3, <1>4, <1>5, <1>6, <1>7, <1>8, <1>9, <1>10 DEF Next

LEMMA LoopStep ==
  ASSUME Typed, Next
  PROVE  LoopType'
<1>1. LoopType
  BY TypeParts
<1>2. ASSUME cache' \in {cache, NotBuilt} \cup SUBSET (Names \X Tools), frame' \in [Coros -> Frames],
             ops' \in 0 .. MaxOps, overlap' \in BOOLEAN, stale' \in BOOLEAN
      PROVE  LoopType'
  BY <1>1, <1>2 DEF LoopType
<1>3. CASE Request
  BY ZenonT(30), <1>1, <1>2, <1>3, RequestBegins, BeginDoes DEF Requested, LoopType
<1>4. CASE GetTools
  <2>1. Definitions \in SUBSET (Names \X Tools)
    BY DEF Definitions
  <2> QED BY <1>1, <1>2, <1>4, <2>1 DEF GetTools, LoopType, historyVars
<1>5. ASSUME NEW co \in Coros, Drop(co) \/ Open(co) PROVE LoopType'
  <2>1. frame' \in [Coros -> Frames] /\ UNCHANGED <<cache, ops, overlap, stale>>
    BY <1>5, DropDoes, OpenDoes DEF Moves, historyVars
  <2> QED BY <1>1, <1>2, <2>1 DEF LoopType
<1>6. ASSUME NEW co \in Coros, Closed(co) \/ CloseFails(co) PROVE LoopType'
  <2>1. frame' \in [Coros -> Frames] /\ UNCHANGED <<ops, overlap>>
    BY <1>6, ClosedDoes, CloseFailsDoes DEF Moves, Closed, CloseFails, historyVars
  <2>2. cache' \in {cache, NotBuilt} /\ stale' \in BOOLEAN
    BY <1>1, <1>6 DEF Closed, CloseFails, LoopType
  <2> QED BY <1>1, <1>2, <2>1, <2>2 DEF LoopType
<1>7. ASSUME NEW co \in Coros, StartOpening(co) \/ OpenFails(co) PROVE LoopType'
  <2>1. frame' \in [Coros -> Frames] /\ UNCHANGED <<cache, ops, overlap, stale>>
    BY <1>7, StartOpeningDoes, OpenFailsDoes DEF Moves, StartOpening, OpenFails, historyVars
  <2> QED BY <1>1, <1>2, <2>1 DEF LoopType
<1>8. ASSUME NEW co \in Coros, Opened(co) \/ Finish(co) PROVE LoopType'
  <2>1. frame' \in [Coros -> Frames] /\ UNCHANGED <<ops, overlap>>
    BY <1>8, OpenedDoes, FinishDoes DEF Moves, Opened, Finish, historyVars
  <2>2. cache' \in {cache, NotBuilt} /\ stale' \in {stale, FALSE}
    BY <1>8 DEF Opened, Finish
  <2> QED BY <1>1, <1>2, <2>1, <2>2 DEF LoopType
<1> QED BY <1>3, <1>4, <1>5, <1>6, <1>7, <1>8 DEF Next

\* Engaged is kept too: the two make an invariant of their own.
LEMMA EngagedStep ==
  ASSUME Typed, Engaged, Next
  PROVE  Engaged'
<1>1. ASSUME NEW co \in Coros, frame'[co].at \in {"closing", "opening"} <=> frame'[co].client # Nobody,
             \A o \in Coros : o # co => frame'[o] = frame[o]
      PROVE  Engaged'
  BY <1>1 DEF Engaged, Busy
<1>2. CASE Request
  <2>1. frame'["handler"].at = "drop" /\ frame'["handler"].client = Nobody /\ frame'["task"] = frame["task"]
    BY <1>2, RequestBegins, BeginDoes DEF Requested
  <2> QED BY <1>1, <2>1, CorosAre
<1>3. CASE GetTools
  BY <1>3 DEF GetTools, Engaged, Busy
<1>4. ASSUME NEW co \in Coros, Drop(co) PROVE Engaged'
  BY <1>1, <1>4, DropDoes DEF Moves, Engaged, Busy, Connected
<1>5. ASSUME NEW co \in Coros, Closed(co) \/ CloseFails(co) PROVE Engaged'
  BY <1>1, <1>5, ClosedDoes, CloseFailsDoes DEF Moves
<1>6. ASSUME NEW co \in Coros, StartOpening(co) PROVE Engaged'
  BY <1>1, <1>6, StartOpeningDoes DEF Moves, Engaged, Busy
<1>7. ASSUME NEW co \in Coros, Open(co) PROVE Engaged'
  BY <1>1, <1>7, OpenDoes, ClientsAre DEF Moves, Engaged, Busy
<1>8. ASSUME NEW co \in Coros, Opened(co) PROVE Engaged'
  BY <1>1, <1>8, OpenedDoes DEF Moves
<1>9. ASSUME NEW co \in Coros, OpenFails(co) PROVE Engaged'
  BY <1>1, <1>9, OpenFailsDoes DEF Moves
<1>10. ASSUME NEW co \in Coros, Finish(co) PROVE Engaged'
  BY <1>1, <1>10, FinishDoes
<1> QED BY <1>2, <1>3, <1>4, <1>5, <1>6, <1>7, <1>8, <1>9, <1>10 DEF Next

LEMMA TypeInit == Given /\ Init => Typed /\ Engaged
<1> SUFFICES ASSUME Given, Init PROVE Typed /\ Engaged
  OBVIOUS
<1>1. Defaults \in [Servers -> ServerSettings]
  BY SettingsAre DEF Defaults
<1>2. SettingsType
  BY <1>1 DEF Init, SettingsType
<1>3. ManagerType
  BY DEF Given, Init, ManagerType
<1> DEFINE g == [Rest EXCEPT !.kind = "connectAll", !.at = "drop", !.obj = "task"]
<1>4. Rest \in Frames /\ Rest.at = "idle" /\ Rest.client = Nobody
  BY DEF Rest, Frames, Kinds, Names
<1>5. g \in Frames /\ g.at = "drop" /\ g.client = Nobody
  BY <1>4 DEF Frames, Kinds
<1>6. frame = [co \in Coros |-> IF co = "task" THEN g ELSE Rest]
  BY DEF Init
<1> HIDE DEF g
<1>7. LoopType
  <2>1. frame \in [Coros -> Frames]
    BY <1>4, <1>5, <1>6
  <2>2. cache = NotBuilt /\ ops = 0 /\ overlap = FALSE /\ stale = FALSE
    BY DEF Init
  <2>3. 0 \in 0 .. MaxOps
    BY DEF Given
  <2> QED BY <2>1, <2>2, <2>3 DEF LoopType
<1>8. Engaged
  BY <1>4, <1>5, <1>6 DEF Engaged, Busy
<1> QED BY <1>2, <1>3, <1>7, <1>8, TypeParts

LEMMA TypeStep == Typed /\ Engaged /\ [Next]_vars => Typed' /\ Engaged'
<1>1. ASSUME Typed, Engaged, Next PROVE Typed' /\ Engaged'
  BY <1>1, SettingsStep, ManagerStep, LoopStep, EngagedStep, TypeParts, TypePartsNext
<1>2. ASSUME Typed, Engaged, UNCHANGED vars PROVE Typed' /\ Engaged'
  BY <1>2 DEF vars, settingVars, managerVars, historyVars, Typed, TypeOK, Engaged, Busy
<1> QED BY <1>1, <1>2

\* Settings, connections, registries, frames and counters stay what they are.
LEMMA Typing == Given /\ Spec => [](Typed /\ Engaged)
  BY TypeInit, TypeStep, PTL DEF Spec

THEOREM ConnectionTypes == Spec => []TypeOK
<1>1. Given
  BY ConstantsAssumption DEF Given
<1>2. Typed => TypeOK
  BY DEF Typed
<1> QED BY <1>1, <1>2, Typing, PTL

-----------------------------------------------------------------------------
(* Nothing leads to a client that is gone.                                  *)

\* The clients so far; one that is awaited is the coroutine's own, and one that is
\* being opened runs.
Clear ==
  /\ live \subseteq 1 .. made
  /\ \A co \in Coros : Busy(co) => frame[co].client \in 1 .. made
  /\ \A co \in Coros : frame[co].at = "opening" => frame[co].client \in live
  /\ \A co, o \in Coros : Busy(co) /\ frame[co].client = frame[o].client => co = o

\* A client that is being opened or closed is not to be found.
Apart ==
  \A co \in Coros : Busy(co) =>
    /\ \A n \in Names : connections[n] # frame[co].client
    /\ \A x \in Names \X Tools : executor[x] # frame[co].client

\* A client is the connection of one name, and the tools that lead to it are the ones
\* its registry unregisters.
OneName ==
  /\ \A n, m \in Names : Connected(n) /\ connections[n] = connections[m] => n = m
  /\ \A x \in Names \X Tools, n \in Names :
       Connected(n) /\ executor[x] = connections[n] => n = x[1] /\ x[2] \in reg[connections[n]]

DeadInv == Clear /\ Apart /\ OneName /\ NothingDead

\* It depends on no more than this.
LEMMA DeadKept ==
  ASSUME DeadInv, UNCHANGED managerVars,
         \A co \in Coros : Busy(co)' => frame'[co].at = frame[co].at /\ frame'[co].client = frame[co].client,
         \A co \in Coros : ~Busy(co)' => frame'[co].client = Nobody,
         Typed
  PROVE  DeadInv'
<1>1. UNCHANGED <<connections, reg, live, executor, made>>
  BY DEF managerVars
<1>2. \A co \in Coros : Busy(co)' => Busy(co)
  BY DEF Busy
<1>3. \A co \in Coros : Busy(co) => frame[co].client # Nobody
  BY ClientsAre DEF DeadInv, Clear
<1>4. Clear'
  BY <1>1, <1>2, <1>3 DEF DeadInv, Clear, Busy
<1>5. Apart' /\ OneName' /\ NothingDead'
  BY <1>1, <1>2 DEF DeadInv, Apart, OneName, NothingDead, Connected
<1> QED BY <1>4, <1>5 DEF DeadInv

LEMMA DeadDrop ==
  ASSUME Typed, Engaged, DeadInv, NEW co \in Coros, Drop(co)
  PROVE  DeadInv'
<1>1. /\ frame[co].at = "drop" /\ \A o \in Coros : o # co => frame'[o] = frame[o]
      /\ UNCHANGED <<live, made>>
  BY DropDoes DEF Moves
<1>2. PICK n \in Names :
        \/ /\ Connected(n)
           /\ frame'[co].at = "closing" /\ frame'[co].client = connections[n]
           /\ connections' = [connections EXCEPT ![n] = Nobody]
           /\ reg' = [reg EXCEPT ![connections[n]] = {}]
           /\ executor' = [x \in Names \X Tools |->
                IF x[1] = n /\ x[2] \in reg[connections[n]] THEN Nobody ELSE executor[x]]
        \/ /\ frame'[co].at = "drop" /\ frame'[co].client = frame[co].client
           /\ UNCHANGED <<connections, executor, reg>>
  BY DropDoes
<1>3. CASE frame'[co].at = "drop" /\ frame'[co].client = frame[co].client /\ UNCHANGED <<connections, executor, reg>>
  BY <1>1, <1>3, DeadKept DEF managerVars, Engaged, Busy
<1>4. CASE frame'[co].at # "drop"
  <2> DEFINE c == connections[n]
  <2>1. /\ c # Nobody /\ frame'[co].at = "closing" /\ frame'[co].client = c
        /\ connections' = [connections EXCEPT ![n] = Nobody]
        /\ reg' = [reg EXCEPT ![c] = {}]
        /\ executor' = [x \in Names \X Tools |->
             IF x[1] = n /\ x[2] \in reg[c] THEN Nobody ELSE executor[x]]
    BY <1>2, <1>4 DEF Connected
  <2>2. c \in live /\ c \in 1 .. made
    BY <2>1 DEF DeadInv, NothingDead, Clear
  <2>3. \A o \in Coros : o # co => (Busy(o)' <=> Busy(o))
    BY <1>1 DEF Busy
  <2>4. \A o \in Coros : o # co => frame'[o].client # c
    BY <1>1, <2>1 DEF DeadInv, Apart, Engaged
  <2>5. Clear'
    BY <1>1, <2>1, <2>2, <2>3, <2>4 DEF DeadInv, Clear, Busy
  <2>6. /\ \A m \in Names : connections'[m] = IF m = n THEN Nobody ELSE connections[m]
        /\ \A m \in Names : connections'[m] # c
    BY <2>1 DEF Typed, TypeOK, DeadInv, OneName, Connected
  <2>7. \A x \in Names \X Tools : executor'[x] # c /\ executor'[x] \in {Nobody, executor[x]}
    BY <2>1 DEF DeadInv, OneName, Connected
  <2>8. Apart'
    BY <1>1, <2>1, <2>3, <2>6, <2>7, ClientsAre DEF DeadInv, Apart, Clear, Busy
  <2>9. \A d \in Clients : d # c => reg'[d] = reg[d]
    BY <2>1 DEF Typed, TypeOK
  <2>10. \A m \in Names : connections[m] \in Clients \cup {Nobody}
    BY DEF Typed, TypeOK
  <2> HIDE DEF c
  <2>11. OneName'
    <3>1. ASSUME NEW a \in Names, NEW m \in Names, Connected(a)', connections'[a] = connections'[m] PROVE a = m
      BY <2>6, <3>1 DEF DeadInv, OneName, Connected
    <3>2. ASSUME NEW x \in Names \X Tools, NEW m \in Names, Connected(m)', executor'[x] = connections'[m]
          PROVE  m = x[1] /\ x[2] \in reg'[connections'[m]]
      <4>1. connections'[m] = connections[m] /\ connections[m] # Nobody /\ connections[m] # c
        BY <2>6, <3>2 DEF Connected
      <4>2. executor'[x] = executor[x]
        BY <2>7, <3>2, <4>1
      <4>3. m = x[1] /\ x[2] \in reg[connections[m]]
        BY <3>2, <4>1, <4>2 DEF DeadInv, OneName, Connected
      <4> QED BY <2>9, <2>10, <4>1, <4>3
    <3> QED BY <3>1, <3>2 DEF OneName
  <2>12. NothingDead'
    BY <1>1, <2>6, <2>7 DEF DeadInv, NothingDead
  <2> QED BY <2>5, <2>8, <2>11, <2>12 DEF DeadInv
<1> QED BY <1>2, <1>3, <1>4

LEMMA DeadClosed ==
  ASSUME Typed, Engaged, DeadInv, NEW co \in Coros, Closed(co) \/ CloseFails(co)
  PROVE  DeadInv'
<1> DEFINE c == frame[co].client
<1>1. /\ frame[co].at = "closing" /\ \A o \in Coros : o # co => frame'[o] = frame[o]
      /\ frame'[co].at \in {"drop", "idle"} /\ frame'[co].client = Nobody
  BY ClosedDoes, CloseFailsDoes DEF Moves
<1>2. UNCHANGED <<connections, reg, executor, made>> /\ live' = live \ {c}
  BY DEF Closed, CloseFails
<1>3. ~Busy(co)' /\ \A o \in Coros : Busy(o)' => o # co /\ Busy(o) /\ frame'[o] = frame[o] /\ frame[o].client # c
  BY <1>1 DEF Busy, DeadInv, Clear
<1>4. /\ \A n \in Names : connections[n] # c
      /\ \A x \in Names \X Tools : executor[x] # c
  BY <1>1 DEF DeadInv, Apart, Busy
<1> HIDE DEF c
<1>5. Clear'
  <2>1. \A o \in Coros : frame'[o].at = "opening" => frame'[o].client \in live'
    BY <1>1, <1>2, <1>3 DEF DeadInv, Clear, Busy
  <2>2. \A o, p \in Coros : Busy(o)' /\ frame'[o].client = frame'[p].client => o = p
    BY <1>1, <1>3, ClientsAre DEF DeadInv, Clear
  <2> QED BY <1>2, <1>3, <2>1, <2>2 DEF DeadInv, Clear
<1>6. Apart' /\ OneName'
  BY <1>2, <1>3 DEF DeadInv, Apart, OneName, Connected
<1>7. NothingDead'
  BY <1>2, <1>4 DEF DeadInv, NothingDead
<1> QED BY <1>5, <1>6, <1>7 DEF DeadInv

\* A client just created is like no other.
LEMMA DeadOpen ==
  ASSUME Typed, Engaged, DeadInv, NEW co \in Coros, Open(co)
  PROVE  DeadInv'
<1> DEFINE c == made + 1
<1>1. /\ frame[co].at = "open" /\ \A o \in Coros : o # co => frame'[o] = frame[o]
      /\ UNCHANGED <<connections, reg, executor>>
  BY OpenDoes DEF Moves
<1>2. frame[co].client = Nobody
  BY <1>1 DEF Engaged, Busy
<1>3. CASE frame'[co].at = "open" /\ frame'[co].client = frame[co].client /\ UNCHANGED <<made, live>>
  BY <1>1, <1>2, <1>3, DeadKept DEF managerVars, Engaged, Busy
<1>4. CASE /\ frame'[co].at = "opening" /\ frame'[co].client = c
           /\ c \in Clients /\ made' = c /\ live' = live \cup {c}
  <2>1. made \in Nat /\ c \in Nat /\ c \notin 1 .. made /\ c \in 1 .. made' /\ c # Nobody
    BY <1>4, ClientsAre
  <2>2. \A d \in 1 .. made : d \in 1 .. made'
    BY <1>4, <2>1
  <2>3. c \notin live /\ \A n \in Names : connections[n] # c
    BY <2>1 DEF DeadInv, Clear, NothingDead
  <2>4. \A x \in Names \X Tools : executor[x] # c
    BY <2>1, <2>3 DEF DeadInv, NothingDead
  <2>5. \A o \in Coros : frame[o].client # c
    BY <2>1 DEF DeadInv, Clear, Engaged
  <2> HIDE DEF c
  <2>6. Clear'
    <3>1. live' \subseteq 1 .. made'
      BY <1>4, <2>1, <2>2 DEF DeadInv, Clear
    <3>2. \A o \in Coros : Busy(o)' => frame'[o].client \in 1 .. made'
      BY <1>1, <1>4, <2>1, <2>2 DEF DeadInv, Clear, Busy
    <3>3. \A o \in Coros : frame'[o].at = "opening" => frame'[o].client \in live'
      BY <1>1, <1>4 DEF DeadInv, Clear
    <3>4. \A o, p \in Coros : Busy(o)' /\ frame'[o].client = frame'[p].client => o = p
      BY <1>1, <1>4, <2>5 DEF DeadInv, Clear, Busy
    <3> QED BY <3>1, <3>2, <3>3, <3>4 DEF Clear
  <2>7. Apart'
    BY <1>1, <1>4, <2>3, <2>4 DEF DeadInv, Apart, Busy
  <2>8. OneName' /\ NothingDead'
    BY <1>1, <1>4 DEF DeadInv, OneName, NothingDead, Connected
  <2> QED BY <2>6, <2>7, <2>8 DEF DeadInv
<1> QED BY <1>3, <1>4, OpenDoes

\* The client becomes the connection of its name: what other calls found is left as
\* it was, or is replaced.
LEMMA DeadOpened ==
  ASSUME Typed, Engaged, DeadInv, NEW co \in Coros, Opened(co)
  PROVE  DeadInv'
<1> DEFINE c == frame[co].client
           n == frame[co].name
<1>1. /\ frame[co].at = "opening" /\ \A o \in Coros : o # co => frame'[o] = frame[o]
      /\ frame'[co].at = "open" /\ frame'[co].client = Nobody
      /\ reg' = [reg EXCEPT ![c] = Tools \ frame[co].hide]
      /\ connections' = [connections EXCEPT ![n] = c]
      /\ executor' = [x \in Names \X Tools |->
           IF x[1] = n /\ x[2] \notin frame[co].hide THEN c ELSE executor[x]]
  BY OpenedDoes DEF Moves
<1>2. UNCHANGED <<live, made>>
  BY DEF Opened
<1>3. /\ c \in live /\ c \in Clients /\ c # Nobody /\ n \in Names
      /\ \A m \in Names : connections[m] # c
      /\ \A x \in Names \X Tools : executor[x] # c
  BY <1>1, FrameParts, ClientsAre DEF DeadInv, Clear, Apart, Busy
<1>4. ~Busy(co)' /\ \A o \in Coros : Busy(o)' => o # co /\ Busy(o) /\ frame'[o] = frame[o] /\ frame[o].client # c
  BY <1>1 DEF Busy, DeadInv, Clear
<1>5. /\ \A m \in Names : connections'[m] = IF m = n THEN c ELSE connections[m]
      /\ \A d \in Clients : reg'[d] = IF d = c THEN Tools \ frame[co].hide ELSE reg[d]
  BY <1>1 DEF Typed, TypeOK
<1>6. \A m \in Names : connections[m] \in Clients \cup {Nobody}
  BY DEF Typed, TypeOK
<1>7. \A x \in Names \X Tools : executor'[x] = IF x[1] = n /\ x[2] \notin frame[co].hide THEN c ELSE executor[x]
  BY <1>1
<1> HIDE DEF c, n
<1>8. Clear'
  <2>1. \A o \in Coros : frame'[o].at = "opening" => frame'[o].client \in live'
    BY <1>1, <1>2, <1>4 DEF DeadInv, Clear, Busy
  <2>2. \A o, p \in Coros : Busy(o)' /\ frame'[o].client = frame'[p].client => o = p
    BY <1>1, <1>4, ClientsAre DEF DeadInv, Clear
  <2> QED BY <1>2, <1>4, <2>1, <2>2 DEF DeadInv, Clear
<1>9. Apart'
  BY <1>4, <1>5, <1>7 DEF DeadInv, Apart
<1>10. OneName'
  <2>1. ASSUME NEW a \in Names, NEW m \in Names, Connected(a)', connections'[a] = connections'[m] PROVE a = m
    BY <1>3, <1>5, <2>1 DEF DeadInv, OneName, Connected
  <2>2. ASSUME NEW x \in Names \X Tools, NEW m \in Names, Connected(m)', executor'[x] = connections'[m]
        PROVE  m = x[1] /\ x[2] \in reg'[connections'[m]]
    <3>1. CASE m = n
      <4>1. connections'[m] = c /\ executor'[x] = c
        BY <1>5, <2>2, <3>1
      <4>2. x[1] = n /\ x[2] \notin frame[co].hide /\ x[2] \in Tools
        BY <1>3, <1>7, <4>1
      <4> QED BY <1>3, <1>5, <3>1, <4>1, <4>2
    <3>2. CASE m # n
      <4>1. connections'[m] = connections[m] /\ connections[m] # Nobody /\ connections[m] # c
        BY <1>3, <1>5, <2>2, <3>2 DEF Connected
      <4>2. executor'[x] = executor[x]
        BY <1>7, <2>2, <4>1
      <4>3. m = x[1] /\ x[2] \in reg[connections[m]]
        BY <2>2, <4>1, <4>2 DEF DeadInv, OneName, Connected
      <4> QED BY <1>5, <1>6, <4>1, <4>3
    <3> QED BY <3>1, <3>2
  <2> QED BY <2>1, <2>2 DEF OneName
<1>11. NothingDead'
  BY <1>2, <1>3, <1>5, <1>7 DEF DeadInv, NothingDead
<1> QED BY <1>8, <1>9, <1>10, <1>11 DEF DeadInv

LEMMA DeadOpenFails ==
  ASSUME Typed, Engaged, DeadInv, NEW co \in Coros, OpenFails(co)
  PROVE  DeadInv'
<1> DEFINE c == frame[co].client
<1>1. /\ frame[co].at = "opening" /\ \A o \in Coros : o # co => frame'[o] = frame[o]
      /\ frame'[co].at = "open" /\ frame'[co].client = Nobody
  BY OpenFailsDoes DEF Moves
<1>2. UNCHANGED <<connections, reg, executor, made>> /\ live' \subseteq live /\ live \ {c} \subseteq live'
  BY DEF OpenFails
<1>3. ~Busy(co)' /\ \A o \in Coros : Busy(o)' => o # co /\ Busy(o) /\ frame'[o] = frame[o] /\ frame[o].client # c
  BY <1>1 DEF Busy, DeadInv, Clear
<1>4. /\ \A n \in Names : connections[n] # c
      /\ \A x \in Names \X Tools : executor[x] # c
  BY <1>1 DEF DeadInv, Apart, Busy
<1> HIDE DEF c
<1>5. Clear'
  <2>1. \A o \in Coros : frame'[o].at = "opening" => frame'[o].client \in live'
    BY <1>1, <1>2, <1>3 DEF DeadInv, Clear, Busy
  <2>2. \A o, p \in Coros : Busy(o)' /\ frame'[o].client = frame'[p].client => o = p
    BY <1>1, <1>3, ClientsAre DEF DeadInv, Clear
  <2> QED BY <1>2, <1>3, <2>1, <2>2 DEF DeadInv, Clear
<1>6. Apart' /\ OneName'
  BY <1>2, <1>3 DEF DeadInv, Apart, OneName, Connected
<1>7. NothingDead'
  BY <1>2, <1>4 DEF DeadInv, NothingDead
<1> QED BY <1>5, <1>6, <1>7 DEF DeadInv

LEMMA DeadInit == Init => DeadInv
<1> SUFFICES ASSUME Init PROVE DeadInv
  OBVIOUS
<1>1. \A co \in Coros : frame[co].at \in {"idle", "drop"}
  <2>1. /\ Rest.at = "idle"
        /\ [Rest EXCEPT !.kind = "connectAll", !.at = "drop", !.obj = "task"].at = "drop"
    BY DEF Rest
  <2> QED BY <2>1 DEF Init
<1>2. live = {} /\ \A n \in Names : connections[n] = Nobody
  BY DEF Init
<1>3. \A x \in Names \X Tools : executor[x] = Nobody
  BY DEF Init
<1> QED BY <1>1, <1>2, <1>3 DEF DeadInv, Clear, Apart, OneName, NothingDead, Busy, Connected

LEMMA DeadStep == Typed /\ Engaged /\ DeadInv /\ [Next]_vars => DeadInv'
<1> SUFFICES ASSUME Typed, Engaged, DeadInv, [Next]_vars PROVE DeadInv'
  OBVIOUS
<1>1. CASE Request
  <2>1. frame'["handler"].at = "drop" /\ frame'["handler"].client = Nobody /\ frame'["task"] = frame["task"]
        /\ UNCHANGED managerVars
    BY <1>1, RequestBegins, BeginDoes DEF Requested
  <2> QED BY <2>1, DeadKept, CorosAre DEF Engaged, Busy
<1>2. CASE GetTools \/ UNCHANGED vars
  <2>1. UNCHANGED <<managerVars, frame>>
    BY <1>2 DEF GetTools, vars
  <2> QED BY <2>1, DeadKept DEF Engaged, Busy
<1>3. ASSUME NEW co \in Coros, StartOpening(co) PROVE DeadInv'
  <2>1. UNCHANGED managerVars
    BY <1>3 DEF StartOpening
  <2> QED BY <1>3, <2>1, StartOpeningDoes, DeadKept DEF Moves, Engaged, Busy
<1>4. ASSUME NEW co \in Coros, Finish(co) PROVE DeadInv'
  <2>1. UNCHANGED managerVars
    BY <1>4 DEF Finish
  <2> QED BY <1>4, <2>1, FinishDoes, DeadKept DEF Engaged, Busy
<1> QED BY <1>1, <1>2, <1>3, <1>4, DeadDrop, DeadClosed, DeadOpen, DeadOpened, DeadOpenFails DEF Next

LEMMA Alive == Given /\ Spec => [](Typed /\ Engaged /\ DeadInv)
<1>1. Given /\ Init => Typed /\ Engaged /\ DeadInv
  BY TypeInit, DeadInit
<1>2. Typed /\ Engaged /\ DeadInv /\ [Next]_vars => (Typed /\ Engaged /\ DeadInv)'
  BY TypeStep, DeadStep
<1> QED BY <1>1, <1>2, PTL DEF Spec

\* No tool and no connection leads to a client that has been closed, whatever the task
\* that connects everything and the handlers do at the same time.
THEOREM NothingDeadFound == Spec => []NothingDead
<1>1. Given
  BY ConstantsAssumption DEF Given
<1>2. DeadInv => NothingDead
  BY DEF DeadInv
<1> QED BY <1>1, <1>2, Alive, PTL

-----------------------------------------------------------------------------
(* Clients are owned.                                                       *)

\* Without overlap one coroutine works at a time, and it opens what is not connected.
Sole ==
  ~overlap =>
    /\ frame["task"].at = "idle" \/ frame["handler"].at = "idle"
    /\ \A co \in Coros : frame[co].at = "opening" => ~Connected(frame[co].name)

\* A coroutine that is at work is alone.
LEMMA Alone ==
  ASSUME Sole, ~overlap, NEW co \in Coros, frame[co].at # "idle"
  PROVE  \A o \in Coros : o # co => frame[o].at = "idle"
BY CorosAre DEF Sole

LEMMA SoleKept ==
  ASSUME Sole, NEW co \in Coros, frame[co].at # "idle", \A o \in Coros : o # co => frame'[o] = frame[o],
         overlap' = overlap, frame'[co].at = "opening" => connections'[frame'[co].name] = Nobody
  PROVE  Sole'
<1> SUFFICES ASSUME ~overlap PROVE Sole'
  BY DEF Sole
<1>1. \A o \in Coros : o # co => frame'[o].at = "idle"
  BY Alone
<1> QED BY <1>1, CorosAre DEF Sole, Connected

LEMMA SoleStep == Typed /\ Engaged /\ Sole /\ [Next]_vars => Sole'
<1> SUFFICES ASSUME Typed, Engaged, Sole, [Next]_vars PROVE Sole'
  OBVIOUS
<1>1. CASE Request
  <2>1. frame'["handler"].at = "drop" /\ frame'["task"] = frame["task"]
        /\ overlap' = (overlap \/ frame["task"].at # "idle") /\ connections' = connections
    BY <1>1, RequestBegins, BeginDoes DEF Requested, managerVars
  <2> QED BY <2>1, CorosAre DEF Sole, Connected
<1>2. CASE GetTools \/ UNCHANGED vars
  <2>1. UNCHANGED <<connections, frame, overlap>>
    BY <1>2 DEF GetTools, vars, managerVars, historyVars
  <2> QED BY <2>1 DEF Sole, Connected
<1>3. ASSUME NEW co \in Coros, Drop(co) PROVE Sole'
  <2>1. frame[co].at = "drop" /\ frame'[co].at \in {"drop", "closing"} /\ overlap' = overlap
    BY <1>3, DropDoes DEF historyVars
  <2> QED BY <1>3, <2>1, SoleKept, DropDoes DEF Moves
<1>4. ASSUME NEW co \in Coros, Closed(co) \/ CloseFails(co) PROVE Sole'
  <2>1. overlap' = overlap
    BY <1>4 DEF Closed, CloseFails, historyVars
  <2>2. frame[co].at = "closing" /\ frame'[co].at # "opening" /\ \A o \in Coros : o # co => frame'[o] = frame[o]
    BY <1>4, ClosedDoes, CloseFailsDoes DEF Moves
  <2> QED BY <2>1, <2>2, SoleKept
<1>5. ASSUME NEW co \in Coros, StartOpening(co) PROVE Sole'
  <2>1. overlap' = overlap
    BY <1>5 DEF StartOpening, historyVars
  <2> QED BY <1>5, <2>1, SoleKept, StartOpeningDoes DEF Moves
<1>6. ASSUME NEW co \in Coros, Open(co) PROVE Sole'
  <2>1. frame[co].at = "open" /\ UNCHANGED <<overlap, connections>>
    BY <1>6, OpenDoes DEF historyVars
  <2>2. frame'[co].at = "opening" => ~Connected(frame'[co].name)
    BY <1>6, OpenDoes
  <2> QED BY <1>6, <2>1, <2>2, SoleKept, OpenDoes DEF Moves, Connected
<1>7. ASSUME NEW co \in Coros, Opened(co) PROVE Sole'
  <2>1. overlap' = overlap
    BY <1>7 DEF Opened, historyVars
  <2> QED BY <1>7, <2>1, SoleKept, OpenedDoes DEF Moves
<1>8. ASSUME NEW co \in Coros, OpenFails(co) PROVE Sole'
  <2>1. overlap' = overlap
    BY <1>8 DEF OpenFails, historyVars
  <2> QED BY <1>8, <2>1, SoleKept, OpenFailsDoes DEF Moves
<1>9. ASSUME NEW co \in Coros, Finish(co) PROVE Sole'
  <2>1. overlap' = overlap
    BY <1>9 DEF Finish, historyVars
  <2> QED BY <1>9, <2>1, SoleKept, FinishDoes
<1> QED BY <1>1, <1>2, <1>3, <1>4, <1>5, <1>6, <1>7, <1>8, <1>9 DEF Next

LEMMA SoleInit == Init => Sole
<1> SUFFICES ASSUME Init PROVE Sole
  OBVIOUS
<1>1. /\ Rest.at = "idle"
      /\ [Rest EXCEPT !.kind = "connectAll", !.at = "drop", !.obj = "task"].at = "drop"
  BY DEF Rest
<1>2. frame["handler"].at = "idle" /\ \A co \in Coros : frame[co].at # "opening"
  BY <1>1, CorosAre DEF Init
<1> QED BY <1>2 DEF Sole

\* One client, said to be owned.
Owned(c) ==
  \/ \E n \in Names : connections[n] = c
  \/ \E co \in Coros : frame[co].client = c
  \/ c \in failed \/ overlap

LEMMA OwnedStep ==
  ASSUME Typed, Engaged, DeadInv, Sole, ClientsOwned, [Next]_vars
  PROVE  ClientsOwned'
<1>0. /\ \A c \in live : Owned(c)
      /\ (\A c \in live' : Owned(c)') => ClientsOwned'
      /\ \A c \in live : c # Nobody
  BY ClientsAre DEF ClientsOwned, Owned, Typed, TypeOK
<1>1. CASE Request
  <2>1. frame["handler"].at = "idle" /\ frame'["task"] = frame["task"] /\ (overlap => overlap')
        /\ UNCHANGED <<connections, live, failed>>
    BY <1>1, RequestBegins, BeginDoes DEF Requested, managerVars
  <2>2. frame["handler"].client = Nobody
    BY <2>1, CorosAre DEF Engaged, Busy
  <2> QED BY <1>0, <2>1, <2>2, CorosAre DEF Owned
<1>2. CASE GetTools \/ UNCHANGED vars
  <2>1. UNCHANGED <<connections, live, failed, frame, overlap>>
    BY <1>2 DEF GetTools, vars, managerVars, historyVars
  <2> QED BY <1>0, <2>1 DEF Owned
<1>3. ASSUME NEW co \in Coros, Drop(co) PROVE ClientsOwned'
  <2>1. frame[co].client = Nobody /\ UNCHANGED <<live, failed, overlap>>
        /\ \A o \in Coros : o # co => frame'[o] = frame[o]
    BY <1>3, DropDoes DEF Engaged, Busy, Moves, historyVars
  <2>2. PICK n \in Names :
          \/ frame'[co].client = connections[n] /\ connections' = [connections EXCEPT ![n] = Nobody]
          \/ connections' = connections
    BY <1>3, DropDoes
  <2>3. \A m \in Names : connections[m] = connections'[m] \/ connections[m] = frame'[co].client
    BY <2>2 DEF Typed, TypeOK
  <2> QED BY <1>0, <2>1, <2>3 DEF Owned
<1>4. ASSUME NEW co \in Coros, Closed(co) \/ CloseFails(co) PROVE ClientsOwned'
  <2>1. live' = live \ {frame[co].client} /\ UNCHANGED <<connections, failed, overlap>>
        /\ \A o \in Coros : o # co => frame'[o] = frame[o]
    BY <1>4, ClosedDoes, CloseFailsDoes DEF Closed, CloseFails, Moves, historyVars
  <2> QED BY <1>0, <2>1 DEF Owned
<1>5. ASSUME NEW co \in Coros, StartOpening(co) \/ Finish(co) PROVE ClientsOwned'
  <2>1. UNCHANGED <<live, connections, failed, overlap>>
    BY <1>5 DEF StartOpening, Finish, managerVars, historyVars
  <2>2. frame[co].client = Nobody /\ \A o \in Coros : o # co => frame'[o] = frame[o]
    BY <1>5, StartOpeningDoes, FinishDoes DEF Engaged, Busy, Moves
  <2> QED BY <1>0, <2>1, <2>2 DEF Owned
<1>6. ASSUME NEW co \in Coros, Open(co) PROVE ClientsOwned'
  <2>1. frame[co].client = Nobody /\ UNCHANGED <<connections, failed, overlap>>
        /\ \A o \in Coros : o # co => frame'[o] = frame[o]
    BY <1>6, OpenDoes DEF Engaged, Busy, Moves, historyVars
  <2>2. live' = live \/ live' = live \cup {frame'[co].client}
    BY <1>6, OpenDoes
  <2> QED BY <1>0, <2>1, <2>2 DEF Owned
<1>7. ASSUME NEW co \in Coros, Opened(co) PROVE ClientsOwned'
  <2> DEFINE n == frame[co].name
  <2>1. UNCHANGED <<live, failed, overlap>> /\ \A o \in Coros : o # co => frame'[o] = frame[o]
    BY <1>7, OpenedDoes DEF Opened, Moves, historyVars
  <2>2. n \in Names /\ connections' = [connections EXCEPT ![n] = frame[co].client] /\ frame[co].at = "opening"
    BY <1>7, OpenedDoes, FrameParts
  <2>3. /\ connections'[n] = frame[co].client
        /\ \A m \in Names : m # n => connections'[m] = connections[m]
    BY <2>2 DEF Typed, TypeOK
  <2>4. overlap \/ connections[n] = Nobody
    BY <2>2 DEF Sole, Connected
  <2> HIDE DEF n
  <2> QED BY <1>0, <2>1, <2>2, <2>3, <2>4 DEF Owned
<1>8. ASSUME NEW co \in Coros, OpenFails(co) PROVE ClientsOwned'
  <2>1. live' \subseteq live /\ failed' = failed \cup {frame[co].client} /\ UNCHANGED <<connections, overlap>>
        /\ \A o \in Coros : o # co => frame'[o] = frame[o]
    BY <1>8, OpenFailsDoes DEF OpenFails, Moves, historyVars
  <2> QED BY <1>0, <2>1 DEF Owned
<1> QED BY <1>1, <1>2, <1>3, <1>4, <1>5, <1>6, <1>7, <1>8 DEF Next

LEMMA Owning == Given /\ Spec => [](Typed /\ Engaged /\ DeadInv /\ Sole /\ ClientsOwned)
<1>1. Init => ClientsOwned
  BY DEF Init, ClientsOwned
<1>2. Given /\ Init => Typed /\ Engaged /\ DeadInv /\ Sole /\ ClientsOwned
  BY <1>1, TypeInit, DeadInit, SoleInit
<1>3. Typed /\ Engaged /\ DeadInv /\ Sole /\ ClientsOwned /\ [Next]_vars
      => (Typed /\ Engaged /\ DeadInv /\ Sole /\ ClientsOwned)'
  BY TypeStep, DeadStep, SoleStep, OwnedStep
<1> QED BY <1>2, <1>3, PTL DEF Spec

\* No client is left running that nothing leads to, unless a request overlapped the
\* task or the client could not be opened.
THEOREM NoClientLost == Spec => []ClientsOwned
<1>1. Given
  BY ConstantsAssumption DEF Given
<1> QED BY <1>1, Owning, PTL

-----------------------------------------------------------------------------
(* The tools the turn is offered.                                           *)

\* What a coroutine does, that the task and an installation drop nothing, and that only
\* a reload drops more than one name.
OneDrop(f) == (\A m, n \in f.drop : m = n) /\ (f.at = "closing" => f.drop = {})

Doing ==
  /\ \A co \in Coros : frame[co].at = "idle" <=> frame[co].kind = "none"
  /\ \A co \in Coros : frame[co].kind \in {"none", "connectAll", "install"} =>
       frame[co].drop = {} /\ frame[co].at # "closing"
  /\ frame["task"].kind \in {"none", "connectAll"}
  /\ frame["task"].kind = "connectAll" => frame["task"].obj = "task"
  /\ frame["handler"].kind # "connectAll"
  /\ \A co \in Coros : frame[co].kind # "reload" => OneDrop(frame[co])

LEMMA DoingKept ==
  ASSUME Doing, NEW co \in Coros, Moves(co), frame[co].at # "idle", frame'[co].at # "idle",
         frame'[co].drop \subseteq frame[co].drop,
         frame'[co].at = "closing" => \E n \in frame[co].drop : frame'[co].drop = frame[co].drop \ {n}
  PROVE  Doing'
<1>1. \A o \in Coros : /\ o # co => frame'[o] = frame[o]
                       /\ frame'[o].kind = frame[o].kind /\ frame'[o].obj = frame[o].obj
                       /\ frame'[o].at = "idle" <=> frame[o].at = "idle"
                       /\ frame'[o].drop \subseteq frame[o].drop
                       /\ frame'[o].at = "closing" => frame[o].drop # {} \/ frame[o].at = "closing"
  BY DEF Moves
<1>2. ASSUME NEW o \in Coros, frame'[o].kind # "reload" PROVE OneDrop(frame'[o])
  BY <1>1, <1>2 DEF Doing, OneDrop
<1>3. \A o \in Coros : OneDrop(frame[o])' <=> OneDrop(frame'[o])
  BY DEF OneDrop
<1> QED BY <1>1, <1>2, <1>3, CorosAre DEF Doing

LEMMA DoingStep == Typed /\ Engaged /\ Doing /\ [Next]_vars => Doing'
<1> SUFFICES ASSUME Typed, Engaged, Doing, [Next]_vars PROVE Doing'
  OBVIOUS
<1>1. CASE Request
  <2>1. frame'["task"] = frame["task"] /\ frame'["handler"].at = "drop"
        /\ frame'["handler"].kind \notin {"none", "connectAll"}
        /\ (frame'["handler"].kind = "install" => frame'["handler"].drop = {})
        /\ (frame'["handler"].kind # "reload" => OneDrop(frame'["handler"]))
    <3>1. PICK kind \in Kinds \ {"none", "connectAll"}, obj \in {"task", "own"},
               drop \in SUBSET Names, open \in SUBSET Names : Requested(kind, obj, drop, open)
      BY <1>1, RequestBegins
    <3>2. /\ Begin(kind, obj, drop, open) /\ (kind = "install" => drop = {}) /\ kind \in Kinds
          /\ (kind # "reload" => \A m, n \in drop : m = n)
      BY <3>1 DEF Requested
    <3>3. frame'["task"] = frame["task"] /\ frame'["handler"].at = "drop"
          /\ frame'["handler"].kind = kind /\ frame'["handler"].drop = drop
      BY <3>2, BeginFrame
    <3>4. kind # "none" /\ kind # "connectAll"
      OBVIOUS
    <3> QED BY <3>2, <3>3, <3>4 DEF OneDrop
  <2>2. \A co \in Coros : OneDrop(frame[co])' <=> OneDrop(frame'[co])
    BY DEF OneDrop
  <2> QED BY <2>1, <2>2, CorosAre DEF Doing
<1>2. CASE GetTools \/ UNCHANGED vars
  <2>1. UNCHANGED frame
    BY <1>2 DEF GetTools, vars
  <2> QED BY <2>1 DEF Doing, OneDrop
<1>3. ASSUME NEW co \in Coros, Drop(co) PROVE Doing'
  <2>1. Moves(co) /\ frame[co].at = "drop" /\ frame'[co].at # "idle"
    BY <1>3, DropDoes
  <2>2. \E n \in frame[co].drop : frame'[co].drop = frame[co].drop \ {n}
    BY <1>3, DropDoes
  <2> QED BY <2>1, <2>2, DoingKept
<1>4. ASSUME NEW co \in Coros, Closed(co) \/ StartOpening(co) \/ Open(co) \/ Opened(co) \/ OpenFails(co)
      PROVE  Doing'
  <2>1. Moves(co) /\ frame[co].at # "idle" /\ frame'[co].at \notin {"idle", "closing"}
        /\ frame'[co].drop = frame[co].drop
    BY <1>4, ClosedDoes, StartOpeningDoes, OpenDoes, OpenedDoes, OpenFailsDoes
  <2> QED BY <2>1, DoingKept
<1>5. ASSUME NEW co \in Coros, \A o \in Coros : o # co => frame'[o] = frame[o],
             frame'[co].at = "idle", frame'[co].kind = "none", frame'[co].drop = {}
      PROVE  Doing'
  <2>1. ASSUME NEW o \in Coros, frame'[o].kind # "reload" PROVE OneDrop(frame[o])'
    BY <1>5, <2>1 DEF Doing, OneDrop
  <2> QED BY <1>5, <2>1, CorosAre DEF Doing
<1>6. ASSUME NEW co \in Coros, Finish(co) PROVE Doing'
  BY <1>5, <1>6, FinishDoes
<1>7. ASSUME NEW co \in Coros, CloseFails(co) PROVE Doing'
  <2>1. CASE Catches(frame[co].kind)
    BY <1>7, <2>1, CloseFailsDoes, DoingKept
  <2>2. CASE ~Catches(frame[co].kind)
    BY <1>5, <1>7, <2>2, CloseFailsDoes
  <2> QED BY <2>1, <2>2
<1> QED BY <1>1, <1>2, <1>3, <1>4, <1>6, <1>7 DEF Next

\* The frames at first.
LEMMA FirstFrames ==
  ASSUME Init
  PROVE  /\ frame["handler"].at = "idle" /\ frame["handler"].kind = "none" /\ frame["handler"].drop = {}
         /\ frame["handler"].open = {}
         /\ frame["task"].at = "drop" /\ frame["task"].kind = "connectAll" /\ frame["task"].obj = "task"
         /\ frame["task"].drop = {} /\ frame["task"].open = {}
<1> DEFINE g == [Rest EXCEPT !.kind = "connectAll", !.at = "drop", !.obj = "task"]
<1>1. /\ g.at = "drop" /\ g.kind = "connectAll" /\ g.obj = "task" /\ g.drop = {} /\ g.open = {}
      /\ Rest.at = "idle" /\ Rest.kind = "none" /\ Rest.drop = {} /\ Rest.open = {}
  BY DEF Rest
<1> HIDE DEF g
<1>2. frame["handler"] = Rest /\ frame["task"] = g
  BY CorosAre DEF Init, g
<1> QED BY <1>1, <1>2

\* An operation that will yet build the cache again, or say that it does not.
Pending(co) == frame[co].at = "closing" \/ (GoesOn(frame[co].kind) /\ frame[co].at # "idle")

FreshInv == stale \/ cache \in {NotBuilt, Definitions} \/ \E co \in Coros : Pending(co)

LEMMA FreshKept ==
  ASSUME FreshInv, UNCHANGED <<cache, stale, connections, reg>>, \A co \in Coros : Pending(co) => Pending(co)'
  PROVE  FreshInv'
<1>1. Definitions' = Definitions
  BY DEF Definitions, Connected
<1> QED BY <1>1 DEF FreshInv, NotBuilt, Nobody

LEMMA FreshStep ==
  ASSUME Typed, Engaged, Doing, FreshInv, [Next]_vars
  PROVE  FreshInv'
<1>1. CASE Request
  <2>1. frame["handler"].at = "idle" /\ frame'["task"] = frame["task"]
        /\ UNCHANGED <<cache, stale, connections, reg>>
    BY <1>1, RequestBegins, BeginDoes DEF Requested, managerVars
  <2> QED BY <2>1, FreshKept, CorosAre DEF Pending
<1>2. CASE GetTools
  <2>1. cache' = Definitions /\ Definitions' = Definitions
    BY <1>2 DEF GetTools, managerVars, Definitions, Connected
  <2> QED BY <2>1 DEF FreshInv
<1>3. CASE UNCHANGED vars
  <2>1. UNCHANGED <<cache, stale, connections, reg, frame>>
    BY <1>3 DEF vars, managerVars
  <2> QED BY <2>1, FreshKept DEF Pending
<1>4. ASSUME NEW co \in Coros, Drop(co) PROVE FreshInv'
  <2>1. CASE frame'[co].at = "closing"
    BY <2>1 DEF FreshInv, Pending
  <2>2. CASE frame'[co].at # "closing"
    <3>1. UNCHANGED <<connections, reg, cache, stale>> /\ frame'[co].at = frame[co].at /\ Moves(co)
      BY <1>4, <2>2, DropDoes
    <3> QED BY <3>1, FreshKept DEF Moves, Pending
  <2> QED BY <2>1, <2>2
<1>5. ASSUME NEW co \in Coros, Closed(co) PROVE FreshInv'
  <2>1. frame[co].at = "closing" /\ frame[co].kind \in Kinds \ {"none", "connectAll", "install"}
    BY <1>5, ClosedDoes, FrameParts DEF Doing
  <2>2. Keeps(frame[co].kind) \/ Invalidates(frame[co].kind)
    BY <2>1 DEF Kinds, Keeps, Invalidates
  <2>3. stale' \/ cache' = NotBuilt
    BY <1>5, <2>2 DEF Closed
  <2> QED BY <2>3 DEF FreshInv, NotBuilt, Nobody
<1>6. ASSUME NEW co \in Coros, CloseFails(co) PROVE FreshInv'
  BY <1>6 DEF CloseFails, FreshInv
<1>7. ASSUME NEW co \in Coros, StartOpening(co) \/ Open(co) \/ OpenFails(co) PROVE FreshInv'
  <2>1. UNCHANGED <<connections, reg, cache, stale>>
    BY <1>7, OpenDoes DEF StartOpening, OpenFails, managerVars
  <2>2. Moves(co) /\ frame[co].at # "closing" /\ frame'[co].at # "idle"
    BY <1>7, StartOpeningDoes, OpenDoes, OpenFailsDoes
  <2> QED BY <2>1, <2>2, FreshKept DEF Moves, Pending
<1>8. ASSUME NEW co \in Coros, Opened(co) PROVE FreshInv'
  <2>1. CASE GoesOn(frame[co].kind)
    <3>1. Moves(co) /\ frame'[co].at = "open"
      BY <1>8, OpenedDoes
    <3> QED BY <2>1, <3>1 DEF FreshInv, Pending, Moves
  <2>2. CASE ~GoesOn(frame[co].kind)
    <3>1. cache' = NotBuilt
      BY <1>8, <2>2 DEF Opened
    <3> QED BY <3>1 DEF FreshInv, NotBuilt, Nobody
  <2> QED BY <2>1, <2>2
<1>9. ASSUME NEW co \in Coros, Finish(co) PROVE FreshInv'
  <2>1. CASE GoesOn(frame[co].kind)
    <3>1. cache' = NotBuilt
      BY <1>9, <2>1 DEF Finish
    <3> QED BY <3>1 DEF FreshInv, NotBuilt, Nobody
  <2>2. CASE ~GoesOn(frame[co].kind)
    <3>1. UNCHANGED <<connections, reg, cache, stale>>
      BY <1>9, <2>2 DEF Finish, managerVars
    <3>2. frame[co].at = "open" /\ \A o \in Coros : o # co => frame'[o] = frame[o]
      BY <1>9, FinishDoes
    <3> QED BY <2>2, <3>1, <3>2, FreshKept DEF Pending
  <2> QED BY <2>1, <2>2
<1> QED BY <1>1, <1>2, <1>3, <1>4, <1>5, <1>6, <1>7, <1>8, <1>9 DEF Next

\* A connection that appears while the cache is built is one of an operation that will
\* invalidate it when it ends.
Adding(co) == GoesOn(frame[co].kind) /\ frame[co].at # "idle"

CoverInv == cache = NotBuilt \/ Definitions \subseteq cache \/ \E co \in Coros : Adding(co)

LEMMA CoverKept ==
  ASSUME CoverInv, cache' \in {cache, NotBuilt}, Definitions' \subseteq Definitions,
         \A co \in Coros : Adding(co) => Adding(co)' \/ cache' = NotBuilt
  PROVE  CoverInv'
<1>1. NotBuilt' = NotBuilt
  BY DEF NotBuilt, Nobody
<1> QED BY <1>1 DEF CoverInv

LEMMA CoverStep ==
  ASSUME Typed, Engaged, Doing, CoverInv, [Next]_vars
  PROVE  CoverInv'
<1>1. ASSUME UNCHANGED <<connections, reg>> PROVE Definitions' = Definitions
  BY <1>1 DEF Definitions, Connected
<1>2. CASE Request
  <2>1. frame["handler"].at = "idle" /\ frame'["task"] = frame["task"]
        /\ UNCHANGED <<cache, connections, reg>>
    BY <1>2, RequestBegins, BeginDoes DEF Requested, managerVars
  <2> QED BY <1>1, <2>1, CoverKept, CorosAre DEF Adding
<1>3. CASE GetTools
  <2>1. cache' = Definitions /\ Definitions' = Definitions
    BY <1>1, <1>3 DEF GetTools, managerVars
  <2> QED BY <2>1 DEF CoverInv
<1>4. CASE UNCHANGED vars
  <2>1. UNCHANGED <<cache, connections, reg, frame>>
    BY <1>4 DEF vars, managerVars
  <2> QED BY <1>1, <2>1, CoverKept DEF Adding
<1>5. ASSUME NEW co \in Coros, Drop(co) PROVE CoverInv'
  <2>1. Moves(co) /\ frame'[co].at # "idle" /\ cache' = cache
    BY <1>5, DropDoes
  <2>2. PICK n \in Names :
          \/ /\ Connected(n) /\ connections' = [connections EXCEPT ![n] = Nobody]
             /\ reg' = [reg EXCEPT ![connections[n]] = {}]
          \/ UNCHANGED <<connections, reg>>
    BY <1>5, DropDoes
  <2>3. /\ \A m \in Names : connections'[m] # Nobody => connections'[m] = connections[m]
        /\ \A c \in Clients : reg'[c] \subseteq reg[c]
        /\ \A m \in Names : connections[m] \in Clients \cup {Nobody}
    BY <2>2 DEF Typed, TypeOK
  <2>4. Definitions' \subseteq Definitions
    BY <2>3 DEF Definitions, Connected
  <2> QED BY <2>1, <2>4, CoverKept DEF Adding, Moves
<1>6. ASSUME NEW co \in Coros, Closed(co) PROVE CoverInv'
  <2>1. UNCHANGED <<connections, reg>> /\ cache' \in {cache, NotBuilt}
    BY <1>6 DEF Closed
  <2>2. Moves(co) /\ frame'[co].at # "idle"
    BY <1>6, ClosedDoes
  <2> QED BY <1>1, <2>1, <2>2, CoverKept DEF Adding, Moves
<1>7. ASSUME NEW co \in Coros, CloseFails(co) PROVE CoverInv'
  <2>1. UNCHANGED <<connections, reg, cache>>
    BY <1>7 DEF CloseFails
  <2>2. Catches(frame[co].kind) \/ ~GoesOn(frame[co].kind)
    <3>1. frame[co].at = "closing"
      BY <1>7, CloseFailsDoes
    <3>2. frame[co].kind # "connectAll"
      BY <3>1 DEF Doing
    <3> QED BY <3>2 DEF Catches, GoesOn
  <2>3. ASSUME NEW o \in Coros, Adding(o) PROVE Adding(o)'
    BY <1>7, <2>2, <2>3, CloseFailsDoes DEF Adding, Moves
  <2> QED BY <1>1, <2>1, <2>3, CoverKept
<1>8. ASSUME NEW co \in Coros, StartOpening(co) \/ Open(co) \/ OpenFails(co) PROVE CoverInv'
  <2>1. UNCHANGED <<connections, reg, cache>>
    BY <1>8, OpenDoes DEF StartOpening, OpenFails, managerVars
  <2>2. Moves(co) /\ frame'[co].at # "idle"
    BY <1>8, StartOpeningDoes, OpenDoes, OpenFailsDoes
  <2> QED BY <1>1, <2>1, <2>2, CoverKept DEF Adding, Moves
<1>9. ASSUME NEW co \in Coros, Opened(co) PROVE CoverInv'
  <2>1. CASE GoesOn(frame[co].kind)
    <3>1. Moves(co) /\ frame'[co].at = "open"
      BY <1>9, OpenedDoes
    <3> QED BY <2>1, <3>1 DEF CoverInv, Adding, Moves
  <2>2. CASE ~GoesOn(frame[co].kind)
    <3>1. cache' = NotBuilt
      BY <1>9, <2>2 DEF Opened
    <3> QED BY <3>1 DEF CoverInv, NotBuilt, Nobody
  <2> QED BY <2>1, <2>2
<1>10. ASSUME NEW co \in Coros, Finish(co) PROVE CoverInv'
  <2>1. UNCHANGED <<connections, reg>> /\ cache' \in {cache, NotBuilt}
        /\ (GoesOn(frame[co].kind) => cache' = NotBuilt)
    BY <1>10 DEF Finish, managerVars
  <2>2. \A o \in Coros : o # co => frame'[o] = frame[o]
    BY <1>10, FinishDoes
  <2> QED BY <1>1, <2>1, <2>2, CoverKept DEF Adding
<1> QED BY <1>2, <1>3, <1>4, <1>5, <1>6, <1>7, <1>8, <1>9, <1>10 DEF Next

LEMMA FreshInit == Init => Doing /\ FreshInv /\ CoverInv
<1> SUFFICES ASSUME Init PROVE Doing /\ FreshInv /\ CoverInv
  OBVIOUS
<1>1. cache = NotBuilt
  BY DEF Init
<1> QED BY <1>1, FirstFrames, CorosAre DEF Doing, OneDrop, FreshInv, CoverInv

LEMMA Freshness == Given /\ Spec => [](Typed /\ Engaged /\ Doing /\ FreshInv /\ CoverInv)
<1>1. Given /\ Init => Typed /\ Engaged /\ Doing /\ FreshInv /\ CoverInv
  BY TypeInit, FreshInit
<1>2. Typed /\ Engaged /\ Doing /\ FreshInv /\ CoverInv /\ [Next]_vars
      => (Typed /\ Engaged /\ Doing /\ FreshInv /\ CoverInv)'
  BY TypeStep, DoingStep, FreshStep, CoverStep
<1> QED BY <1>1, <1>2, PTL DEF Spec

\* When nothing is under way the turn is offered every tool there is, whatever
\* overlapped; and no other, unless the cache outlived a connection: one whose client
\* failed to close, or one a handler dropped before it failed to open the next.
THEOREM ToolsOffered == Spec => []ToolsFresh
<1>1. Given
  BY ConstantsAssumption DEF Given
<1>2. FreshInv /\ CoverInv => ToolsFresh
  BY DEF FreshInv, CoverInv, ToolsFresh, Quiet, Pending, Adding
<1> QED BY <1>1, <1>2, Freshness, PTL

-----------------------------------------------------------------------------
(* What the user asked for.  As long as no request overlaps the task:       *)

\* What the settings managers hold is what the files say, and who uses which.
SettingsInv ==
  /\ \A s \in Servers : disk[s].listed \/ disk[s] = Absent
  /\ pointer # "none" => settings[pointer] = disk
  /\ frame["task"].at # "idle" => pointer = "none" /\ settings["task"] = disk
  /\ frame["handler"].at # "idle" /\ frame["handler"].kind # "jira" => frame["handler"].obj = pointer

\* A server that is being uninstalled, and is still in the settings.
Leaving(s) ==
  /\ frame["handler"].kind = "uninstall" /\ frame["handler"].at \in {"drop", "closing"}
  /\ s \in frame["handler"].open

Alike(a, b) == a.listed = b.listed /\ a.enabled = b.enabled /\ a.hidden = b.hidden

\* The files say what the user asked for, or will.
WishInv == \A s \in Servers : IF Leaving(s) THEN wish[s] = Absent ELSE Alike(disk[s], wish[s])

\* What an operation has to open: only what is enabled, with the tools to be hidden.
Opens(f) ==
  /\ f.at \in {"open", "opening"} => f.drop = {}
  /\ f.open \subseteq IF f.kind = "jira" THEN {Jira} ELSE Servers
  /\ f.kind \notin {"jira", "uninstall"} => \A s \in f.open : disk[s].enabled
  /\ f.kind = "uninstall" => f.at # "opening" /\ (f.at = "open" => f.open = {})
  /\ f.kind = "install" => \A s \in f.open : wish[s].hidden = {}
  /\ f.at = "opening" =>
       IF f.kind = "jira" THEN f.name = Jira
       ELSE f.name \in Servers /\ disk[f.name].enabled /\ f.hide = wish[f.name].hidden

OpenInv == \A co \in Coros : frame[co].at # "idle" => Opens(frame[co])

\* What is connected and is not to be dropped is enabled, with the tools not hidden.
ToolsInv ==
  /\ \A s \in Servers : Connected(s) /\ s \notin frame["handler"].drop =>
       ~Leaving(s) /\ disk[s].enabled /\ reg[connections[s]] = Tools \ wish[s].hidden
  /\ \A x \in Names \X Tools : executor[x] # Nobody <=> x \in Definitions

SettledInv == ~overlap => SettingsInv /\ WishInv /\ OpenInv /\ ToolsInv

\* The state before a step, when nothing has overlapped.
Calm ==
  /\ Typed /\ Engaged /\ DeadInv /\ Sole /\ Doing
  /\ ~overlap /\ SettingsInv /\ WishInv /\ OpenInv /\ ToolsInv

Settling == SettingsInv /\ WishInv /\ OpenInv /\ ToolsInv

\* The settings a coroutine at work uses are those of the files.
LEMMA ObjIs ==
  ASSUME Calm, NEW co \in Coros, frame[co].at # "idle", frame[co].kind # "jira"
  PROVE  /\ frame[co].obj \in {"task", "own"} /\ settings[frame[co].obj] = disk
         /\ co = "handler" => frame[co].obj = pointer /\ pointer # "none"
         /\ co = "task" => pointer = "none" /\ frame[co].obj = "task"
<1>1. frame[co].obj \in {"task", "own"}
  BY FrameParts DEF Calm
<1>2. CASE co = "task"
  <2>1. frame["task"].kind = "connectAll"
    BY <1>2 DEF Calm, Doing
  <2> QED BY <1>1, <1>2, <2>1 DEF Calm, Doing, SettingsInv
<1>3. CASE co = "handler"
  BY <1>1, <1>3 DEF Calm, SettingsInv
<1> QED BY <1>2, <1>3, CorosAre

\* A coroutine goes on, and the settings stay.
LEMMA FrameMoves ==
  ASSUME Calm, NEW co \in Coros, Moves(co), UNCHANGED <<settingVars, wish>>,
         frame[co].at # "idle", frame'[co].at \notin {"idle", "opening"},
         frame'[co].open \subseteq frame[co].open, frame'[co].at = "open" => frame'[co].drop = {},
         frame[co].kind = "uninstall" =>
           (frame'[co].at = "open" <=> frame[co].at = "open") /\ frame'[co].open = frame[co].open
  PROVE  /\ SettingsInv' /\ WishInv' /\ OpenInv'
         /\ \A s \in Servers : Leaving(s)' => Leaving(s)
<1>1. /\ UNCHANGED <<disk, settings, pointer, wish>>
      /\ \A o \in Coros : o # co => frame'[o] = frame[o]
      /\ frame'[co].kind = frame[co].kind /\ frame'[co].obj = frame[co].obj
  BY DEF settingVars, Moves
<1>2. Opens(frame[co])
  BY DEF Calm, OpenInv
<1>3. frame[co].at \in {"drop", "closing", "open", "opening"} /\ frame'[co].at \in {"drop", "closing", "open"}
  <2>1. frame'[co] \in Frames
    BY DEF Moves
  <2> QED BY <2>1, FrameParts DEF Calm, Frames
<1>4. \A s \in Servers : Leaving(s)' <=> Leaving(s)
  <2>1. CASE co = "handler" /\ frame[co].kind = "uninstall"
    <3>1. frame[co].at # "opening" /\ frame'[co].open = frame[co].open
      BY <1>2, <2>1 DEF Opens
    <3>2. frame'[co].at \in {"drop", "closing"} <=> frame[co].at \in {"drop", "closing"}
      BY <1>3, <2>1, <3>1
    <3> QED BY <1>1, <2>1, <3>1, <3>2 DEF Leaving
  <2>2. CASE co = "handler" /\ frame[co].kind # "uninstall"
    BY <1>1, <2>2 DEF Leaving
  <2>3. CASE co = "task"
    BY <1>1, <2>3, CorosAre DEF Leaving
  <2> QED BY <2>1, <2>2, <2>3, CorosAre
<1>5. SettingsInv'
  <2>1. \A o \in Coros : /\ frame'[o].at # "idle" <=> frame[o].at # "idle"
                         /\ frame'[o].kind = frame[o].kind /\ frame'[o].obj = frame[o].obj
    BY <1>1
  <2> QED BY <1>1, <2>1, CorosAre DEF Calm, SettingsInv
<1>6. WishInv'
  BY <1>1, <1>4 DEF Calm, WishInv
<1>7. Opens(frame[co])'
  <2>1. frame'[co].at \in {"open", "opening"} => frame'[co].drop = {}
    OBVIOUS
  <2>2. frame'[co].open \subseteq IF frame'[co].kind = "jira" THEN {Jira} ELSE Servers
    BY <1>1, <1>2 DEF Opens
  <2>3. frame'[co].kind \notin {"jira", "uninstall"} => \A s \in frame'[co].open : disk'[s].enabled
    BY <1>1, <1>2 DEF Opens
  <2>4. frame'[co].kind = "uninstall" => frame'[co].at # "opening" /\ (frame'[co].at = "open" => frame'[co].open = {})
    BY <1>1, <1>2 DEF Opens
  <2>5. frame'[co].kind = "install" => \A s \in frame'[co].open : wish'[s].hidden = {}
    BY <1>1, <1>2 DEF Opens
  <2> QED BY <2>1, <2>2, <2>3, <2>4, <2>5 DEF Opens
<1>8. OpenInv'
  <2> SUFFICES ASSUME NEW o \in Coros, frame'[o].at # "idle" PROVE Opens(frame[o])'
    BY DEF OpenInv
  <2>1. CASE o = co
    BY <1>7, <2>1
  <2>2. CASE o # co
    BY <1>1, <2>2 DEF Calm, OpenInv, Opens
  <2> QED BY <2>1, <2>2
<1> QED BY <1>4, <1>5, <1>6, <1>8

LEMMA ToolsKept ==
  ASSUME Calm, UNCHANGED <<connections, reg, executor, disk, wish>>,
         \A s \in Servers : Leaving(s)' => Leaving(s),
         \A s \in Servers : Connected(s) /\ s \notin frame'["handler"].drop => s \notin frame["handler"].drop
  PROVE  ToolsInv'
<1>1. Definitions' = Definitions /\ \A s \in Servers : Connected(s)' = Connected(s)
  BY DEF Definitions, Connected
<1>2. ASSUME NEW s \in Servers, Connected(s)', s \notin frame'["handler"].drop
      PROVE  ~Leaving(s)' /\ disk'[s].enabled /\ reg'[connections'[s]] = Tools \ wish'[s].hidden
  BY <1>1, <1>2 DEF Calm, ToolsInv
<1>3. \A x \in Names \X Tools : executor'[x] # Nobody <=> x \in Definitions'
  BY <1>1 DEF Calm, ToolsInv
<1> QED BY <1>2, <1>3 DEF ToolsInv

\* Only a handler drops.
LEMMA SettledDrop ==
  ASSUME Calm, NEW co \in Coros, Drop(co)
  PROVE  Settling'
<1>1. /\ frame[co].at = "drop" /\ Moves(co) /\ frame'[co].open = frame[co].open
      /\ UNCHANGED <<settingVars, wish>> /\ frame'[co].at \in {"drop", "closing"}
  BY DropDoes DEF Calm, historyVars
<1>2. PICK n \in Names :
        /\ n \in frame[co].drop /\ frame'[co].drop = frame[co].drop \ {n}
        /\ \/ /\ Connected(n)
              /\ connections' = [connections EXCEPT ![n] = Nobody]
              /\ reg' = [reg EXCEPT ![connections[n]] = {}]
              /\ executor' = [x \in Names \X Tools |->
                   IF x[1] = n /\ x[2] \in reg[connections[n]] THEN Nobody ELSE executor[x]]
           \/ /\ ~Connected(n)
              /\ UNCHANGED <<connections, executor, reg>>
  BY DropDoes DEF Calm
<1>3. co = "handler"
  BY <1>2, CorosAre DEF Calm, Doing
<1>4. /\ SettingsInv' /\ WishInv' /\ OpenInv'
      /\ \A s \in Servers : Leaving(s)' => Leaving(s)
  BY <1>1, FrameMoves
<1>5. disk' = disk /\ wish' = wish
  BY <1>1 DEF settingVars
<1>6. CASE ~Connected(n) /\ UNCHANGED <<connections, executor, reg>>
  BY <1>2, <1>3, <1>4, <1>5, <1>6, ToolsKept DEF Settling
<1>7. CASE Connected(n)
  <2> DEFINE c == connections[n]
  <2>1. /\ c # Nobody /\ c \in Clients
        /\ \A m \in Names : connections'[m] = IF m = n THEN Nobody ELSE connections[m]
        /\ \A d \in Clients : reg'[d] = IF d = c THEN {} ELSE reg[d]
        /\ \A x \in Names \X Tools : executor'[x] =
             IF x[1] = n /\ x[2] \in reg[c] THEN Nobody ELSE executor[x]
    BY <1>2, <1>7 DEF Calm, Typed, TypeOK, Connected
  <2>2. \A m \in Names : m # n /\ connections[m] # Nobody => connections[m] # c /\ connections[m] \in Clients
    BY <2>1 DEF Calm, DeadInv, OneName, Connected, Typed, TypeOK
  <2>3. Servers \subseteq Names
    BY DEF Names
  <2> HIDE DEF c
  <2>4. ASSUME NEW s \in Servers, Connected(s)', s \notin frame'["handler"].drop
        PROVE  ~Leaving(s)' /\ disk'[s].enabled /\ reg'[connections'[s]] = Tools \ wish'[s].hidden
    <3>1. s # n /\ connections'[s] = connections[s] /\ Connected(s)
      BY <2>1, <2>3, <2>4 DEF Connected
    <3>2. reg'[connections[s]] = reg[connections[s]] /\ s \notin frame["handler"].drop
      BY <1>2, <1>3, <2>1, <2>2, <2>3, <2>4, <3>1 DEF Connected
    <3> QED BY <1>4, <1>5, <3>1, <3>2 DEF Calm, ToolsInv
  <2>5. ASSUME NEW x \in Names \X Tools PROVE executor'[x] # Nobody <=> x \in Definitions'
    <3>1. x[1] \in Names /\ (executor[x] # Nobody <=> x \in Definitions)
      BY <2>5 DEF Calm, ToolsInv
    <3>2. CASE x[1] = n
      <4>1. x \notin Definitions'
        BY <2>1, <3>1, <3>2 DEF Definitions, Connected
      <4>2. x[2] \notin reg[c] => x \notin Definitions
        BY <3>2 DEF Definitions, c
      <4> QED BY <2>1, <3>1, <3>2, <4>1, <4>2
    <3>3. CASE x[1] # n
      <4>1. executor'[x] = executor[x] /\ connections'[x[1]] = connections[x[1]]
        BY <2>1, <3>1, <3>3
      <4>2. connections[x[1]] # Nobody => reg'[connections[x[1]]] = reg[connections[x[1]]]
        BY <2>1, <2>2, <3>1, <3>3
      <4>3. x \in Definitions' <=> x \in Definitions
        BY <4>1, <4>2 DEF Definitions, Connected
      <4> QED BY <3>1, <4>1, <4>3
    <3> QED BY <3>2, <3>3
  <2>6. ToolsInv'
    BY <2>4, <2>5 DEF ToolsInv
  <2> QED BY <1>4, <2>6 DEF Settling
<1> QED BY <1>2, <1>6, <1>7

LEMMA SettledClosed ==
  ASSUME Calm, NEW co \in Coros,
         Closed(co) \/ OpenFails(co) \/ (CloseFails(co) /\ Catches(frame[co].kind))
  PROVE  Settling'
<1>1. UNCHANGED <<settingVars, wish, connections, reg, executor>>
  BY DEF Closed, CloseFails, OpenFails, historyVars
<1>2. /\ frame[co].at \in {"closing", "opening"} /\ Moves(co) /\ frame'[co].open = frame[co].open
      /\ frame'[co].at \in {"drop", "open"} /\ frame'[co].drop = frame[co].drop
      /\ (frame[co].at = "closing" <=> frame'[co].at = "drop")
  BY ClosedDoes, CloseFailsDoes, OpenFailsDoes DEF Calm
<1>3. Opens(frame[co])
  BY <1>2 DEF Calm, OpenInv
<1>4. frame'[co].at = "open" => frame'[co].drop = {}
  BY <1>2, <1>3 DEF Opens
<1>5. frame[co].kind = "uninstall" => frame[co].at # "opening"
  BY <1>3 DEF Opens
<1>6. /\ SettingsInv' /\ WishInv' /\ OpenInv'
      /\ \A s \in Servers : Leaving(s)' => Leaving(s)
  BY <1>1, <1>2, <1>4, <1>5, FrameMoves
<1>7. frame'["handler"].drop = frame["handler"].drop
  BY <1>2, CorosAre DEF Moves
<1>8. ToolsInv'
  BY <1>1, <1>6, <1>7, ToolsKept DEF settingVars
<1> QED BY <1>6, <1>8 DEF Settling

\* An operation that is given up has dropped its one name.
LEMMA SettledAborted ==
  ASSUME Calm, NEW co \in Coros, CloseFails(co), ~Catches(frame[co].kind)
  PROVE  Settling'
<1>1. UNCHANGED <<disk, settings, pointer, wish, connections, reg, executor>>
  BY DEF CloseFails, settingVars, historyVars
<1>2. /\ frame[co].at = "closing" /\ \A o \in Coros : o # co => frame'[o] = frame[o]
      /\ frame'[co].at = "idle" /\ frame'[co].drop = {}
  BY CloseFailsDoes DEF Calm
<1>3. \A o \in Coros : frame'[o].at = "idle"
  BY <1>2, Alone DEF Calm
<1>4. co = "handler" /\ frame["handler"].kind \notin {"reload", "uninstall"}
  BY <1>2, CorosAre DEF Calm, Doing, Catches
<1>5. frame["handler"].drop = {}
  BY <1>2, <1>4, CorosAre DEF Calm, Doing, OneDrop
<1>6. \A s \in Servers : ~Leaving(s)' /\ ~Leaving(s)
  BY <1>3, <1>4, CorosAre DEF Leaving
<1>7. SettingsInv'
  BY <1>1, <1>3, CorosAre DEF Calm, SettingsInv
<1>8. WishInv'
  BY <1>1, <1>6 DEF Calm, WishInv
<1>9. OpenInv'
  BY <1>3 DEF OpenInv
<1>10. ToolsInv'
  BY <1>1, <1>5, <1>6, ToolsKept
<1> QED BY <1>7, <1>8, <1>9, <1>10 DEF Settling

\* What there is to open is enabled in the files, and hides what the user has hidden.
LEMMA SettledOpen ==
  ASSUME Calm, NEW co \in Coros, Open(co)
  PROVE  Settling'
<1>1. UNCHANGED <<settingVars, wish, connections, reg, executor>>
  BY OpenDoes DEF Calm, historyVars
<1>2. /\ frame[co].at = "open" /\ Moves(co) /\ frame'[co].open \subseteq frame[co].open
      /\ frame'[co].drop = frame[co].drop
  BY OpenDoes DEF Calm
<1>3. Opens(frame[co]) /\ frame[co].drop = {}
  BY <1>2 DEF Calm, OpenInv, Opens
<1>4. PICK n \in Names : n \in frame[co].open /\
        \/ frame'[co].at = "open"
        \/ /\ ~Connected(n)
           /\ frame'[co].at = "opening" /\ frame'[co].name = n /\ frame'[co].hide = Filter(frame[co], n)
  BY OpenDoes DEF Calm
<1>5. frame[co].kind # "uninstall"
  BY <1>2, <1>3, <1>4 DEF Opens
<1>6. frame'["handler"].drop = frame["handler"].drop
  BY <1>2, CorosAre DEF Moves
<1>7. CASE frame'[co].at = "open"
  <2>1. /\ SettingsInv' /\ WishInv' /\ OpenInv'
        /\ \A s \in Servers : Leaving(s)' => Leaving(s)
    BY <1>1, <1>2, <1>3, <1>5, <1>7, FrameMoves
  <2> QED BY <1>1, <1>6, <2>1, ToolsKept DEF Settling, settingVars
<1>8. CASE frame'[co].at = "opening" /\ frame'[co].name = n /\ frame'[co].hide = Filter(frame[co], n)
  <2>1. /\ UNCHANGED <<disk, settings, pointer, wish>>
        /\ \A o \in Coros : o # co => frame'[o] = frame[o]
        /\ frame'[co].kind = frame[co].kind /\ frame'[co].obj = frame[co].obj
    BY <1>1, <1>2 DEF settingVars, Moves
  <2>2. \A s \in Servers : ~Leaving(s)' /\ ~Leaving(s)
    <3>1. CASE co = "handler"
      BY <1>5, <2>1, <3>1 DEF Leaving
    <3>2. CASE co = "task"
      <4>1. frame["handler"].at = "idle" /\ frame'["handler"] = frame["handler"]
        BY <1>2, <2>1, <3>2, CorosAre DEF Calm, Sole
      <4> QED BY <4>1 DEF Leaving
    <3> QED BY <3>1, <3>2, CorosAre
  <2>3. SettingsInv'
    <3>1. \A o \in Coros : /\ frame'[o].at # "idle" => frame[o].at # "idle"
                           /\ frame'[o].kind = frame[o].kind /\ frame'[o].obj = frame[o].obj
      BY <1>2, <2>1
    <3> QED BY <2>1, <3>1, CorosAre DEF Calm, SettingsInv
  <2>4. WishInv'
    BY <2>1, <2>2 DEF Calm, WishInv
  <2>5. frame[co].kind = "jira" => n = Jira
    BY <1>3, <1>4 DEF Opens
  <2>6. frame[co].kind # "jira" => n \in Servers /\ disk[n].enabled /\ Filter(frame[co], n) = wish[n].hidden
    <3> SUFFICES ASSUME frame[co].kind # "jira"
                 PROVE  n \in Servers /\ disk[n].enabled /\ Filter(frame[co], n) = wish[n].hidden
      OBVIOUS
    <3>1. n \in Servers /\ disk[n].enabled /\ n # Jira
      BY <1>3, <1>4, <1>5 DEF Opens, Calm, Typed, Given
    <3>2. CASE frame[co].kind = "install"
      <4>1. wish[n].hidden = {} /\ Filter(frame[co], n) = {}
        BY <1>3, <1>4, <3>2 DEF Opens, Filter
      <4> QED BY <3>1, <4>1
    <3>3. CASE frame[co].kind # "install"
      <4>1. settings[frame[co].obj] = disk
        BY <1>2, ObjIs
      <4>2. Filter(frame[co], n) = disk[n].hidden
        BY <3>1, <3>3, <4>1 DEF Filter
      <4>3. disk[n].hidden = wish[n].hidden
        BY <2>2, <3>1 DEF Calm, WishInv, Alike
      <4> QED BY <3>1, <4>2, <4>3
    <3> QED BY <3>2, <3>3
  <2>7. Opens(frame[co])'
    <3>1. frame'[co].drop = {}
      BY <1>2, <1>3
    <3>2. frame'[co].open \subseteq IF frame'[co].kind = "jira" THEN {Jira} ELSE Servers
      BY <1>2, <1>3, <2>1 DEF Opens
    <3>3. frame'[co].kind \notin {"jira", "uninstall"} => \A s \in frame'[co].open : disk'[s].enabled
      BY <1>2, <1>3, <2>1 DEF Opens
    <3>4. frame'[co].kind = "install" => \A s \in frame'[co].open : wish'[s].hidden = {}
      BY <1>2, <1>3, <2>1 DEF Opens
    <3>5. frame'[co].kind # "uninstall"
      BY <1>5, <2>1
    <3>6. IF frame'[co].kind = "jira" THEN frame'[co].name = Jira
          ELSE frame'[co].name \in Servers /\ disk'[frame'[co].name].enabled
               /\ frame'[co].hide = wish'[frame'[co].name].hidden
      BY <1>8, <2>1, <2>5, <2>6
    <3> QED BY <3>1, <3>2, <3>3, <3>4, <3>5, <3>6 DEF Opens
  <2>8. OpenInv'
    <3> SUFFICES ASSUME NEW o \in Coros, frame'[o].at # "idle" PROVE Opens(frame[o])'
      BY DEF OpenInv
    <3>1. CASE o = co
      BY <2>7, <3>1
    <3>2. CASE o # co
      BY <2>1, <3>2 DEF Calm, OpenInv, Opens
    <3> QED BY <3>1, <3>2
  <2>9. ToolsInv'
    BY <1>1, <1>6, <2>2, ToolsKept DEF settingVars
  <2> QED BY <2>3, <2>4, <2>8, <2>9 DEF Settling
<1> QED BY <1>4, <1>7, <1>8

\* A server that has been dropped leaves the settings, and the files.
LEMMA SettledLeaves ==
  ASSUME Calm, NEW co \in Coros, StartOpening(co), frame[co].kind = "uninstall"
  PROVE  Settling'
<1> DEFINE f == frame[co]
           st == [s \in Servers |-> IF s \in f.open THEN Absent ELSE disk[s]]
<1>1. /\ f.at = "drop" /\ f.drop = {} /\ Moves(co) /\ frame'[co].at = "open"
      /\ frame'[co].drop = {} /\ frame'[co].open = {}
  BY StartOpeningDoes DEF Calm, ToOpen
<1>2. /\ \A o \in Coros : o # co => frame'[o] = frame[o]
      /\ frame'[co].kind = "uninstall" /\ frame'[co].obj = f.obj
  BY <1>1 DEF Moves
<1>3. co = "handler" /\ frame["task"].at = "idle"
  BY <1>1, CorosAre DEF Calm, Doing, Sole
<1>4. f.obj \in {"task", "own"} /\ settings[f.obj] = disk /\ f.obj = pointer /\ pointer # "none"
  BY <1>1, <1>3, ObjIs
<1>5. /\ settings' = [settings EXCEPT ![f.obj] = [s \in Servers |-> IF s \in f.open THEN Absent ELSE settings[f.obj][s]]]
      /\ disk' = IF \E s \in f.open : settings[f.obj][s].listed THEN settings'[f.obj] ELSE disk
      /\ UNCHANGED <<pointer, wish, connections, reg, executor>>
  BY DEF StartOpening, managerVars, historyVars
<1>6. settings \in [{"task", "own"} -> [Servers -> ServerSettings]] /\ disk \in [Servers -> ServerSettings]
  BY DEF Calm, Typed, TypeOK
<1>7. settings'[f.obj] = st
  BY <1>4, <1>5, <1>6
<1>8. f.open \subseteq Servers
  BY <1>1 DEF Calm, OpenInv, Opens
<1>9. disk' = st
  <2>1. CASE \E s \in f.open : disk[s].listed
    BY <1>4, <1>5, <1>7, <2>1
  <2>2. CASE ~ \E s \in f.open : disk[s].listed
    <3>1. \A s \in f.open : disk[s] = Absent
      BY <1>8, <2>2 DEF Calm, SettingsInv
    <3>2. \A s \in Servers : disk[s] = st[s]
      BY <3>1
    <3>3. disk = st
      BY <1>6, <3>2
    <3> QED BY <1>4, <1>5, <2>2, <3>3
  <2> QED BY <2>1, <2>2
<1>10. \A s \in Servers : disk'[s] = IF s \in f.open THEN Absent ELSE disk[s]
  BY <1>9
<1> HIDE DEF st
<1>11. SettingsInv'
  <2>1. \A s \in Servers : disk'[s].listed \/ disk'[s] = Absent
    BY <1>10 DEF Calm, SettingsInv
  <2>2. settings'[pointer'] = disk' /\ frame'["handler"].obj = pointer'
    BY <1>2, <1>3, <1>4, <1>5, <1>7, <1>9
  <2>3. frame'["task"].at = "idle"
    BY <1>2, <1>3, CorosAre
  <2> QED BY <2>1, <2>2, <2>3 DEF SettingsInv
<1>12. \A s \in Servers : ~Leaving(s)' /\ (Leaving(s) <=> s \in f.open)
  BY <1>1, <1>2, <1>3 DEF Leaving
<1>13. WishInv'
  <2> SUFFICES ASSUME NEW s \in Servers PROVE Alike(disk'[s], wish'[s])
    BY <1>12 DEF WishInv
  <2>1. CASE s \in f.open
    BY <1>5, <1>10, <1>12, <2>1 DEF Calm, WishInv, Alike
  <2>2. CASE s \notin f.open
    BY <1>5, <1>10, <1>12, <2>2 DEF Calm, WishInv
  <2> QED BY <2>1, <2>2
<1>14. OpenInv'
  <2>1. Opens(frame[co])'
    BY <1>1, <1>2 DEF Opens
  <2>2. \A o \in Coros : o # co => frame'[o].at = "idle"
    BY <1>2, <1>3, CorosAre
  <2> QED BY <2>1, <2>2 DEF OpenInv
<1>15. ToolsInv'
  <2>1. Definitions' = Definitions /\ \A s \in Servers : Connected(s)' = Connected(s)
    BY <1>5 DEF Definitions, Connected
  <2>2. ASSUME NEW s \in Servers, Connected(s)'
        PROVE  ~Leaving(s)' /\ disk'[s].enabled /\ reg'[connections'[s]] = Tools \ wish'[s].hidden
    <3>1. ~Leaving(s) /\ disk[s].enabled /\ reg[connections[s]] = Tools \ wish[s].hidden
      BY <1>1, <1>3, <2>1, <2>2 DEF Calm, ToolsInv
    <3> QED BY <1>5, <1>10, <1>12, <3>1
  <2>3. \A x \in Names \X Tools : executor'[x] # Nobody <=> x \in Definitions'
    BY <1>5, <2>1 DEF Calm, ToolsInv
  <2> QED BY <2>2, <2>3 DEF ToolsInv
<1> QED BY <1>11, <1>13, <1>14, <1>15 DEF Settling

LEMMA SettledStart ==
  ASSUME Calm, NEW co \in Coros, StartOpening(co)
  PROVE  Settling'
<1>0. CASE frame[co].kind = "uninstall"
  BY <1>0, SettledLeaves
<1>00. CASE frame[co].kind # "uninstall"
  <2>1. UNCHANGED <<settingVars, wish, connections, reg, executor>>
    BY <1>00 DEF StartOpening, settingVars, managerVars, historyVars
  <2>2. /\ frame[co].at = "drop" /\ frame[co].drop = {} /\ Moves(co) /\ frame'[co].at = "open"
        /\ frame'[co].drop = {} /\ frame'[co].open = ToOpen(frame[co])
    BY StartOpeningDoes DEF Calm
  <2>3. frame'["handler"].drop = frame["handler"].drop
    BY <2>2, CorosAre DEF Moves
  <2>4. CASE frame[co].kind \notin {"connectAll", "reload"}
    <3>1. frame'[co].open = frame[co].open
      BY <1>00, <2>2, <2>4 DEF ToOpen
    <3>2. /\ SettingsInv' /\ WishInv' /\ OpenInv'
          /\ \A s \in Servers : Leaving(s)' => Leaving(s)
      BY <1>00, <2>1, <2>2, <3>1, FrameMoves
    <3> QED BY <2>1, <2>3, <3>2, ToolsKept DEF Settling, settingVars
  <2>5. CASE frame[co].kind \in {"connectAll", "reload"}
    <3>1. settings[frame[co].obj] = disk
      BY <2>2, <2>5, ObjIs
    <3>2. frame'[co].open = {s \in Enabled(disk) : ~Connected(s)}
      BY <2>2, <2>5, <3>1 DEF ToOpen
    <3>3. \A s \in frame'[co].open : s \in Servers /\ disk[s].enabled
      BY <3>2 DEF Enabled
    <3>4. /\ UNCHANGED <<disk, settings, pointer, wish>>
          /\ \A o \in Coros : o # co => frame'[o] = frame[o]
          /\ frame'[co].kind = frame[co].kind /\ frame'[co].obj = frame[co].obj
      BY <2>1, <2>2 DEF settingVars, Moves
    <3>5. SettingsInv'
      <4>1. \A o \in Coros : /\ frame'[o].at # "idle" => frame[o].at # "idle"
                             /\ frame'[o].kind = frame[o].kind /\ frame'[o].obj = frame[o].obj
        BY <2>2, <3>4
      <4> QED BY <3>4, <4>1, CorosAre DEF Calm, SettingsInv
    <3>6. \A s \in Servers : ~Leaving(s)' /\ ~Leaving(s)
      <4>1. frame["handler"].kind # "uninstall" \/ frame["handler"].at = "idle"
        BY <1>00, <2>2, CorosAre DEF Calm, Sole
      <4>2. frame'["handler"].kind # "uninstall" \/ frame'["handler"].at = "idle"
        BY <3>4, <4>1, <1>00, CorosAre
      <4> QED BY <4>1, <4>2 DEF Leaving
    <3>7. WishInv'
      BY <3>4, <3>6 DEF Calm, WishInv
    <3>8. Opens(frame[co])'
      BY <2>2, <2>5, <3>3, <3>4 DEF Opens
    <3>9. OpenInv'
      <4> SUFFICES ASSUME NEW o \in Coros, frame'[o].at # "idle" PROVE Opens(frame[o])'
        BY DEF OpenInv
      <4>1. CASE o = co
        BY <3>8, <4>1
      <4>2. CASE o # co
        BY <3>4, <4>2 DEF Calm, OpenInv, Opens
      <4> QED BY <4>1, <4>2
    <3>10. ToolsInv'
      BY <2>1, <2>3, <3>6, ToolsKept DEF settingVars
    <3> QED BY <3>5, <3>7, <3>9, <3>10 DEF Settling
  <2> QED BY <2>4, <2>5
<1> QED BY <1>0, <1>00

LEMMA SettledFinish ==
  ASSUME Calm, NEW co \in Coros, Finish(co)
  PROVE  Settling'
<1>1. /\ UNCHANGED <<disk, settings, wish, connections, reg, executor>>
      /\ pointer' = IF frame[co].kind = "connectAll" /\ Enabled(settings["task"]) # {} THEN "task" ELSE pointer
  BY DEF Finish, managerVars, historyVars
<1>2. /\ frame[co].at = "open" /\ \A o \in Coros : o # co => frame'[o] = frame[o]
      /\ frame'[co].at = "idle" /\ frame'[co].drop = {} /\ frame'[co].kind = "none"
  BY FinishDoes DEF Calm
<1>3. \A o \in Coros : frame'[o].at = "idle"
  BY <1>2, Alone DEF Calm
<1>4. frame[co].drop = {}
  BY <1>2 DEF Calm, OpenInv, Opens
<1>5. frame["handler"].drop = {}
  <2>1. CASE co = "handler"
    BY <1>4, <2>1
  <2>2. CASE co # "handler"
    <3>1. frame["handler"].at = "idle"
      BY <1>2, <2>2, CorosAre, Alone DEF Calm
    <3> QED BY <3>1, CorosAre DEF Calm, Doing
  <2> QED BY <2>1, <2>2
<1>6. SettingsInv'
  <2>1. pointer' # "none" => settings[pointer'] = disk
    <3>1. CASE frame[co].kind = "connectAll"
      <4>1. settings["task"] = disk
        BY <1>2, <3>1, CorosAre DEF Calm, Doing, SettingsInv
      <4> QED BY <1>1, <4>1 DEF Calm, SettingsInv
    <3>2. CASE frame[co].kind # "connectAll"
      BY <1>1, <3>2 DEF Calm, SettingsInv
    <3> QED BY <3>1, <3>2
  <2> QED BY <1>1, <1>3, <2>1, CorosAre DEF Calm, SettingsInv
<1>7. \A s \in Servers : ~Leaving(s)' /\ ~Leaving(s)
  <2>1. frame["handler"].at \in {"idle", "open"}
    BY <1>2, CorosAre, Alone DEF Calm
  <2> QED BY <1>3, <2>1, CorosAre DEF Leaving
<1>8. WishInv'
  BY <1>1, <1>7 DEF Calm, WishInv
<1>9. OpenInv'
  BY <1>3 DEF OpenInv
<1>10. ToolsInv'
  BY <1>1, <1>5, <1>7, ToolsKept
<1> QED BY <1>6, <1>8, <1>9, <1>10 DEF Settling

\* The new tools are merged into the settings; the rest of the settings stays.
LEMMA OpenedSettings ==
  ASSUME Calm, NEW co \in Coros, Opened(co)
  PROVE  /\ \A s \in Servers : Alike(disk'[s], disk[s]) /\ (disk'[s].listed \/ disk'[s] = Absent)
         /\ frame[co].kind # "jira" => settings'[frame[co].obj] = disk'
         /\ frame[co].kind = "jira" => UNCHANGED <<disk, settings>>
<1> DEFINE f == frame[co]
           n == f.name
<1>1. f.at = "opening" /\ Opens(f)
  BY OpenedDoes DEF Calm, OpenInv
<1>2. IF n # Jira /\ settings[f.obj][n].listed /\ settings[f.obj][n].known # Tools
      THEN /\ settings' = [settings EXCEPT ![f.obj][n].known = Tools]
           /\ disk' = settings'[f.obj]
      ELSE UNCHANGED <<settings, disk>>
  BY DEF Opened
<1>3. CASE f.kind = "jira"
  BY <1>1, <1>2, <1>3 DEF Opens, Calm, SettingsInv, Alike
<1>4. CASE f.kind # "jira"
  <2>1. n \in Servers /\ f.obj \in {"task", "own"} /\ settings[f.obj] = disk
    BY <1>1, <1>4, ObjIs DEF Opens
  <2>2. settings \in [{"task", "own"} -> [Servers -> ServerSettings]] /\ disk \in [Servers -> ServerSettings]
    BY DEF Calm, Typed, TypeOK
  <2>3. CASE UNCHANGED <<settings, disk>>
    BY <1>4, <2>1, <2>3 DEF Calm, SettingsInv, Alike
  <2>4. CASE disk[n].listed /\ settings' = [settings EXCEPT ![f.obj][n].known = Tools] /\ disk' = settings'[f.obj]
    <3> DEFINE st == [disk[n] EXCEPT !.known = Tools]
    <3>1. settings'[f.obj] = [disk EXCEPT ![n] = st] /\ disk' = [disk EXCEPT ![n] = st]
      BY <2>1, <2>2, <2>4
    <3>2. Alike(st, disk[n]) /\ st.listed
      BY <2>1, <2>2, <2>4 DEF ServerSettings, Alike
    <3> HIDE DEF st
    <3>3. \A s \in Servers : disk'[s] = IF s = n THEN st ELSE disk[s]
      BY <2>1, <2>2, <3>1
    <3> QED BY <1>4, <3>1, <3>2, <3>3 DEF Calm, SettingsInv, Alike
  <2> QED BY <1>2, <2>1, <2>3, <2>4
<1> QED BY <1>3, <1>4

LEMMA SettledOpened ==
  ASSUME Calm, NEW co \in Coros, Opened(co)
  PROVE  Settling'
<1> DEFINE f == frame[co]
           n == f.name
           c == f.client
<1>1. /\ f.at = "opening" /\ Moves(co) /\ frame'[co].at = "open"
      /\ frame'[co].drop = f.drop /\ frame'[co].open = f.open
      /\ reg' = [reg EXCEPT ![c] = Tools \ f.hide]
      /\ connections' = [connections EXCEPT ![n] = c]
      /\ executor' = [x \in Names \X Tools |->
           IF x[1] = n /\ x[2] \notin f.hide THEN c ELSE executor[x]]
  BY OpenedDoes DEF Calm
<1>2. /\ \A o \in Coros : o # co => frame'[o] = frame[o]
      /\ frame'[co].kind = f.kind /\ frame'[co].obj = f.obj
  BY <1>1 DEF Moves
<1>3. Opens(f) /\ f.drop = {} /\ f.kind # "uninstall"
  BY <1>1 DEF Calm, OpenInv, Opens
<1>4. \A o \in Coros : o # co => frame[o].at = "idle"
  BY <1>1, Alone DEF Calm
<1>5. /\ \A s \in Servers : Alike(disk'[s], disk[s]) /\ (disk'[s].listed \/ disk'[s] = Absent)
      /\ f.kind # "jira" => settings'[f.obj] = disk'
      /\ f.kind = "jira" => UNCHANGED <<disk, settings>>
  BY OpenedSettings
<1>6. pointer' = pointer /\ wish' = wish
  BY DEF Opened, historyVars
<1>7. frame["handler"].drop = {} /\ frame'["handler"].drop = {}
  <2>1. CASE co = "handler"
    BY <1>1, <1>3, <2>1
  <2>2. CASE co # "handler"
    <3>1. frame["handler"].at = "idle" /\ frame'["handler"] = frame["handler"]
      BY <1>2, <1>4, <2>2, CorosAre
    <3> QED BY <3>1, CorosAre DEF Calm, Doing
  <2> QED BY <2>1, <2>2
<1>8. SettingsInv'
  <2>1. CASE f.kind = "jira"
    <3>1. co = "handler"
      BY <2>1, CorosAre DEF Calm, Doing
    <3>2. frame'["handler"].kind = "jira" /\ frame'["task"].at = "idle"
      BY <1>2, <1>4, <2>1, <3>1, CorosAre
    <3> QED BY <1>5, <1>6, <2>1, <3>2 DEF Calm, SettingsInv
  <2>2. CASE f.kind # "jira" /\ co = "handler"
    <3>1. f.obj = pointer
      BY <1>1, <2>2, ObjIs
    <3>2. frame'["task"].at = "idle" /\ frame'["handler"].obj = pointer
      BY <1>2, <1>4, <2>2, <3>1, CorosAre
    <3> QED BY <1>5, <1>6, <2>2, <3>1, <3>2 DEF SettingsInv
  <2>3. CASE f.kind # "jira" /\ co = "task"
    <3>1. f.obj = "task" /\ pointer = "none"
      BY <1>1, <2>3, ObjIs
    <3>2. frame'["handler"].at = "idle"
      BY <1>2, <1>4, <2>3, CorosAre
    <3> QED BY <1>5, <1>6, <2>3, <3>1, <3>2 DEF SettingsInv
  <2> QED BY <2>1, <2>2, <2>3, CorosAre
<1>9. \A s \in Servers : ~Leaving(s)' /\ ~Leaving(s)
  <2>1. frame["handler"].kind # "uninstall" \/ frame["handler"].at = "idle"
    BY <1>3, <1>4, CorosAre
  <2>2. frame'["handler"].kind # "uninstall" \/ frame'["handler"].at = "idle"
    BY <1>2, <1>3, <1>4, CorosAre
  <2> QED BY <2>1, <2>2 DEF Leaving
<1>10. WishInv'
  BY <1>5, <1>6, <1>9 DEF Calm, WishInv, Alike
<1>11. OpenInv'
  <2>1. f.kind \notin {"jira", "uninstall"} => \A s \in f.open : s \in Servers /\ disk'[s].enabled
    BY <1>3, <1>5 DEF Opens, Alike
  <2>2. Opens(frame[co])'
    BY <1>1, <1>2, <1>3, <1>6, <2>1 DEF Opens
  <2> QED BY <1>2, <1>4, <2>2 DEF OpenInv
<1>12. ToolsInv'
  <2>1. /\ c \in Clients /\ c # Nobody /\ n \in Names /\ connections[n] = Nobody
        /\ \A m \in Names : connections[m] # c
    BY <1>1, FrameParts, ClientsAre DEF Calm, DeadInv, Clear, Apart, Busy, Sole, Connected
  <2>2. /\ \A m \in Names : connections'[m] = IF m = n THEN c ELSE connections[m]
        /\ \A d \in Clients : reg'[d] = IF d = c THEN Tools \ f.hide ELSE reg[d]
        /\ \A m \in Names : connections[m] \in Clients \cup {Nobody}
    BY <1>1 DEF Calm, Typed, TypeOK
  <2>3. \A x \in Names \X Tools : executor'[x] = IF x[1] = n /\ x[2] \notin f.hide THEN c ELSE executor[x]
    BY <1>1
  <2>4. n \in Servers => disk[n].enabled /\ f.hide = wish[n].hidden
    BY <1>1, <1>3 DEF Opens, Calm, Typed, Given
  <2>5. Servers \subseteq Names
    BY DEF Names
  <2> HIDE DEF c, n
  <2>6. ASSUME NEW s \in Servers, Connected(s)'
        PROVE  ~Leaving(s)' /\ disk'[s].enabled /\ reg'[connections'[s]] = Tools \ wish'[s].hidden
    <3>1. CASE s = n
      BY <1>5, <1>6, <1>9, <2>1, <2>2, <2>4, <2>6, <3>1 DEF Alike
    <3>2. CASE s # n
      <4>1. connections'[s] = connections[s] /\ Connected(s) /\ connections[s] \in Clients /\ connections[s] # c
        BY <2>1, <2>2, <2>5, <2>6, <3>2 DEF Connected
      <4>2. disk[s].enabled /\ reg[connections[s]] = Tools \ wish[s].hidden
        BY <1>7, <4>1 DEF Calm, ToolsInv
      <4> QED BY <1>5, <1>6, <1>9, <2>2, <4>1, <4>2 DEF Alike
    <3> QED BY <3>1, <3>2
  <2>7. ASSUME NEW x \in Names \X Tools PROVE executor'[x] # Nobody <=> x \in Definitions'
    <3>1. x[1] \in Names /\ x[2] \in Tools /\ (executor[x] # Nobody <=> x \in Definitions)
      BY <2>7 DEF Calm, ToolsInv
    <3>2. CASE x[1] = n
      <4>1. executor[x] = Nobody
        BY <2>1, <3>1, <3>2 DEF Definitions, Connected
      <4>2. executor'[x] # Nobody <=> x[2] \notin f.hide
        BY <2>1, <2>3, <3>2, <4>1
      <4>3. connections'[x[1]] = c /\ reg'[c] = Tools \ f.hide
        BY <2>1, <2>2, <3>2
      <4>4. x \in Definitions' <=> x[2] \notin f.hide
        BY <2>1, <3>1, <4>3 DEF Definitions, Connected
      <4> QED BY <4>2, <4>4
    <3>3. CASE x[1] # n
      <4>1. executor'[x] = executor[x] /\ connections'[x[1]] = connections[x[1]]
        BY <2>2, <2>3, <3>1, <3>3
      <4>2. connections[x[1]] # Nobody => reg'[connections[x[1]]] = reg[connections[x[1]]]
        BY <2>1, <2>2, <3>1
      <4>3. x \in Definitions' <=> x \in Definitions
        BY <4>1, <4>2 DEF Definitions, Connected
      <4> QED BY <3>1, <4>1, <4>3
    <3> QED BY <3>2, <3>3
  <2> QED BY <2>6, <2>7 DEF ToolsInv
<1> QED BY <1>8, <1>10, <1>11, <1>12 DEF Settling

-----------------------------------------------------------------------------
(* The requests.                                                            *)

\* A request that comes when nothing is under way finds the settings, the files and
\* the user's wishes alike.
LEMMA Before ==
  ASSUME Calm, frame["handler"].at = "idle", frame["task"].at = "idle"
  PROVE  /\ Current = disk /\ Obj \in {"task", "own"}
         /\ disk \in [Servers -> ServerSettings] /\ wish \in [Servers -> ServerSettings]
         /\ settings \in [{"task", "own"} -> [Servers -> ServerSettings]]
         /\ \A s \in Servers : /\ Alike(disk[s], wish[s])
                               /\ disk[s].listed \/ disk[s] = Absent
                               /\ Connected(s) => disk[s].enabled /\ disk[s].listed
         /\ Servers \subseteq Names
<1>1. Current = disk /\ Obj \in {"task", "own"}
  BY DEF Current, Obj, Calm, SettingsInv, Typed, TypeOK
<1>2. \A s \in Servers : ~Leaving(s)
  BY DEF Leaving
<1>3. frame["handler"].drop = {}
  BY CorosAre DEF Calm, Doing
<1>4. \A s \in Servers : Connected(s) => disk[s].enabled
  BY <1>3 DEF Calm, ToolsInv
<1>5. \A s \in Servers : disk[s].listed \/ (disk[s] = Absent /\ ~disk[s].enabled)
  BY SettingsAre DEF Calm, SettingsInv
<1> QED BY <1>1, <1>2, <1>4, <1>5 DEF Calm, WishInv, Typed, TypeOK, Names

\* What a request must do to keep it so.
LEMMA SettledRequest ==
  ASSUME Calm, ~overlap', NEW kind, NEW obj, NEW drop, NEW open, Begin(kind, obj, drop, open),
         \A s \in Servers : disk'[s].listed \/ disk'[s] = Absent,
         pointer' # "none" => settings'[pointer'] = disk',
         kind # "jira" => obj = pointer',
         \A s \in Servers : IF kind = "uninstall" /\ s \in open THEN wish'[s] = Absent
                            ELSE Alike(disk'[s], wish'[s]),
         open \subseteq IF kind = "jira" THEN {Jira} ELSE Servers,
         kind \notin {"jira", "uninstall"} => \A s \in open : disk'[s].enabled,
         kind = "install" => \A s \in open : wish'[s].hidden = {},
         \A s \in Servers : Connected(s) /\ s \notin drop =>
           ~(kind = "uninstall" /\ s \in open) /\ disk'[s].enabled /\ wish'[s].hidden = wish[s].hidden
  PROVE  Settling'
<1>1. /\ frame'["handler"].kind = kind /\ frame'["handler"].at = "drop" /\ frame'["handler"].obj = obj
      /\ frame'["handler"].drop = drop /\ frame'["handler"].open = open
      /\ frame["handler"].at = "idle" /\ frame'["task"] = frame["task"]
  BY BeginFrame DEF Calm
<1>2. frame["task"].at = "idle" /\ UNCHANGED <<connections, reg, executor>>
  BY DEF Begin, managerVars
<1>3. \A s \in Servers : Leaving(s)' <=> kind = "uninstall" /\ s \in open
  BY <1>1 DEF Leaving
<1>4. frame["handler"].drop = {}
  BY <1>1, CorosAre DEF Calm, Doing
<1>5. SettingsInv'
  BY <1>1, <1>2 DEF SettingsInv
<1>6. WishInv'
  BY <1>3 DEF WishInv
<1>7. Opens(frame["handler"])'
  <2>1. /\ open \subseteq IF kind = "jira" THEN {Jira} ELSE Servers
        /\ kind \notin {"jira", "uninstall"} => \A s \in open : disk'[s].enabled
        /\ kind = "install" => \A s \in open : wish'[s].hidden = {}
    OBVIOUS
  <2> QED BY <1>1, <2>1 DEF Opens
<1>8. OpenInv'
  BY <1>1, <1>2, <1>7, CorosAre DEF OpenInv
<1>9. ToolsInv'
  <2>1. Definitions' = Definitions /\ \A s \in Servers : Connected(s)' = Connected(s)
    BY <1>2 DEF Definitions, Connected
  <2>2. ASSUME NEW s \in Servers, Connected(s)', s \notin frame'["handler"].drop
        PROVE  ~Leaving(s)' /\ disk'[s].enabled /\ reg'[connections'[s]] = Tools \ wish'[s].hidden
    <3>1. Connected(s) /\ s \notin drop
      BY <1>1, <2>1, <2>2
    <3>2. ~Leaving(s)' /\ disk'[s].enabled /\ wish'[s].hidden = wish[s].hidden
      BY <1>3, <3>1
    <3>3. reg[connections[s]] = Tools \ wish[s].hidden
      BY <1>4, <3>1 DEF Calm, ToolsInv
    <3> QED BY <1>2, <3>2, <3>3
  <2>3. \A x \in Names \X Tools : executor'[x] # Nobody <=> x \in Definitions'
    BY <1>2, <2>1 DEF Calm, ToolsInv
  <2> QED BY <2>2, <2>3 DEF ToolsInv
<1> QED BY <1>5, <1>6, <1>8, <1>9 DEF Settling

\* What is written of one server.
LEMMA PutDoes ==
  ASSUME settings \in [{"task", "own"} -> [Servers -> ServerSettings]], NEW obj \in {"task", "own"}, NEW st,
         Put(obj, st)
  PROVE  pointer' = obj /\ settings'[pointer'] = st
BY DEF Put

LEMMA ToggleSettles ==
  ASSUME Calm, ~overlap', NEW s \in Servers, NEW on \in BOOLEAN, ToggleServer(s, on)
  PROVE  Settling'
<1> DEFINE drop == If(s, ~on /\ Connected(s))
           open == If(s, on /\ ~Connected(s) /\ disk[s].listed)
<1>1. Begin("toggle", Obj, drop, open)
  BY DEF ToggleServer
<1>2. frame["handler"].at = "idle" /\ frame["task"].at = "idle"
  BY <1>1 DEF Begin
<1>3. /\ Obj \in {"task", "own"} /\ disk \in [Servers -> ServerSettings] /\ wish \in [Servers -> ServerSettings]
      /\ settings \in [{"task", "own"} -> [Servers -> ServerSettings]]
      /\ \A t \in Servers : /\ Alike(disk[t], wish[t]) /\ (disk[t].listed \/ disk[t] = Absent)
                            /\ Connected(t) => disk[t].enabled /\ disk[t].listed
  BY <1>2, Before
<1>4. Put(Obj, Toggled(s, on)) /\ disk' = Toggled(s, on)
      /\ wish' = [wish EXCEPT ![s].enabled = on /\ wish[s].listed]
  BY DEF ToggleServer, Save
<1>5. pointer' = Obj /\ settings'[pointer'] = disk'
  BY <1>3, <1>4, PutDoes
<1>6. \A t \in Servers : t # s => disk'[t] = disk[t] /\ wish'[t] = wish[t]
  BY <1>3, <1>4 DEF Toggled
<1>7. disk[s].listed => disk'[s].listed /\ disk'[s].enabled = on /\ disk'[s].hidden = disk[s].hidden
  <2>1. disk[s] \in ServerSettings
    BY <1>3
  <2>2. disk[s].listed => disk'[s] = [disk[s] EXCEPT !.enabled = on]
    BY <1>3, <1>4 DEF Toggled
  <2> QED BY <2>1, <2>2 DEF ServerSettings
<1>8. ~disk[s].listed => disk'[s] = disk[s] /\ disk[s] = Absent
  BY <1>3, <1>4 DEF Toggled
<1>9. /\ wish'[s].listed = wish[s].listed /\ wish'[s].hidden = wish[s].hidden
      /\ wish'[s].enabled = (on /\ wish[s].listed)
  <2>1. wish[s] \in ServerSettings
    BY <1>3
  <2>2. wish'[s] = [wish[s] EXCEPT !.enabled = on /\ wish[s].listed]
    BY <1>3, <1>4
  <2> QED BY <2>1, <2>2 DEF ServerSettings
<1>10. Alike(disk'[s], wish'[s])
  <2>1. CASE disk[s].listed
    BY <1>3, <1>7, <1>9, <2>1 DEF Alike
  <2>2. CASE ~disk[s].listed
    BY <1>3, <1>8, <1>9, <2>2, SettingsAre DEF Alike
  <2> QED BY <2>1, <2>2
<1>11. \A t \in open : t = s /\ on /\ disk[s].listed
  BY DEF If
<1>12. \A t \in Servers : Connected(t) /\ t \notin drop => t # s \/ on
  BY DEF If
<1> HIDE DEF drop, open
<1>13. \A t \in Servers : disk'[t].listed \/ disk'[t] = Absent
  BY <1>3, <1>6, <1>7, <1>8
<1>14. \A t \in Servers : Alike(disk'[t], wish'[t])
  BY <1>3, <1>6, <1>10
<1>15. open \subseteq Servers /\ \A t \in open : disk'[t].enabled
  BY <1>7, <1>11
<1>16. \A t \in Servers : Connected(t) /\ t \notin drop => disk'[t].enabled /\ wish'[t].hidden = wish[t].hidden
  BY <1>3, <1>6, <1>7, <1>9, <1>12
<1> QED BY <1>1, <1>5, <1>13, <1>14, <1>15, <1>16, SettledRequest

LEMMA SaveSettles ==
  ASSUME Calm, ~overlap', NEW s \in Servers, NEW h \in SUBSET Tools, SaveTools(s, h)
  PROVE  Settling'
<1> DEFINE st == IF Current[s].listed
                 THEN [Current EXCEPT ![s].hidden = h, ![s].known = Tools] ELSE Current
           drop == If(s, Connected(s))
           open == If(s, Connected(s) /\ st[s].enabled)
<1>1. Begin("save", Obj, drop, open) /\ Put(Obj, st) /\ disk' = st
      /\ wish' = [wish EXCEPT ![s].hidden = IF wish[s].listed THEN h ELSE {}]
  BY Zenon DEF SaveTools, Save
<1>2. frame["handler"].at = "idle" /\ frame["task"].at = "idle"
  BY <1>1 DEF Begin
<1>3. /\ Current = disk
      /\ Obj \in {"task", "own"} /\ disk \in [Servers -> ServerSettings] /\ wish \in [Servers -> ServerSettings]
      /\ settings \in [{"task", "own"} -> [Servers -> ServerSettings]]
      /\ \A t \in Servers : /\ Alike(disk[t], wish[t]) /\ (disk[t].listed \/ disk[t] = Absent)
                            /\ Connected(t) => disk[t].enabled /\ disk[t].listed
  BY <1>2, Before
<1>4. \A t \in open : t = s /\ st[s].enabled
  BY DEF If
<1>5. \A t \in Servers : Connected(t) /\ t \notin drop => t # s
  BY DEF If
<1>6. \A t \in Servers : t # s => st[t] = disk[t]
  BY <1>3
<1>7. disk[s].listed => /\ st[s].listed /\ st[s].enabled = disk[s].enabled /\ st[s].hidden = h
  <2>1. disk[s] \in ServerSettings
    BY <1>3
  <2>2. disk[s].listed => st[s] = [disk[s] EXCEPT !.hidden = h, !.known = Tools]
    BY <1>3
  <2> QED BY ZenonT(30), <2>1, <2>2 DEF ServerSettings
<1>8. ~disk[s].listed => st[s] = disk[s]
  BY <1>3
<1> HIDE DEF st, drop, open
<1>9. pointer' = Obj /\ settings'[pointer'] = disk'
  BY <1>1, <1>3, PutDoes
<1>10. \A t \in Servers : t # s => wish'[t] = wish[t]
  BY <1>1, <1>3
<1>11. /\ wish'[s].listed = wish[s].listed /\ wish'[s].enabled = wish[s].enabled
       /\ wish'[s].hidden = IF wish[s].listed THEN h ELSE {}
  <2>1. wish[s] \in ServerSettings
    BY <1>3
  <2>2. wish'[s] = [wish[s] EXCEPT !.hidden = IF wish[s].listed THEN h ELSE {}]
    BY <1>1, <1>3
  <2> QED BY <2>1, <2>2 DEF ServerSettings
<1>12. Alike(disk'[s], wish'[s])
  <2>1. CASE disk[s].listed
    BY <1>1, <1>3, <1>7, <1>11, <2>1 DEF Alike
  <2>2. CASE ~disk[s].listed
    BY ZenonT(30), <1>1, <1>3, <1>8, <1>11, <2>2, SettingsAre DEF Alike
  <2> QED BY <2>1, <2>2
<1>13. \A t \in Servers : disk'[t].listed \/ disk'[t] = Absent
  BY <1>1, <1>3, <1>6, <1>7, <1>8
<1>14. \A t \in Servers : Alike(disk'[t], wish'[t])
  BY <1>1, <1>3, <1>6, <1>10, <1>12
<1>15. open \subseteq Servers /\ \A t \in open : disk'[t].enabled
  BY <1>1, <1>4
<1>16. \A t \in Servers : Connected(t) /\ t \notin drop => disk'[t].enabled /\ wish'[t].hidden = wish[t].hidden
  BY <1>1, <1>3, <1>5, <1>6, <1>10
<1>17. Begin("save", Obj, drop, open)
  BY <1>1
<1> QED BY <1>9, <1>13, <1>14, <1>15, <1>16, <1>17, SettledRequest

LEMMA ReconnectSettles ==
  ASSUME Calm, ~overlap', NEW s \in Servers, Reconnect(s)
  PROVE  Settling'
<1> DEFINE drop == If(s, Connected(s))
           open == If(s, Current[s].enabled)
<1>1. Begin("reconnect", Obj, drop, open) /\ Put(Obj, Current) /\ UNCHANGED <<disk, wish>>
  BY DEF Reconnect
<1>2. frame["handler"].at = "idle" /\ frame["task"].at = "idle"
  BY <1>1 DEF Begin
<1>3. /\ Current = disk /\ Obj \in {"task", "own"}
      /\ settings \in [{"task", "own"} -> [Servers -> ServerSettings]]
      /\ \A t \in Servers : /\ Alike(disk[t], wish[t]) /\ (disk[t].listed \/ disk[t] = Absent)
                            /\ Connected(t) => disk[t].enabled
  BY <1>2, Before
<1>4. pointer' = Obj /\ settings'[pointer'] = disk'
  BY <1>1, <1>3, PutDoes
<1>5. open \subseteq Servers /\ \A t \in open : disk[t].enabled
  BY <1>3 DEF If
<1> HIDE DEF drop, open
<1> QED BY <1>1, <1>3, <1>4, <1>5, SettledRequest

LEMMA ReloadSettles ==
  ASSUME Calm, ~overlap', Reload
  PROVE  Settling'
<1> DEFINE drop == {n \in Names : Connected(n)} \ Enabled(disk)
<1>1. Begin("reload", "own", drop, {}) /\ Put("own", disk) /\ UNCHANGED <<disk, wish>>
  BY DEF Reload
<1>2. frame["handler"].at = "idle" /\ frame["task"].at = "idle"
  BY <1>1 DEF Begin
<1>3. /\ settings \in [{"task", "own"} -> [Servers -> ServerSettings]]
      /\ \A t \in Servers : /\ Alike(disk[t], wish[t]) /\ (disk[t].listed \/ disk[t] = Absent)
                            /\ Connected(t) => disk[t].enabled
  BY <1>2, Before
<1>4. "own" \in {"task", "own"}
  OBVIOUS
<1>5. pointer' = "own" /\ settings'[pointer'] = disk'
  BY <1>1, <1>3, <1>4, PutDoes
<1> HIDE DEF drop
<1> QED BY <1>1, <1>3, <1>5, SettledRequest

LEMMA InstallSettles ==
  ASSUME Calm, ~overlap', NEW s \in Servers, NEW b \in BOOLEAN, Install(s, b)
  PROVE  Settling'
<1> DEFINE st == [Current EXCEPT ![s] = Unseen]
           open == If(s, b)
<1>1. Begin("install", Obj, {}, open) /\ Put(Obj, st) /\ disk' = st /\ wish' = [wish EXCEPT ![s] = Unseen]
      /\ ~Current[s].listed
  BY DEF Install, Save
<1>2. frame["handler"].at = "idle" /\ frame["task"].at = "idle"
  BY <1>1 DEF Begin
<1>3. /\ Current = disk
      /\ Obj \in {"task", "own"} /\ disk \in [Servers -> ServerSettings] /\ wish \in [Servers -> ServerSettings]
      /\ settings \in [{"task", "own"} -> [Servers -> ServerSettings]]
      /\ \A t \in Servers : /\ Alike(disk[t], wish[t]) /\ (disk[t].listed \/ disk[t] = Absent)
                            /\ Connected(t) => disk[t].enabled /\ disk[t].listed
  BY <1>2, Before
<1>4. \A t \in open : t = s
  BY DEF If
<1>5. \A t \in Servers : st[t] = IF t = s THEN Unseen ELSE disk[t]
  BY <1>3
<1> HIDE DEF st, open
<1>6. pointer' = Obj /\ settings'[pointer'] = disk'
  BY <1>1, <1>3, PutDoes
<1>7. \A t \in Servers : wish'[t] = IF t = s THEN Unseen ELSE wish[t]
  BY <1>1, <1>3
<1>8. ~Connected(s)
  BY <1>1, <1>3
<1>9. \A t \in Servers : disk'[t].listed \/ disk'[t] = Absent
  BY <1>1, <1>3, <1>5, SettingsAre
<1>10. \A t \in Servers : Alike(disk'[t], wish'[t])
  BY <1>1, <1>3, <1>5, <1>7 DEF Alike
<1>11. open \subseteq Servers /\ \A t \in open : disk'[t].enabled /\ wish'[t].hidden = {}
  BY <1>1, <1>4, <1>5, <1>7, SettingsAre
<1>12. \A t \in Servers : Connected(t) => disk'[t].enabled /\ wish'[t].hidden = wish[t].hidden
  BY <1>1, <1>3, <1>5, <1>7, <1>8
<1> QED BY <1>1, <1>6, <1>9, <1>10, <1>11, <1>12, SettledRequest

LEMMA UninstallSettles ==
  ASSUME Calm, ~overlap', NEW s \in Servers, Uninstall(s)
  PROVE  Settling'
<1> DEFINE drop == If(s, Connected(s))
           open == {s}
<1>1. Begin("uninstall", Obj, drop, open) /\ Put(Obj, Current) /\ wish' = [wish EXCEPT ![s] = Absent]
      /\ disk' = disk
  BY DEF Uninstall
<1>2. frame["handler"].at = "idle" /\ frame["task"].at = "idle"
  BY <1>1 DEF Begin
<1>3. /\ Current = disk /\ Obj \in {"task", "own"} /\ wish \in [Servers -> ServerSettings]
      /\ settings \in [{"task", "own"} -> [Servers -> ServerSettings]]
      /\ \A t \in Servers : /\ Alike(disk[t], wish[t]) /\ (disk[t].listed \/ disk[t] = Absent)
                            /\ Connected(t) => disk[t].enabled
  BY <1>2, Before
<1>4. pointer' = Obj /\ settings'[pointer'] = disk'
  BY <1>1, <1>3, PutDoes
<1>5. \A t \in Servers : wish'[t] = IF t = s THEN Absent ELSE wish[t]
  BY <1>1, <1>3
<1>6. open \subseteq Servers /\ \A t : t \in open <=> t = s
  OBVIOUS
<1>7. \A t \in Servers : Connected(t) /\ t \notin drop => t # s
  BY DEF If
<1> HIDE DEF drop, open
<1>8. \A t \in Servers : IF t \in open THEN wish'[t] = Absent ELSE Alike(disk'[t], wish'[t])
  BY <1>1, <1>3, <1>5, <1>6
<1>9. \A t \in Servers : Connected(t) /\ t \notin drop =>
        t \notin open /\ disk'[t].enabled /\ wish'[t].hidden = wish[t].hidden
  BY <1>1, <1>3, <1>5, <1>6, <1>7
<1> QED BY <1>1, <1>3, <1>4, <1>6, <1>8, <1>9, SettledRequest

LEMMA JiraSettles ==
  ASSUME Calm, ~overlap', JiraConnect \/ JiraDisconnect
  PROVE  Settling'
<1>1. PICK open \in {{}, {Jira}} : Begin("jira", "own", If(Jira, Connected(Jira)), open)
  BY DEF JiraConnect, JiraDisconnect
<1> DEFINE drop == If(Jira, Connected(Jira))
<1>2. UNCHANGED <<disk, settings, pointer, wish>>
  BY DEF JiraConnect, JiraDisconnect, settingVars
<1>3. frame["handler"].at = "idle" /\ frame["task"].at = "idle"
  BY <1>1 DEF Begin
<1>4. \A t \in Servers : /\ Alike(disk[t], wish[t]) /\ (disk[t].listed \/ disk[t] = Absent)
                         /\ Connected(t) => disk[t].enabled
  BY <1>3, Before
<1>5. pointer' # "none" => settings'[pointer'] = disk'
  BY <1>2 DEF Calm, SettingsInv
<1>6. open \subseteq {Jira} /\ Begin("jira", "own", drop, open)
  BY <1>1
<1> HIDE DEF drop
<1> QED BY <1>2, <1>4, <1>5, <1>6, SettledRequest

LEMMA SettledStep == Typed /\ Engaged /\ DeadInv /\ Sole /\ Doing /\ SettledInv /\ [Next]_vars => SettledInv'
<1> SUFFICES ASSUME Typed, Engaged, DeadInv, Sole, Doing, SettledInv, [Next]_vars, ~overlap' PROVE Settling'
  BY DEF SettledInv, Settling
<1>1. ~overlap
  <2>1. Request => overlap' = (overlap \/ frame["task"].at # "idle")
    BY RequestBegins, BeginDoes DEF Requested
  <2>2. ~Request => overlap' = overlap
    BY DEF Next, GetTools, Drop, Closed, CloseFails, StartOpening, Open, Opened, OpenFails, Finish, historyVars, vars
  <2> QED BY <2>1, <2>2
<1>2. Calm
  BY <1>1 DEF Calm, SettledInv
<1>3. CASE Request
  BY <1>2, <1>3, ToggleSettles, SaveSettles, ReconnectSettles, ReloadSettles, InstallSettles,
     UninstallSettles, JiraSettles DEF Request
<1>4. CASE GetTools \/ UNCHANGED vars
  <2>1. UNCHANGED <<disk, settings, pointer, connections, reg, executor, frame, wish>>
    BY <1>4 DEF GetTools, vars, settingVars, managerVars, historyVars
  <2>2. SettingsInv' /\ WishInv' /\ OpenInv'
    BY <1>2, <2>1 DEF Calm, SettingsInv, WishInv, OpenInv, Opens, Leaving
  <2>3. \A s \in Servers : Leaving(s)' => Leaving(s)
    BY <2>1 DEF Leaving
  <2> QED BY <1>2, <2>1, <2>2, <2>3, ToolsKept DEF Settling
<1> QED BY <1>2, <1>3, <1>4, SettledDrop, SettledClosed, SettledAborted, SettledStart, SettledOpen, SettledOpened,
           SettledFinish DEF Next

LEMMA SettledInit == Init => SettledInv
<1> SUFFICES ASSUME Init PROVE Settling
  BY DEF SettledInv, Settling
<1>1. disk = Defaults /\ settings["task"] = Defaults /\ pointer = "none" /\ wish = Defaults
      /\ (\A n \in Names : connections[n] = Nobody) /\ \A x \in Names \X Tools : executor[x] = Nobody
  BY DEF Init
<1>2. /\ frame["handler"].at = "idle" /\ frame["task"].at = "drop" /\ frame["task"].kind = "connectAll"
      /\ frame["task"].open = {}
  BY FirstFrames
<1>3. \A s \in Servers : Defaults[s].listed \/ Defaults[s] = Absent
  BY SettingsAre DEF Defaults
<1>4. SettingsInv
  BY <1>1, <1>2, <1>3 DEF SettingsInv
<1>5. WishInv
  BY <1>1, <1>2 DEF WishInv, Leaving, Alike
<1>6. OpenInv
  BY <1>2, CorosAre DEF OpenInv, Opens
<1>7. ToolsInv
  BY <1>1 DEF ToolsInv, Definitions, Connected, Names
<1> QED BY <1>4, <1>5, <1>6, <1>7 DEF Settling

LEMMA Settlement == Given /\ Spec => [](Typed /\ Engaged /\ DeadInv /\ Sole /\ Doing /\ SettledInv)
<1>1. Given /\ Init => Typed /\ Engaged /\ DeadInv /\ Sole /\ Doing /\ SettledInv
  BY TypeInit, DeadInit, SoleInit, FreshInit, SettledInit
<1>2. Typed /\ Engaged /\ DeadInv /\ Sole /\ Doing /\ SettledInv /\ [Next]_vars
      => (Typed /\ Engaged /\ DeadInv /\ Sole /\ Doing /\ SettledInv)'
  BY TypeStep, DeadStep, SoleStep, DoingStep, SettledStep
<1> QED BY <1>1, <1>2, PTL DEF Spec

\* When nothing is under way the files say what the user last asked for, and what is
\* connected and what the tools lead to follow from it, unless a request overlapped the
\* task.
THEOREM EverythingSettles == Spec => []Settled
<1>1. Given
  BY ConstantsAssumption DEF Given
<1>2. Doing /\ SettledInv => Settled
  <2> SUFFICES ASSUME Doing, SettledInv, Quiet, ~overlap
               PROVE  /\ \A s \in Servers :
                           /\ disk[s].listed = wish[s].listed /\ disk[s].enabled = wish[s].enabled
                           /\ disk[s].hidden = wish[s].hidden
                           /\ Connected(s) => disk[s].enabled
                           /\ Connected(s) => reg[connections[s]] = Tools \ wish[s].hidden
                      /\ \A x \in Names \X Tools : executor[x] # Nobody <=> x \in Definitions
    BY DEF Settled
  <2>1. frame["handler"].drop = {} /\ \A s \in Servers : ~Leaving(s)
    BY CorosAre DEF Quiet, Doing, Leaving
  <2> QED BY <2>1 DEF SettledInv, WishInv, Alike, ToolsInv
<1> QED BY <1>1, <1>2, Settlement, PTL

-----------------------------------------------------------------------------
(* Sequences: what is in one after it grows and shrinks.                    *)

LEMMA ToSetAppend ==
  ASSUME NEW S, NEW s \in Seq(S), NEW e \in S
  PROVE  Append(s, e) \in Seq(S) /\ ToSet(Append(s, e)) = ToSet(s) \cup {e}
<1>1. /\ Append(s, e) \in Seq(S)
      /\ Len(Append(s, e)) = Len(s) + 1
      /\ \A i \in 1..Len(s) : Append(s, e)[i] = s[i]
      /\ Append(s, e)[Len(s) + 1] = e
  OBVIOUS
<1>2. DOMAIN s = 1..Len(s) /\ DOMAIN Append(s, e) = 1..(Len(s) + 1)
  BY <1>1
<1> QED
  BY <1>1, <1>2 DEF ToSet

LEMMA ToSetTail ==
  ASSUME NEW S, NEW s \in Seq(S), s # <<>>
  PROVE  /\ Head(s) \in S /\ Tail(s) \in Seq(S)
         /\ ToSet(s) = ToSet(Tail(s)) \cup {Head(s)}
<1>1. /\ Head(s) \in S /\ Head(s) = s[1] /\ Tail(s) \in Seq(S) /\ Len(s) \in Nat \ {0}
      /\ Len(Tail(s)) = Len(s) - 1
      /\ \A i \in 1..Len(Tail(s)) : Tail(s)[i] = s[i + 1]
  OBVIOUS
<1>2. DOMAIN s = 1..Len(s) /\ DOMAIN Tail(s) = 1..(Len(s) - 1)
  BY <1>1
<1>3. ASSUME NEW i \in 1..Len(s)
      PROVE  s[i] \in ToSet(Tail(s)) \cup {Head(s)}
  <2>1. CASE i = 1
    BY <2>1, <1>1
  <2>2. CASE i # 1
    <3>1. i - 1 \in DOMAIN Tail(s) /\ Tail(s)[i - 1] = s[i]
      BY <2>2, <1>1, <1>2
    <3> QED
      BY <3>1 DEF ToSet
  <2> QED
    BY <2>1, <2>2
<1>4. ASSUME NEW i \in 1..Len(Tail(s))
      PROVE  Tail(s)[i] \in ToSet(s)
  BY <1>1, <1>2 DEF ToSet
<1>5. Head(s) \in ToSet(s)
  BY <1>1, <1>2 DEF ToSet
<1> QED
  BY <1>1, <1>2, <1>3, <1>4, <1>5 DEF ToSet

LEMMA ToSetEmpty == ToSet(<<>>) = {}
  BY DEF ToSet

LEMMA RemoveAtType ==
  ASSUME NEW S, NEW s \in Seq(S), NEW i \in DOMAIN s
  PROVE  RemoveAt(s, i) \in Seq(S)
  BY DEF RemoveAt

\* A sequence in which nothing of T is repeated.
Distinct(s, T) == \A i, j \in DOMAIN s : s[i] = s[j] /\ s[i] \in T => i = j

LEMMA DistinctAppend ==
  ASSUME NEW S, NEW T, NEW s \in Seq(S), NEW e \in S, Distinct(s, T), e \notin ToSet(s) \cap T
  PROVE  Distinct(Append(s, e), T)
<1>1. /\ DOMAIN Append(s, e) = 1..(Len(s) + 1) /\ DOMAIN s = 1..Len(s) /\ Len(s) \in Nat
      /\ \A i \in 1..Len(s) : Append(s, e)[i] = s[i]
      /\ Append(s, e)[Len(s) + 1] = e
  OBVIOUS
<1>2. \A i \in 1..Len(s) : s[i] = e => e \notin T
  BY <1>1 DEF ToSet
<1> QED
  BY <1>1, <1>2 DEF Distinct

LEMMA DistinctTail ==
  ASSUME NEW S, NEW T, NEW s \in Seq(S), s # <<>>, Distinct(s, T)
  PROVE  Distinct(Tail(s), T) /\ Head(s) \notin ToSet(Tail(s)) \cap T
<1>1. /\ Head(s) = s[1] /\ Len(s) \in Nat \ {0}
      /\ DOMAIN s = 1..Len(s) /\ DOMAIN Tail(s) = 1..(Len(s) - 1)
      /\ \A i \in 1..(Len(s) - 1) : Tail(s)[i] = s[i + 1]
  OBVIOUS
<1> QED
  BY <1>1 DEF Distinct, ToSet

LEMMA RemoveAtElements ==
  ASSUME NEW S, NEW s \in Seq(S), NEW i \in DOMAIN s
  PROVE  /\ DOMAIN RemoveAt(s, i) = 1..(Len(s) - 1)
         /\ \A j \in 1..(Len(s) - 1) : RemoveAt(s, i)[j] = IF j < i THEN s[j] ELSE s[j + 1]
  BY SMTT(30) DEF RemoveAt

LEMMA DistinctRemoveAt ==
  ASSUME NEW S, NEW s \in Seq(S), NEW i \in DOMAIN s, Distinct(s, S)
  PROVE  Distinct(RemoveAt(s, i), S) /\ ToSet(RemoveAt(s, i)) = ToSet(s) \ {s[i]}
<1>1. /\ DOMAIN s = 1..Len(s) /\ Len(s) \in Nat
      /\ DOMAIN RemoveAt(s, i) = 1..(Len(s) - 1)
      /\ \A j \in 1..(Len(s) - 1) : RemoveAt(s, i)[j] = IF j < i THEN s[j] ELSE s[j + 1]
  BY RemoveAtElements
<1>2. Distinct(RemoveAt(s, i), S)
  <2> DEFINE old(j) == IF j < i THEN j ELSE j + 1
  <2>1. \A j \in 1..(Len(s) - 1) : old(j) \in DOMAIN s /\ RemoveAt(s, i)[j] = s[old(j)]
    BY <1>1
  <2>2. \A j, k \in 1..(Len(s) - 1) : old(j) = old(k) => j = k
    BY <1>1
  <2>3. \A j \in DOMAIN s : s[j] \in S
    BY <1>1
  <2> HIDE DEF old
  <2> QED
    BY <1>1, <2>1, <2>2, <2>3 DEF Distinct
<1>3. ToSet(RemoveAt(s, i)) \subseteq ToSet(s) \ {s[i]}
  BY <1>1 DEF Distinct, ToSet
<1>4. ASSUME NEW k \in 1..Len(s), k # i
      PROVE  s[k] \in ToSet(RemoveAt(s, i))
  <2>1. CASE k < i
    <3>1. k \in 1..(Len(s) - 1) /\ RemoveAt(s, i)[k] = s[k]
      BY <2>1, <1>1
    <3> QED
      BY <3>1, <1>1 DEF ToSet
  <2>2. CASE k > i
    <3>1. k - 1 \in 1..(Len(s) - 1) /\ RemoveAt(s, i)[k - 1] = s[k]
      BY <2>2, <1>1
    <3> QED
      BY <3>1, <1>1 DEF ToSet
  <2> QED
    BY <2>1, <2>2, <1>1, <1>4
<1> QED
  BY <1>1, <1>2, <1>3, <1>4 DEF ToSet

-----------------------------------------------------------------------------
(* Types *)

Lines == Requests \cup Noise

\* What is assumed of the calls.
CallsApart == Calls \cap (Handshake \cup Noise \cup {None}) = {}

\* The waiters: a sequence of requests, of which the first can be taken.
LEMMA Waiters ==
  ASSUME TransportTypeOK, queue # <<>>
  PROVE  Head(queue) \in Requests /\ Tail(queue) \in Seq(Requests)
<1>1. queue \in Seq(Requests)
  BY DEF TransportTypeOK
<1> QED
  BY <1>1, ToSetTail

LEMMA QueueTyped == ASSUME TransportTypeOK PROVE ToSet(queue) \subseteq Requests
<1>1. queue \in Seq(Requests)
  BY DEF TransportTypeOK
<1>2. \A i \in DOMAIN queue : queue[i] \in Requests
  BY <1>1
<1> QED
  BY <1>2 DEF ToSet

\* The pipe after a line is read, and after one is written.
LEMMA PipeRead ==
  ASSUME TransportTypeOK, pipe # <<>>
  PROVE  /\ Head(pipe) \in Lines /\ Tail(pipe) \in Seq(Lines)
         /\ ToSet(pipe) = ToSet(Tail(pipe)) \cup {Head(pipe)}
<1>1. pipe \in Seq(Lines)
  BY DEF TransportTypeOK, Lines
<1> QED
  BY <1>1, ToSetTail

LEMMA PipeWritten ==
  ASSUME TransportTypeOK, NEW e \in Lines
  PROVE  Append(pipe, e) \in Seq(Lines) /\ ToSet(Append(pipe, e)) = ToSet(pipe) \cup {e}
<1>1. pipe \in Seq(Lines)
  BY DEF TransportTypeOK, Lines
<1> QED
  BY <1>1, ToSetAppend

LEMMA RequestsTyped ==
  /\ "initialize" \in Requests /\ "tools/list" \in Requests
  /\ Calls \subseteq Requests
  BY DEF Requests, Handshake

\* A step leaves the types alone.
LEMMA LineTypes == TransportTypeOK /\ [TransportNext]_transportVars => TransportTypeOK'
<1> SUFFICES ASSUME TransportTypeOK, [TransportNext]_transportVars PROVE TransportTypeOK'
  OBVIOUS
<1> USE RequestsTyped
<1>1. CASE Launch
  BY <1>1 DEF TransportTypeOK, Launch, CallStates
<1>2. CASE Initialized
  BY <1>2 DEF TransportTypeOK, Initialized, CallStates
<1>3. CASE Acquire
  <2>1. Head(queue) \in Requests /\ Tail(queue) \in Seq(Requests)
    BY <1>3, Waiters DEF Acquire
  <2> QED
    BY <1>3, <2>1 DEF TransportTypeOK, Acquire, Write, CallStates
<1>4. CASE Disconnect
  BY <1>4 DEF TransportTypeOK, Disconnect
<1>5. CASE Exit
  BY <1>5 DEF TransportTypeOK, Exit
<1>6. ASSUME NEW c \in Calls, Invoke(c) PROVE TransportTypeOK'
  BY <1>6 DEF TransportTypeOK, Invoke, CallStates
<1>7. ASSUME NEW c \in Calls, Return(c) PROVE TransportTypeOK'
  BY <1>7 DEF TransportTypeOK, Return
<1>8. ASSUME NEW c \in Calls, TimeOut(c) PROVE TransportTypeOK'
  BY <1>8 DEF TransportTypeOK, TimeOut
<1>9. ASSUME NEW c \in Calls, Cancel(c) PROVE TransportTypeOK'
  <2>1. queue' \in Seq(Requests)
    <3>1. ASSUME NEW i \in DOMAIN queue PROVE RemoveAt(queue, i) \in Seq(Requests)
      <4>1. queue \in Seq(Requests)
        BY DEF TransportTypeOK
      <4> QED
        BY <4>1, RemoveAtType
    <3>2. queue \in Seq(Requests)
      BY DEF TransportTypeOK
    <3> QED
      BY <1>9, <3>1, <3>2 DEF Cancel
  <2>2. call' \in [Requests -> CallStates]
    BY <1>9 DEF TransportTypeOK, Cancel, Ends, CallStates
  <2> QED
    BY <1>9, <2>1, <2>2 DEF TransportTypeOK, Cancel
<1>10. ASSUME NEW r \in Requests, BeginSend(r) PROVE TransportTypeOK'
  <2>1. queue' \in Seq(Requests)
    <3>1. queue \in Seq(Requests)
      BY DEF TransportTypeOK
    <3>2. Append(queue, r) \in Seq(Requests)
      BY <3>1, ToSetAppend
    <3> QED
      BY <1>10, <3>1, <3>2 DEF BeginSend
  <2>2. call' \in [Requests -> CallStates]
    BY <1>10 DEF TransportTypeOK, BeginSend, Write, CallStates
  <2>3. outstanding' \in SUBSET Requests
    <3>1. outstanding \in SUBSET Requests
      BY DEF TransportTypeOK
    <3>2. outstanding' \in {outstanding, outstanding \cup {r}}
      BY <1>10 DEF BeginSend, Write
    <3> QED
      BY <3>1, <3>2
  <2> QED
    BY <1>10, <2>1, <2>2, <2>3 DEF TransportTypeOK, BeginSend
<1>11. ASSUME NEW r \in Requests, NotConnected(r) PROVE TransportTypeOK'
  <2>1. queue' \in Seq(Requests)
    <3>1. queue \in Seq(Requests)
      BY DEF TransportTypeOK
    <3> QED
      BY <1>11, <3>1, Waiters DEF NotConnected
  <2>2. call' \in [Requests -> CallStates]
    BY <1>11 DEF TransportTypeOK, NotConnected, Ends, CallStates
  <2> QED
    BY <1>11, <2>1, <2>2 DEF TransportTypeOK, NotConnected
<1>12. ASSUME NEW r \in Requests, Take(r) PROVE TransportTypeOK'
  <2>1. Head(pipe) \in Requests \cup Noise /\ Tail(pipe) \in Seq(Requests \cup Noise)
    BY <1>12, PipeRead DEF Take, Lines
  <2>2. call' \in [Requests -> CallStates]
    BY <1>12 DEF TransportTypeOK, Take, Ends, CallStates
  <2>3. taken' \in [Requests -> Requests \cup Noise \cup {None}]
    BY <1>12, <2>1 DEF TransportTypeOK, Take
  <2> QED
    BY <1>12, <2>1, <2>2, <2>3 DEF TransportTypeOK, Take
<1>13. ASSUME NEW r \in Requests, NoResponse(r) PROVE TransportTypeOK'
  BY <1>13 DEF TransportTypeOK, NoResponse, Ends, CallStates
<1>14. ASSUME NEW r \in Requests, Answer(r) PROVE TransportTypeOK'
  <2>1. pipe' \in Seq(Requests \cup Noise)
    BY <1>14, PipeWritten DEF Answer, Lines
  <2> QED
    BY <1>14, <2>1 DEF TransportTypeOK, Answer
<1>15. ASSUME NEW n \in Noise, Say(n) PROVE TransportTypeOK'
  <2>1. pipe' \in Seq(Requests \cup Noise)
    BY <1>15, PipeWritten DEF Say, Lines
  <2>2. noise' \in Nat
    <3>1. noise \in Nat /\ noise' = noise + 1
      BY <1>15 DEF TransportTypeOK, Say
    <3> QED
      BY <3>1
  <2>3. UNCHANGED <<process, call, worker, cancelling, queue, outstanding, taken>>
    BY <1>15 DEF Say
  <2> QED
    BY <2>1, <2>2, <2>3 DEF TransportTypeOK
<1>16. CASE UNCHANGED transportVars
  BY <1>16 DEF TransportTypeOK, transportVars
<1> QED
  BY <1>1, <1>2, <1>3, <1>4, <1>5, <1>6, <1>7, <1>8, <1>9, <1>10, <1>11, <1>12, <1>13,
     <1>14, <1>15, <1>16 DEF TransportNext

\* The type invariant of the connection's state.
THEOREM TransportTypes == TransportSpec => []TransportTypeOK
<1>1. TransportInit => TransportTypeOK
  BY RequestsTyped DEF TransportInit, TransportTypeOK, CallStates
<1> QED
  BY <1>1, LineTypes, PTL DEF TransportSpec

-----------------------------------------------------------------------------
(* One reader *)

\* Before the server is started there is nothing to read and nobody who does.
NotStarted ==
  process = "none" => Reading = {} /\ outstanding = {} /\ pipe = <<>>

IInv == OneReader /\ NotStarted

LEMMA IInvInit == TransportInit => IInv
  BY DEF TransportInit, IInv, OneReader, NotStarted, Reading

\* A step after which the same request reads, from a pipe to which the same or
\* more will come.
LEMMA ReaderKept ==
  ASSUME IInv, Reading' \subseteq Reading,
         process' = "running" => /\ process = "running"
                                 /\ outstanding \cup ToSet(pipe)
                                      \subseteq outstanding' \cup ToSet(pipe'),
         process' # "none"
  PROVE  IInv'
  BY DEF IInv, OneReader, NotStarted

\* A request becomes the reader when there is none.
LEMMA ReaderComes ==
  ASSUME NEW r \in Requests, TransportTypeOK, Reading = {}, process # "none", UNCHANGED process,
         Write(r)
  PROVE  IInv'
<1>1. Reading' = {r}
  BY DEF Write, Reading, TransportTypeOK
<1>2. process = "running" => r \in outstanding'
  BY DEF Write
<1> QED
  BY <1>1, <1>2 DEF IInv, OneReader, NotStarted

LEMMA EndsReading ==
  ASSUME TransportTypeOK, NEW r \in Requests, NEW s \in CallStates \ {"reading"}, Ends(r, s)
  PROVE  Reading' = Reading \ {r}
  BY DEF TransportTypeOK, Ends, Reading

LEMMA IInvStep == IInv /\ TransportTypeOK /\ [TransportNext]_transportVars => IInv'
<1> SUFFICES ASSUME IInv, TransportTypeOK, [TransportNext]_transportVars PROVE IInv'
  OBVIOUS
<1> USE RequestsTyped
<1>1. CASE Launch
  <2>1. Reading' = {}
    BY <1>1 DEF Launch, IInv, NotStarted, Reading, TransportTypeOK
  <2> QED
    BY <1>1, <2>1 DEF Launch, IInv, OneReader, NotStarted
<1>2. CASE Initialized
  <2>1. Reading' \subseteq Reading
    BY <1>2 DEF Initialized, Reading, TransportTypeOK
  <2>2. process # "none" \/ Reading' = {}
    BY <2>1 DEF IInv, NotStarted
  <2> QED
    BY <1>2, <2>1, <2>2 DEF Initialized, IInv, OneReader, NotStarted
<1>3. CASE Acquire
  <2>1. Head(queue) \in Requests
    BY <1>3, Waiters DEF Acquire
  <2> QED
    BY <1>3, <2>1, ReaderComes DEF Acquire
<1>4. CASE Disconnect
  BY <1>4, ReaderKept DEF Disconnect, Reading
<1>5. CASE Exit
  BY <1>5, ReaderKept DEF Exit, Reading
<1>6. ASSUME NEW c \in Calls, Invoke(c) PROVE IInv'
  <2>1. Reading' \subseteq Reading
    BY <1>6 DEF Invoke, Reading, TransportTypeOK
  <2> QED
    BY <1>6, <2>1 DEF Invoke, IInv, OneReader, NotStarted
<1>7. ASSUME NEW c \in Calls, Return(c) \/ TimeOut(c) PROVE IInv'
  BY <1>7 DEF Return, TimeOut, IInv, OneReader, NotStarted, Reading
<1>8. ASSUME NEW c \in Calls, Cancel(c) PROVE IInv'
  <2>1. Reading' \subseteq Reading
    <3>1. CASE Ends(c, "cancelled")
      BY <3>1, EndsReading DEF CallStates
    <3>2. CASE UNCHANGED call
      BY <3>2 DEF Reading
    <3> QED
      BY <1>8, <3>1, <3>2 DEF Cancel
  <2>2. UNCHANGED <<process, outstanding, pipe>>
    BY <1>8 DEF Cancel
  <2> QED
    BY <2>1, <2>2 DEF IInv, OneReader, NotStarted
<1>9. ASSUME NEW r \in Requests, BeginSend(r) PROVE IInv'
  <2>1. CASE Reading = {} /\ Write(r)
    BY <2>1, <1>9, ReaderComes DEF BeginSend
  <2>2. CASE call' = [call EXCEPT ![r] = "queued"] /\ UNCHANGED outstanding
    <3>1. Reading' \subseteq Reading
      BY <2>2 DEF Reading, TransportTypeOK
    <3> QED
      BY <3>1, <2>2, <1>9 DEF BeginSend, IInv, OneReader, NotStarted
  <2> QED
    BY <1>9, <2>1, <2>2 DEF BeginSend
<1>10. ASSUME NEW r \in Requests, NotConnected(r) \/ NoResponse(r) PROVE IInv'
  <2>1. Reading' \subseteq Reading
    BY <1>10, EndsReading DEF NotConnected, NoResponse, CallStates
  <2> QED
    BY <1>10, <2>1 DEF NotConnected, NoResponse, IInv, OneReader, NotStarted
<1>11. ASSUME NEW r \in Requests, Take(r) PROVE IInv'
  <2>1. Reading = {r}
    BY <1>11 DEF Take, IInv, OneReader, Reading
  <2>2. Reading' = {}
    <3>1. Reading' = Reading \ {r}
      BY <1>11, EndsReading DEF Take, CallStates
    <3> QED
      BY <2>1, <3>1
  <2>3. process # "none" /\ UNCHANGED process
    BY <1>11, <2>1 DEF Take, IInv, NotStarted
  <2> QED
    BY <2>2, <2>3 DEF IInv, OneReader, NotStarted
<1>12. ASSUME NEW r \in Requests, Answer(r) PROVE IInv'
  <2>1. ToSet(pipe') = ToSet(pipe) \cup {r}
    BY <1>12, PipeWritten DEF Answer, Lines
  <2> QED
    BY <2>1, <1>12, ReaderKept DEF Answer, Reading
<1>13. ASSUME NEW n \in Noise, Say(n) PROVE IInv'
  <2>1. ToSet(pipe') = ToSet(pipe) \cup {n}
    BY <1>13, PipeWritten DEF Say, Lines
  <2> QED
    BY <2>1, <1>13, ReaderKept DEF Say, Reading
<1>14. CASE UNCHANGED transportVars
  BY <1>14 DEF IInv, OneReader, NotStarted, Reading, transportVars
<1> QED
  BY <1>1, <1>2, <1>3, <1>4, <1>5, <1>6, <1>7, <1>8, <1>9, <1>10, <1>11, <1>12, <1>13,
     <1>14 DEF TransportNext

LEMMA IInvCorrect == TransportSpec => []IInv
  BY IInvInit, IInvStep, TransportTypes, PTL DEF TransportSpec

\* For any number of calls, however they are timed out and cancelled, at most one
\* reads the pipe, and its answer is still to come or in it.
THEOREM OneReaderCorrect == TransportSpec => []OneReader
<1>1. IInv => OneReader
  BY DEF IInv
<1> QED
  BY <1>1, IInvCorrect, PTL

-----------------------------------------------------------------------------
(* A request is written once, waits once and is answered at most once.      *)

Waiting  == {"idle", "scheduled", "queued"}
UnreadLines   == outstanding \cup ToSet(pipe)

OnceSent == outstanding \cap ToSet(pipe) = {}
OnceRead == Distinct(pipe, Requests)
Unsent   == \A r \in Requests : r \in UnreadLines => call[r] \notin Waiting
OnceIn   == Distinct(queue, Requests)
InQueue  == \A r \in ToSet(queue) : call[r] = "queued"
NotBegun == /\ \A c \in Calls : worker[c] = "idle" => call[c] = "idle"
            /\ process = "none" => queue = <<>>

Silent   == process # "running" => outstanding = {}

Once == OnceSent /\ OnceRead /\ Unsent /\ OnceIn /\ InQueue /\ NotBegun /\ Silent

LEMMA OnceInit == TransportInit => Once
  BY ToSetEmpty, RequestsTyped
     DEF TransportInit, Once, OnceSent, OnceRead, Unsent, OnceIn, InQueue, NotBegun, Silent, UnreadLines, Distinct

\* A step that changes neither the pipe nor the queue, and a call only out of the
\* waiting states or among those that are not queued.
LEMMA OnceKept ==
  ASSUME Once, UNCHANGED <<queue, pipe, process>>, outstanding' \subseteq outstanding,
         \A r \in Requests : /\ call[r] = "queued" => call'[r] = "queued"
                             /\ call[r] \notin Waiting => call'[r] \notin Waiting,
         \A c \in Calls : worker'[c] = "idle" => worker[c] = "idle" /\ call'[c] = call[c],
         TransportTypeOK
  PROVE  Once'
<1>1. ToSet(queue) \subseteq Requests
  BY QueueTyped
<1>2. OnceSent' /\ OnceRead' /\ OnceIn'
  BY DEF Once, OnceSent, OnceRead, OnceIn
<1>3. Unsent'
  BY DEF Once, Unsent, UnreadLines
<1>4. InQueue'
  BY <1>1 DEF Once, InQueue
<1>5. NotBegun' /\ Silent'
  BY DEF Once, NotBegun, Silent
<1> QED
  BY <1>2, <1>3, <1>4, <1>5 DEF Once

\* A request that was waiting, and no longer in the queue, is written.
LEMMA OnceWritten ==
  ASSUME Once, TransportTypeOK, NEW r \in Requests, Write(r), call[r] \in {"scheduled", "queued"},
         UNCHANGED <<pipe, process, worker>>, process # "none",
         ToSet(queue') \subseteq ToSet(queue) \ {r}, Distinct(queue', Requests)
  PROVE  Once'
<1>1. call' = [call EXCEPT ![r] = "reading"] /\ outstanding' \subseteq outstanding \cup {r}
  BY DEF Write
<1>2. r \notin UnreadLines
  BY DEF Once, Unsent, Waiting
<1>3. OnceSent' /\ OnceRead' /\ OnceIn'
  BY <1>1, <1>2 DEF Once, OnceSent, OnceRead, OnceIn, UnreadLines
<1>4. Unsent'
  <2> SUFFICES ASSUME NEW q \in Requests, q \in UnreadLines' PROVE call'[q] \notin Waiting
    BY DEF Unsent
  <2>1. CASE q = r
    BY <2>1, <1>1 DEF TransportTypeOK, Waiting
  <2>2. CASE q # r
    BY <2>2, <1>1 DEF Once, Unsent, UnreadLines, TransportTypeOK
  <2> QED
    BY <2>1, <2>2
<1>5. InQueue'
  BY <1>1, QueueTyped DEF Once, InQueue, TransportTypeOK
<1>6. NotBegun'
  <2> SUFFICES ASSUME NEW c \in Calls, worker[c] = "idle" PROVE call'[c] = "idle"
    BY DEF NotBegun
  <2>1. call[c] = "idle"
    BY DEF Once, NotBegun
  <2> QED
    BY <2>1, <1>1, RequestsTyped DEF TransportTypeOK
<1>7. Silent'
  BY DEF Once, Silent, Write
<1> QED
  BY <1>3, <1>4, <1>5, <1>6, <1>7 DEF Once

\* A request leaves the queue, or what it was doing, for good.
LEMMA OnceEnded ==
  ASSUME Once, TransportTypeOK, NEW r \in Requests, NEW s \in {"cancelled", "failed"}, Ends(r, s),
         UNCHANGED <<pipe, process, worker, outstanding>>, process # "none" \/ queue' = <<>>,
         call[r] # "idle",
         ToSet(queue') \subseteq ToSet(queue) \ {r}, Distinct(queue', Requests)
  PROVE  Once'
<1>1. call' = [call EXCEPT ![r] = s]
  BY DEF Ends
<1>2. OnceSent' /\ OnceRead' /\ OnceIn'
  BY DEF Once, OnceSent, OnceRead, OnceIn
<1>3. Unsent'
  BY <1>1 DEF Once, Unsent, UnreadLines, TransportTypeOK, Waiting
<1>4. InQueue'
  BY <1>1, QueueTyped DEF Once, InQueue, TransportTypeOK
<1>5. NotBegun'
  <2> SUFFICES ASSUME NEW c \in Calls, worker[c] = "idle" PROVE call'[c] = "idle"
    BY DEF NotBegun, Once
  <2>1. call[c] = "idle"
    BY DEF Once, NotBegun
  <2> QED
    BY <2>1, <1>1, RequestsTyped DEF TransportTypeOK
<1> QED
  BY <1>2, <1>3, <1>4, <1>5 DEF Once, Silent

LEMMA OnceStep == CallsApart /\ Once /\ IInv /\ TransportTypeOK /\ [TransportNext]_transportVars => Once'
<1> SUFFICES ASSUME CallsApart, Once, IInv, TransportTypeOK, [TransportNext]_transportVars PROVE Once'
  OBVIOUS
<1> USE RequestsTyped
<1>0. queue \in Seq(Requests) /\ pipe \in Seq(Lines) /\ ToSet(queue) \subseteq Requests
  BY QueueTyped DEF TransportTypeOK, Lines
<1>1. CASE Launch
  <2>1. UnreadLines = {} /\ queue = <<>> /\ ToSet(queue) = {}
    BY <1>1, ToSetEmpty DEF Launch, IInv, NotStarted, Once, NotBegun, UnreadLines
  <2>2. \A c \in Calls : call'[c] = call[c]
    BY <1>1 DEF CallsApart, Launch, TransportTypeOK, Handshake
  <2>3. UNCHANGED <<worker, queue, outstanding, pipe>>
    BY <1>1 DEF Launch
  <2> QED
    BY <2>1, <2>2, <2>3
       DEF Once, OnceSent, OnceRead, Unsent, OnceIn, InQueue, NotBegun, Silent, UnreadLines
<1>2. CASE Initialized
  <2>1. "tools/list" \notin UnreadLines /\ "tools/list" \notin ToSet(queue)
    BY <1>2 DEF Initialized, Once, Unsent, InQueue, Waiting
  <2>2. \A c \in Calls : call'[c] = call[c]
    BY <1>2 DEF CallsApart, Initialized, TransportTypeOK, Handshake
  <2>3. UNCHANGED <<process, worker, queue, outstanding, pipe>>
    BY <1>2 DEF Initialized
  <2>4. Unsent' /\ InQueue'
    BY <1>2, <2>1, <2>3, <1>0 DEF Initialized, Once, Unsent, InQueue, UnreadLines, TransportTypeOK
  <2> QED
    BY <2>2, <2>3, <2>4 DEF Once, OnceSent, OnceRead, OnceIn, NotBegun, Silent
<1>3. CASE Acquire
  <2>1. /\ Head(queue) \in Requests /\ ToSet(queue) = ToSet(Tail(queue)) \cup {Head(queue)}
        /\ Distinct(Tail(queue), Requests) /\ Head(queue) \notin ToSet(Tail(queue))
    BY <1>3, <1>0, ToSetTail, DistinctTail DEF Acquire, Once, OnceIn
  <2>2. call[Head(queue)] = "queued"
    BY <2>1 DEF Once, InQueue
  <2> QED
    BY <1>3, <2>1, <2>2, OnceWritten DEF Acquire
<1>4. CASE Disconnect
  BY <1>4 DEF Disconnect, Once, OnceSent, OnceRead, Unsent, OnceIn, InQueue, NotBegun, Silent, UnreadLines
<1>5. CASE Exit
  BY <1>5 DEF Exit, Once, OnceSent, OnceRead, Unsent, OnceIn, InQueue, NotBegun, Silent, UnreadLines
<1>6. ASSUME NEW c \in Calls, Invoke(c) PROVE Once'
  <2>1. call[c] = "idle"
    BY <1>6 DEF Invoke, Once, NotBegun
  <2>2. c \notin UnreadLines /\ c \notin ToSet(queue)
    BY <2>1 DEF Once, Unsent, InQueue, Waiting
  <2>3. call' = [call EXCEPT ![c] = "scheduled"] /\ worker' = [worker EXCEPT ![c] = "waiting"]
        /\ UNCHANGED <<process, queue, outstanding, pipe>>
    BY <1>6 DEF Invoke
  <2>4. Unsent' /\ InQueue'
    BY <2>2, <2>3, <1>0 DEF Once, Unsent, InQueue, UnreadLines, TransportTypeOK
  <2>5. NotBegun'
    BY <2>3 DEF Once, NotBegun, TransportTypeOK
  <2> QED
    BY <2>3, <2>4, <2>5 DEF Once, OnceSent, OnceRead, OnceIn, Silent
<1>7. ASSUME NEW c \in Calls, Return(c) \/ TimeOut(c) PROVE Once'
  <2>1. \A d \in Calls : worker'[d] = "idle" => worker[d] = "idle"
    BY <1>7 DEF Return, TimeOut, TransportTypeOK
  <2>2. UNCHANGED <<process, call, queue, outstanding, pipe>>
    BY <1>7 DEF Return, TimeOut
  <2> QED
    BY <2>1, <2>2, OnceKept
<1>8. ASSUME NEW c \in Calls, Cancel(c) PROVE Once'
  <2>1. UNCHANGED <<process, worker, outstanding, pipe>>
    BY <1>8 DEF Cancel
  <2>2. CASE call[c] \in {"scheduled", "reading"} /\ Ends(c, "cancelled") /\ UNCHANGED queue
    <3>1. c \notin ToSet(queue)
      BY <2>2 DEF Once, InQueue
    <3> QED
      BY <2>1, <2>2, <3>1, OnceEnded DEF Once, OnceIn, NotBegun
  <2>3. CASE \E i \in DOMAIN queue :
               queue[i] = c /\ queue' = RemoveAt(queue, i) /\ Ends(c, "cancelled")
    <3>1. PICK i \in DOMAIN queue :
            queue[i] = c /\ queue' = RemoveAt(queue, i) /\ Ends(c, "cancelled")
      BY <2>3
    <3>2. ToSet(queue') = ToSet(queue) \ {c} /\ Distinct(queue', Requests)
      BY <3>1, <1>0, DistinctRemoveAt DEF Once, OnceIn
    <3>3. c \in ToSet(queue)
      BY <3>1 DEF ToSet
    <3>4. call[c] = "queued" /\ queue # <<>>
      BY <3>3, ToSetEmpty DEF Once, InQueue
    <3>5. process # "none"
      BY <3>4 DEF Once, NotBegun
    <3> QED
      BY <3>1, <3>2, <3>4, <3>5, <2>1, OnceEnded
  <2>4. CASE UNCHANGED <<call, queue>>
    BY <2>1, <2>4, OnceKept
  <2> QED
    BY <1>8, <2>2, <2>3, <2>4 DEF Cancel
<1>9. ASSUME NEW r \in Requests, BeginSend(r) PROVE Once'
  <2>1. UNCHANGED <<process, worker, pipe>> /\ process # "none" /\ call[r] = "scheduled"
    BY <1>9 DEF BeginSend
  <2>2. r \notin ToSet(queue)
    BY <2>1 DEF Once, InQueue
  <2>3. CASE Write(r) /\ UNCHANGED queue
    BY <2>1, <2>2, <2>3, OnceWritten DEF Once, OnceIn
  <2>4. CASE call' = [call EXCEPT ![r] = "queued"] /\ queue' = Append(queue, r)
             /\ UNCHANGED outstanding
    <3>1. ToSet(queue') = ToSet(queue) \cup {r} /\ OnceIn'
      BY <2>4, <2>2, <1>0, ToSetAppend, DistinctAppend DEF Once, OnceIn
    <3>2. InQueue'
      BY <2>4, <3>1, <1>0 DEF Once, InQueue, TransportTypeOK
    <3>3. Unsent'
      BY <2>1, <2>4 DEF Once, Unsent, UnreadLines, TransportTypeOK, Waiting
    <3>4. NotBegun'
      <4>1. \A c \in Calls : worker[c] = "idle" => c # r
        BY <2>1 DEF Once, NotBegun
      <4> QED
        BY <4>1, <2>1, <2>4 DEF Once, NotBegun, TransportTypeOK
    <3> QED
      BY <2>1, <2>4, <3>1, <3>2, <3>3, <3>4 DEF Once, OnceSent, OnceRead, Silent
  <2> QED
    BY <1>9, <2>3, <2>4 DEF BeginSend
<1>10. ASSUME NEW r \in Requests, NotConnected(r) PROVE Once'
  <2>1. UNCHANGED <<process, worker, outstanding, pipe>> /\ process # "none" /\ Ends(r, "failed")
    BY <1>10 DEF NotConnected
  <2>2. CASE call[r] = "scheduled" /\ UNCHANGED queue
    <3>1. r \notin ToSet(queue)
      BY <2>2 DEF Once, InQueue
    <3> QED
      BY <2>1, <2>2, <3>1, OnceEnded DEF Once, OnceIn
  <2>3. CASE queue # <<>> /\ r = Head(queue) /\ queue' = Tail(queue)
    <3>1. /\ ToSet(queue) = ToSet(Tail(queue)) \cup {r}
          /\ Distinct(Tail(queue), Requests) /\ r \notin ToSet(Tail(queue))
      BY <2>3, <1>0, ToSetTail, DistinctTail DEF Once, OnceIn
    <3>2. call[r] = "queued"
      BY <3>1 DEF Once, InQueue
    <3> QED
      BY <2>1, <2>3, <3>1, <3>2, OnceEnded
  <2> QED
    BY <1>10, <2>2, <2>3 DEF NotConnected
<1>11. ASSUME NEW r \in Requests, NoResponse(r) PROVE Once'
  <2>1. r \notin ToSet(queue) /\ call[r] = "reading"
    BY <1>11 DEF NoResponse, Once, InQueue
  <2> QED
    BY <1>11, <2>1, OnceEnded DEF NoResponse, Once, OnceIn, NotBegun
<1>12. ASSUME NEW r \in Requests, Take(r) PROVE Once'
  <2>1. /\ ToSet(pipe) = ToSet(pipe') \cup {Head(pipe)} /\ OnceRead'
        /\ UNCHANGED <<process, worker, queue, outstanding>>
    BY <1>12, <1>0, ToSetTail, DistinctTail DEF Take, Once, OnceRead
  <2>2. call[r] = "reading" /\ \E s \in {"failed", "answered"} : call' = [call EXCEPT ![r] = s]
    BY <1>12 DEF Take, Ends
  <2>3. OnceSent' /\ OnceIn'
    BY <2>1 DEF Once, OnceSent, OnceIn
  <2>4. Unsent'
    BY <2>1, <2>2 DEF Once, Unsent, UnreadLines, TransportTypeOK, Waiting
  <2>5. InQueue'
    BY <2>1, <2>2, <1>0 DEF Once, InQueue, TransportTypeOK
  <2>6. NotBegun'
    BY <2>1, <2>2 DEF Once, NotBegun, TransportTypeOK
  <2> QED
    BY <2>1, <2>3, <2>4, <2>5, <2>6 DEF Once, Silent
<1>13. ASSUME NEW r \in Requests, Answer(r) PROVE Once'
  <2>1. ToSet(pipe') = ToSet(pipe) \cup {r} /\ outstanding' = outstanding \ {r} /\ r \in outstanding
        /\ UNCHANGED <<process, call, worker, queue>>
    BY <1>13, PipeWritten DEF Answer, Lines
  <2>2. OnceRead'
    BY <1>13, <1>0, <2>1, DistinctAppend DEF Answer, Once, OnceRead, OnceSent, Lines
  <2>3. OnceSent' /\ Unsent'
    BY <2>1 DEF Once, OnceSent, Unsent, UnreadLines
  <2> QED
    BY <2>1, <2>2, <2>3 DEF Once, OnceIn, InQueue, NotBegun, Silent
<1>14. ASSUME NEW n \in Noise, Say(n) PROVE Once'
  <2>0. n \notin Requests
    BY DEF CallsApart, Requests, Handshake, Noise
  <2>1. ToSet(pipe') = ToSet(pipe) \cup {n} /\ UNCHANGED <<process, call, worker, queue, outstanding>>
    BY <1>14, PipeWritten DEF Say, Lines
  <2>2. OnceRead'
    BY <1>14, <1>0, <2>0, DistinctAppend DEF Say, Once, OnceRead, Lines
  <2>3. OnceSent' /\ Unsent'
    BY <2>0, <2>1 DEF Once, OnceSent, Unsent, UnreadLines, TransportTypeOK
  <2> QED
    BY <2>1, <2>2, <2>3 DEF Once, OnceIn, InQueue, NotBegun, Silent
<1>15. CASE UNCHANGED transportVars
  BY <1>15 DEF transportVars, Once, OnceSent, OnceRead, Unsent, OnceIn, InQueue, NotBegun, Silent, UnreadLines
<1> QED
  BY <1>1, <1>2, <1>3, <1>4, <1>5, <1>6, <1>7, <1>8, <1>9, <1>10, <1>11, <1>12, <1>13,
     <1>14, <1>15 DEF TransportNext

LEMMA OnceCorrect ==
  ASSUME CallsApart
  PROVE  TransportSpec => []Once
<1>1. Once /\ IInv /\ TransportTypeOK /\ [TransportNext]_transportVars => Once'
  BY OnceStep
<1> QED
  BY <1>1, OnceInit, IInvCorrect, TransportTypes, PTL DEF TransportSpec

-----------------------------------------------------------------------------
(* In step and out of step *)

OwnStep ==
  InStep =>
    /\ \A r \in Requests : taken'[r] # taken[r] => taken'[r] = r
    /\ InStep' \/ Disturbed
OutStep == ~InStep /\ process' = "running" => ~InStep'

\* A request that stops reading after it took a line, or at the end of file.
LEMMA TakeStep ==
  ASSUME IInv, Once, TransportTypeOK, NEW r \in Requests, Take(r)
  PROVE  OwnStep /\ OutStep
<1>1. Reading = {r} /\ Reading' = {}
  <2>1. Reading = {r}
    BY DEF Take, IInv, OneReader, Reading
  <2>2. Reading' = Reading \ {r}
    BY EndsReading DEF Take, CallStates
  <2> QED
    BY <2>1, <2>2
<1>2. ToSet(pipe) = ToSet(pipe') \cup {Head(pipe)} /\ UNCHANGED <<outstanding, process>>
  BY PipeRead DEF Take
<1>3. taken' = [taken EXCEPT ![r] = Head(pipe)]
  BY DEF Take
<1>4. OutStep
  <2> SUFFICES ASSUME ~InStep, process' = "running", InStep' PROVE FALSE
    BY DEF OutStep
  <2>1. outstanding = {} /\ ToSet(pipe') = {}
    BY <1>1, <1>2 DEF InStep
  <2>2. Head(pipe) = r
    BY <2>1, <1>1, <1>2 DEF IInv, OneReader
  <2> QED
    BY <2>1, <2>2, <1>1, <1>2 DEF InStep
<1>5. OwnStep
  <2> SUFFICES ASSUME InStep
               PROVE  /\ \A q \in Requests : taken'[q] # taken[q] => taken'[q] = q
                      /\ InStep' \/ Disturbed
    BY DEF OwnStep
  <2>1. Head(pipe) = r
    BY <1>1, <1>2 DEF InStep
  <2>2. \A q \in Requests : taken'[q] # taken[q] => taken'[q] = q
    BY <2>1, <1>3 DEF TransportTypeOK
  <2>3. InStep'
    <3>1. outstanding = {}
      BY <1>1, <1>2, <2>1 DEF InStep, Once, OnceSent
    <3>2. ToSet(pipe') = {}
      <4>1. Head(pipe) \notin ToSet(pipe') \cap Requests
        BY DistinctTail DEF TransportTypeOK, Take, Once, OnceRead
      <4> QED
        BY <4>1, <1>1, <1>2, <2>1 DEF InStep
    <3> QED
      BY <3>1, <3>2, <1>2 DEF InStep
  <2> QED
    BY <2>2, <2>3
<1> QED
  BY <1>4, <1>5

\* A reader that is cancelled.
LEMMA StopStep ==
  ASSUME IInv, NEW r \in Reading, Reading' = {}, UNCHANGED <<outstanding, pipe, process, taken>>,
         Disturbed
  PROVE  OwnStep /\ OutStep
<1>1. OwnStep
  BY DEF OwnStep
<1>2. process = "running" => r \in outstanding \cup ToSet(pipe)
  BY DEF IInv, OneReader
<1>3. OutStep
  BY <1>2 DEF OutStep, InStep
<1> QED
  BY <1>1, <1>3

LEMMA StepStep == IInv /\ Once /\ TransportTypeOK /\ [TransportNext]_transportVars => OwnStep /\ OutStep
<1> SUFFICES ASSUME IInv, Once, TransportTypeOK, [TransportNext]_transportVars PROVE OwnStep /\ OutStep
  OBVIOUS
<1> USE RequestsTyped
<1>0. ASSUME UNCHANGED <<call, taken, outstanding, pipe>>, process' = "running" => process = "running"
      PROVE  OwnStep /\ OutStep
  BY <1>0 DEF OwnStep, OutStep, InStep, Reading
<1>1. CASE Launch
  <2>1. outstanding = {} /\ pipe = <<>>
    BY <1>1 DEF Launch, IInv, NotStarted
  <2>2. InStep /\ InStep' /\ UNCHANGED taken
    BY <1>1, <2>1, ToSetEmpty DEF Launch, InStep
  <2> QED
    BY <2>2 DEF OwnStep, OutStep
<1>2. CASE Initialized
  <2>1. Reading' = Reading
    BY <1>2 DEF Initialized, Reading, TransportTypeOK
  <2> QED
    BY <1>2, <2>1 DEF Initialized, OwnStep, OutStep, InStep
<1>3. ASSUME NEW r \in Requests, Write(r), call[r] \in {"scheduled", "queued"}, Reading = {},
             UNCHANGED <<taken, pipe, process>>
      PROVE  OwnStep /\ OutStep
  <2>1. Reading' = {r} /\ outstanding' \in {outstanding, outstanding \cup {r}}
    BY <1>3 DEF Write, Reading, TransportTypeOK
  <2>2. r \notin UnreadLines
    BY <1>3 DEF Once, Unsent, Waiting
  <2>3. OwnStep
    BY <1>3, <2>1 DEF OwnStep, InStep
  <2>4. OutStep
    BY <1>3, <2>1, <2>2 DEF OutStep, InStep, UnreadLines
  <2> QED
    BY <2>3, <2>4
<1>4. CASE Acquire
  <2>1. Head(queue) \in Requests /\ call[Head(queue)] = "queued"
    <3>1. Head(queue) \in ToSet(queue)
      <4>1. queue \in Seq(Requests) /\ queue # <<>>
        BY <1>4 DEF Acquire, TransportTypeOK
      <4> QED
        BY <4>1, ToSetTail
    <3> QED
      BY <3>1, QueueTyped DEF Once, InQueue
  <2> QED
    BY <1>4, <2>1, <1>3 DEF Acquire
<1>5. CASE Disconnect
  BY <1>5 DEF Disconnect, OwnStep, OutStep, InStep, Reading
<1>6. CASE Exit
  BY <1>6 DEF Exit, OwnStep, OutStep, InStep, Reading
<1>7. ASSUME NEW c \in Calls, Invoke(c) PROVE OwnStep /\ OutStep
  <2>1. call[c] = "idle"
    BY <1>7 DEF Invoke, Once, NotBegun
  <2>2. Reading' = Reading
    BY <1>7, <2>1 DEF Invoke, Reading, TransportTypeOK
  <2> QED
    BY <1>7, <2>2 DEF Invoke, OwnStep, OutStep, InStep
<1>8. ASSUME NEW c \in Calls, Return(c) \/ TimeOut(c) PROVE OwnStep /\ OutStep
  BY <1>8, <1>0 DEF Return, TimeOut
<1>9. ASSUME NEW c \in Calls, Cancel(c) PROVE OwnStep /\ OutStep
  <2>1. UNCHANGED <<process, outstanding, pipe, taken>>
    BY <1>9 DEF Cancel
  <2>2. CASE call[c] = "reading" /\ Ends(c, "cancelled")
    <3>1. Reading = {c} /\ Reading' = {}
      <4>1. Reading = {c}
        BY <2>2 DEF IInv, OneReader, Reading
      <4> QED
        BY <4>1, <2>2, EndsReading DEF CallStates
    <3>2. Disturbed
      BY <2>2 DEF Disturbed, Ends, TransportTypeOK
    <3> QED
      BY <2>1, <3>1, <3>2, StopStep
  <2>3. CASE call[c] # "reading" /\ Ends(c, "cancelled")
    <3>1. Reading' = Reading
      BY <2>3, EndsReading DEF CallStates, Reading
    <3> QED
      BY <2>1, <3>1 DEF OwnStep, OutStep, InStep
  <2>4. CASE UNCHANGED call
    BY <2>1, <2>4, <1>0
  <2> QED
    BY <1>9, <2>2, <2>3, <2>4 DEF Cancel
<1>10. ASSUME NEW r \in Requests, BeginSend(r) PROVE OwnStep /\ OutStep
  <2>1. CASE Reading = {} /\ Write(r)
    BY <1>10, <2>1, <1>3 DEF BeginSend
  <2>2. CASE call' = [call EXCEPT ![r] = "queued"] /\ UNCHANGED outstanding
    <3>1. Reading' = Reading
      BY <1>10, <2>2 DEF BeginSend, Reading, TransportTypeOK
    <3> QED
      BY <1>10, <2>2, <3>1 DEF BeginSend, OwnStep, OutStep, InStep
  <2> QED
    BY <1>10, <2>1, <2>2 DEF BeginSend
<1>11. ASSUME NEW r \in Requests, NotConnected(r) PROVE OwnStep /\ OutStep
  <2>1. r \notin Reading
    <3>1. CASE call[r] = "scheduled"
      BY <3>1 DEF Reading
    <3>2. CASE Reading = {}
      BY <3>2
    <3> QED
      BY <1>11, <3>1, <3>2 DEF NotConnected
  <2>2. Reading' = Reading
    BY <1>11, <2>1, EndsReading DEF NotConnected, CallStates
  <2> QED
    BY <1>11, <2>2 DEF NotConnected, OwnStep, OutStep, InStep
<1>12. ASSUME NEW r \in Requests, NoResponse(r) PROVE OwnStep /\ OutStep
  <2>1. Reading = {r}
    BY <1>12 DEF NoResponse, IInv, OneReader, Reading
  <2>2. Reading' = {}
    BY <1>12, <2>1, EndsReading DEF NoResponse, CallStates
  <2>3. outstanding = {} /\ ToSet(pipe) = {}
    BY <1>12, ToSetEmpty DEF NoResponse, Once, Silent
  <2> QED
    BY <1>12, <2>1, <2>2, <2>3 DEF NoResponse, OwnStep, OutStep, InStep
<1>13. ASSUME NEW r \in Requests, Take(r) PROVE OwnStep /\ OutStep
  BY <1>13, TakeStep
<1>14. ASSUME NEW r \in Requests, Answer(r) PROVE OwnStep /\ OutStep
  <2>1. ToSet(pipe') = ToSet(pipe) \cup {r} /\ outstanding' = outstanding \ {r} /\ r \in outstanding
    BY <1>14, PipeWritten DEF Answer, Lines
  <2>2. outstanding' \cup ToSet(pipe') = outstanding \cup ToSet(pipe)
    BY <2>1
  <2> QED
    BY <1>14, <2>2 DEF Answer, OwnStep, OutStep, InStep, Reading
<1>15. ASSUME NEW n \in Noise, Say(n) PROVE OwnStep /\ OutStep
  <2>1. ToSet(pipe') = ToSet(pipe) \cup {n} /\ UNCHANGED <<call, outstanding, taken>>
    BY <1>15, PipeWritten DEF Say, Lines
  <2>2. noise' # noise
    <3>1. noise \in Nat /\ noise' = noise + 1
      BY <1>15 DEF Say, TransportTypeOK
    <3> QED
      BY <3>1
  <2> QED
    BY <2>1, <2>2 DEF OwnStep, OutStep, InStep, Reading, Disturbed
<1>16. CASE UNCHANGED transportVars
  BY <1>16, <1>0 DEF transportVars
<1> QED
  BY <1>1, <1>2, <1>4, <1>5, <1>6, <1>7, <1>8, <1>9, <1>10, <1>11, <1>12, <1>13, <1>14,
     <1>15, <1>16 DEF TransportNext

\* For any number of calls, an answer taken while the pipe is in step is the
\* request's own, and only a reader's cancellation or a line nobody asked for puts
\* the pipe out of step.
THEOREM OwnAnswerCorrect ==
  TransportSpec => OwnAnswer
<1>0. CallsApart
  BY TransportAssumption DEF CallsApart
<1>1. IInv /\ Once /\ TransportTypeOK /\ [TransportNext]_transportVars => OwnStep
  BY StepStep
<1> QED
  BY <1>0, <1>1, IInvCorrect, OnceCorrect, TransportTypes, PTL DEF TransportSpec, OwnAnswer, OwnStep

\* For any number of calls, a connection once out of step is never put right.
THEOREM StaysOutOfStepCorrect ==
  TransportSpec => StaysOutOfStep
<1>0. CallsApart
  BY TransportAssumption DEF CallsApart
<1>1. IInv /\ Once /\ TransportTypeOK /\ [TransportNext]_transportVars => OutStep
  BY StepStep
<1> QED
  BY <1>0, <1>1, IInvCorrect, OnceCorrect, TransportTypes, PTL DEF TransportSpec, StaysOutOfStep, OutStep
=============================================================================
