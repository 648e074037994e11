---------------------------- MODULE McpHostProofs ----------------------------
(* Theorems about McpHost, for every number of tasks, processes, operations, *)
(* changes of the server's tools and faults.                                 *)
EXTENDS McpHost, FiniteSetTheorems, FunctionTheorems, SequenceTheorems, TLAPS

-----------------------------------------------------------------------------
(* The inductive invariant, part by part                                     *)

Steps == LockedSteps \cup {"idle", "lock", "return", "unlist", "compare", "pick", "publish"}
UseOps == {"list", "call"}

Answers == [is : {"answer"}, client : Nat, id : Nat, version : 0..MaxChanges]
Replies == {NoReply, ErrorReply} \cup Answers
Lines == {[is |-> "list_changed"], [is |-> "garbage"]} \cup Answers

Ops == [at : Steps, kind : LifecycleOps \cup UseOps \cup {"none"}, config : Configs \cup {None},
        client : Nat, next : {"none", "return", "forget", "announce", "error"},
        method : {"none", "tools/list", "refresh", "tools/call"}, id : Nat, reply : Replies,
        tools : Tools \cup {None}, invalidated : Nat]

Requests == [id : Nat, proc : Procs]
ClientRecords == [child : BOOLEAN, reader : BOOLEAN, generation : Nat, next_id : Nat,
                  pending : SUBSET Requests, base : Nat]
Runtimes == [config : Configs, client : Nat, tools : Tools, generation : 0..MaxChanges]

StorePart ==
  /\ row \in Configs \cup {None}
  /\ durable \in Tools \cup {None} /\ persisted_tools \in Tools \cup {None}
  /\ tool_routes \in Tools \cup {None}
  /\ runtime \in Runtimes \cup {None}
  /\ status \in {"unknown", "starting", "ready", "error", "disabled"}
  /\ lifecycle_lock \in Procs \cup {None}
  /\ catalog \in 0..MaxChanges /\ begun \in 0..MaxOps /\ faults \in 0..MaxFaults
  /\ row # None => row.updated_at <= faults

TypePart == StorePart /\ op \in [Procs -> Ops]

ProcessPart ==
  /\ client \in Seq(ClientRecords) /\ stdout \in Seq(Seq(Lines)) /\ asked \in Seq(SUBSET Nat)
  /\ Len(stdout) = Len(client) /\ Len(asked) = Len(client)
  /\ Len(client) <= MaxClients

(* Which fields a task uses at which step.                                   *)
Locked(o) == o.at \in LockedSteps \cup {"return"} /\ o.kind \in LifecycleOps
Starting(o) == o.at \in {"kill", "send", "wait", "install"} /\ o.kind \in LifecycleOps
Refreshing(o) == o.method = "refresh" /\ o.at \in {"send", "wait"}

OpPart(o, clients) ==
  /\ o.at \in {"lock", "return", "unlist", "take", "kill", "drain", "announce", "spawn",
               "install", "error", "forget"} => o.kind \in LifecycleOps /\ o.config \in Configs
  /\ o.at \in {"compare", "pick", "publish"} => o.kind \in UseOps
  /\ o.at \in {"send", "wait"} =>
       \/ o.kind \in LifecycleOps /\ o.config \in Configs /\ o.method = "tools/list" /\ o.next = "error"
       \/ o.kind \in UseOps /\ o.method \in {"refresh", "tools/call"}
  /\ o.at \in {"kill", "drain"} => o.next # "none"
  /\ o.at \notin {"wait", "kill", "drain", "announce", "spawn", "return", "error", "forget", "unlist"} =>
       o.reply = NoReply
  /\ o.at \in {"kill", "drain", "send", "wait", "install", "publish"} => o.client \in clients
  /\ o.at \in {"install", "publish"} => o.tools \in Tools /\ o.tools.client = o.client

LockPart ==
  \A p \in Procs : OpPart(op[p], Clients) /\ (Locked(op[p]) => lifecycle_lock = p)

(* The old process is gone before the next one starts.                       *)
LifePart ==
  /\ runtime # None => runtime.client \in Clients
  /\ \A p \in Procs : Locked(op[p]) /\ op[p].at \notin {"take", "return"} => runtime = None
  /\ \A c \in Alive : \/ runtime # None /\ runtime.client = c
                      \/ \E p \in Procs : Starting(op[p]) /\ op[p].client = c

(* Changes a process has announced and its reader has not seen.              *)
Changes(s) == Cardinality({i \in DOMAIN s : s[i].is = "list_changed"})

(* The reader of a client never counts more changes than there were.         *)
ChangePart ==
  \A c \in Clients : client[c].base + client[c].generation + Changes(stdout[c]) <= catalog

(* A request is pending only while its task waits for it.                    *)
PendingPart ==
  \A c \in Clients :
    /\ client[c].next_id >= 1
    /\ asked[c] \subseteq 1..(client[c].next_id - 1)
    /\ \A r \in client[c].pending :
         /\ r.id < client[c].next_id
         /\ op[r.proc].at = "wait" /\ op[r.proc].client = c
         /\ op[r.proc].id = r.id /\ op[r.proc].reply = NoReply
    /\ \A i \in DOMAIN stdout[c] : stdout[c][i].is = "answer" =>
         /\ stdout[c][i].client = c /\ stdout[c][i].id < client[c].next_id

(* What a refresh is told is at least as new as what it was started for: the *)
(* client k of the task o, the lines s it has not read, and the catalog v.   *)
RefreshGood(o, k, s, v) ==
  /\ Refreshing(o) => k.base + o.invalidated <= v
  /\ Refreshing(o) /\ o.at = "wait" =>
       /\ \A i \in DOMAIN s : s[i].is = "answer" /\ s[i].id = o.id =>
                              s[i].version >= k.base + o.invalidated
       /\ o.reply.is = "answer" => o.reply.version >= k.base + o.invalidated
  /\ o.at = "publish" => o.tools.version >= k.base + o.invalidated

MatchGood(o) ==
  o.at = "wait" /\ o.reply.is = "answer" => o.reply.id = o.id /\ o.reply.client = o.client

RequestPart ==
  \A p \in Procs :
    /\ RefreshGood(op[p], client[op[p].client], stdout[op[p].client], catalog)
    /\ MatchGood(op[p])

HostInv ==
  /\ TypePart /\ ProcessPart /\ LockPart /\ LifePart /\ RoutesOfLiveRuntime
  /\ ChangePart /\ PendingPart /\ RequestPart

-----------------------------------------------------------------------------
(* Records                                                                   *)

LEMMA NotNone ==
  /\ \A c \in Configs : c # None
  /\ \A t \in Tools : t # None
  /\ \A r \in Runtimes : r # None
  /\ \A p \in Procs : p # None
<1>1. \A c \in Configs : c # None
  <2> SUFFICES ASSUME NEW c \in Configs PROVE c # None
    OBVIOUS
  <2>1. DOMAIN c = {"updated_at", "enabled"} /\ DOMAIN None = {"none"}
    BY DEF Configs, None
  <2> QED
    BY <2>1
<1>2. \A t \in Tools : t # None
  <2> SUFFICES ASSUME NEW t \in Tools PROVE t # None
    OBVIOUS
  <2>1. DOMAIN t = {"client", "version"} /\ DOMAIN None = {"none"}
    BY DEF Tools, None
  <2> QED
    BY <2>1
<1>3. \A r \in Runtimes : r # None
  <2> SUFFICES ASSUME NEW r \in Runtimes PROVE r # None
    OBVIOUS
  <2>1. DOMAIN r = {"config", "client", "tools", "generation"} /\ DOMAIN None = {"none"}
    BY DEF Runtimes, None
  <2> QED
    BY <2>1
<1> QED
  BY <1>1, <1>2, <1>3, McpAssumption

LEMMA ReplyFacts ==
  /\ NoReply \in Replies /\ ErrorReply \in Replies
  /\ NoReply.is = "none" /\ ErrorReply.is = "error" /\ NoReply # ErrorReply
  /\ \A a \in Answers : a \in Replies /\ a \in Lines /\ a.is = "answer" /\ a # NoReply
  /\ \A r \in Replies : r.is = "answer" => r \in Answers
  /\ \A r \in Replies : r.is = "none" => r = NoReply
  /\ \A l \in Lines : l.is = "answer" => l \in Answers
<1>1. NoReply.is = "none" /\ ErrorReply.is = "error"
  BY DEF NoReply, ErrorReply
<1>2. \A a \in Answers : a.is = "answer"
  BY DEF Answers
<1>3. \A l \in {[is |-> "list_changed"], [is |-> "garbage"]} : l.is # "answer"
  OBVIOUS
<1> QED
  BY <1>1, <1>2, <1>3 DEF Replies, Lines

LEMMA SetAt ==
  ASSUME NEW o \in Ops, NEW s \in Steps
  PROVE  /\ [o EXCEPT !.at = s] \in Ops
         /\ [o EXCEPT !.at = s].at = s /\ [o EXCEPT !.at = s].kind = o.kind
         /\ [o EXCEPT !.at = s].config = o.config /\ [o EXCEPT !.at = s].client = o.client
         /\ [o EXCEPT !.at = s].next = o.next /\ [o EXCEPT !.at = s].method = o.method
         /\ [o EXCEPT !.at = s].id = o.id /\ [o EXCEPT !.at = s].reply = o.reply
         /\ [o EXCEPT !.at = s].tools = o.tools /\ [o EXCEPT !.at = s].invalidated = o.invalidated
BY DEF Ops

LEMMA SetReply ==
  ASSUME NEW o \in Ops, NEW r \in Replies
  PROVE  /\ [o EXCEPT !.reply = r] \in Ops
         /\ [o EXCEPT !.reply = r].reply = r /\ [o EXCEPT !.reply = r].kind = o.kind
         /\ [o EXCEPT !.reply = r].config = o.config /\ [o EXCEPT !.reply = r].client = o.client
         /\ [o EXCEPT !.reply = r].next = o.next /\ [o EXCEPT !.reply = r].method = o.method
         /\ [o EXCEPT !.reply = r].id = o.id /\ [o EXCEPT !.reply = r].at = o.at
         /\ [o EXCEPT !.reply = r].tools = o.tools
         /\ [o EXCEPT !.reply = r].invalidated = o.invalidated
BY DEF Ops

LEMMA IdleFacts ==
  /\ Idle \in Ops /\ Idle.at = "idle" /\ Idle.kind = "none" /\ Idle.reply = NoReply
  /\ Idle.method = "none" /\ Idle.invalidated = 0 /\ Idle.id = 0 /\ Idle.client = 0
<1>1. /\ "idle" \in Steps /\ NoReply \in Replies
  BY ReplyFacts DEF Steps
<1> QED
  BY <1>1 DEF Idle, Ops

-----------------------------------------------------------------------------
(* What a step does to the processes                                         *)

(* A line of d is one that was there, or the answer to a request d had.      *)
LinesKept(d) ==
  \A i \in DOMAIN stdout'[d] : stdout'[d][i].is = "answer" =>
    \/ \E j \in DOMAIN stdout[d] : stdout[d][j] = stdout'[d][i]
    \/ /\ stdout'[d][i].version = catalog /\ stdout'[d][i].client = d
       /\ stdout'[d][i].id \in asked[d]

Later ==
  /\ Clients \subseteq Clients'
  /\ catalog <= catalog' /\ catalog' \in 0..MaxChanges
  /\ \A d \in Clients : /\ client'[d].base = client[d].base
                        /\ client[d].next_id <= client'[d].next_id
                        /\ LinesKept(d)

(* A task that does not move: at most it gets the answer it waits for.       *)
Told(q, r) ==
  /\ op[q].at = "wait" /\ op'[q] = [op[q] EXCEPT !.reply = r]
  /\ \/ r = ErrorReply
     \/ /\ \E j \in DOMAIN stdout[op[q].client] : r = stdout[op[q].client][j]
        /\ r.is = "answer" /\ r.id = op[q].id

Rests(q) == op'[q] = op[q] \/ \E r \in Replies : Told(q, r)

LEMMA ClientTypes ==
  ASSUME ProcessPart, NEW d \in Clients
  PROVE  /\ client[d] \in ClientRecords /\ stdout[d] \in Seq(Lines) /\ asked[d] \in SUBSET Nat
         /\ client[d].base \in Nat /\ client[d].generation \in Nat /\ client[d].next_id \in Nat
         /\ client[d].child \in BOOLEAN /\ client[d].reader \in BOOLEAN
         /\ client[d].pending \subseteq Requests
         /\ Len(client) \in Nat /\ Clients = 1..Len(client)
         /\ DOMAIN client = Clients /\ DOMAIN stdout = Clients /\ DOMAIN asked = Clients
<1>1. /\ client[d] \in ClientRecords /\ stdout[d] \in Seq(Lines) /\ asked[d] \in SUBSET Nat
      /\ Len(client) \in Nat /\ Clients = 1..Len(client)
      /\ DOMAIN client = Clients /\ DOMAIN stdout = Clients /\ DOMAIN asked = Clients
  BY DEF ProcessPart, Clients
<1>2. /\ client[d].base \in Nat /\ client[d].generation \in Nat /\ client[d].next_id \in Nat
      /\ client[d].child \in BOOLEAN /\ client[d].reader \in BOOLEAN
      /\ client[d].pending \subseteq Requests
  BY <1>1 DEF ClientRecords
<1> QED
  BY <1>1, <1>2

(* Nothing happens to the processes.                                         *)
LEMMA Quiet ==
  ASSUME HostInv, UNCHANGED <<processes, catalog>>
  PROVE  Later /\ ProcessPart' /\ ChangePart' /\ Clients' = Clients /\ Alive' = Alive
<1>1. client' = client /\ stdout' = stdout /\ asked' = asked /\ catalog' = catalog
  BY DEF processes
<1>2. Clients' = Clients /\ Alive' = Alive
  BY <1>1 DEF Clients, Alive
<1>3. ProcessPart'
  BY <1>1 DEF HostInv, ProcessPart
<1>4. ChangePart'
  BY <1>1, <1>2 DEF HostInv, ChangePart, Changes
<1>5. catalog \in Nat /\ catalog \in 0..MaxChanges /\ \A d \in Clients : client[d].next_id \in Nat
  BY ClientTypes, McpAssumption DEF HostInv, TypePart, StorePart
<1>6. Later
  BY <1>1, <1>2, <1>5 DEF Later, LinesKept
<1> QED
  BY <1>2, <1>3, <1>4, <1>6

LEMMA LineFacts ==
  ASSUME HostInv, NEW d \in Clients, NEW i \in DOMAIN stdout[d], stdout[d][i].is = "answer"
  PROVE  /\ stdout[d][i] \in Answers /\ stdout[d][i].version \in 0..MaxChanges
         /\ stdout[d][i].client = d /\ stdout[d][i].id < client[d].next_id
         /\ stdout[d][i].id \in Nat
<1>1. stdout[d] \in Seq(Lines)
  BY ClientTypes DEF HostInv
<1>2. stdout[d][i] \in Lines
  BY <1>1
<1>3. stdout[d][i] \in Answers
  BY <1>2, ReplyFacts
<1>4. stdout[d][i].version \in 0..MaxChanges /\ stdout[d][i].id \in Nat
  BY <1>3 DEF Answers
<1> QED
  BY <1>3, <1>4 DEF HostInv, PendingPart

(* The task n is the task o, which may have got an answer.                   *)
SameRequest(o, n) ==
  /\ n.at = o.at /\ n.kind = o.kind /\ n.client = o.client /\ n.config = o.config
  /\ n.next = o.next /\ n.method = o.method /\ n.id = o.id /\ n.tools = o.tools
  /\ n.invalidated = o.invalidated

Replied(o, n, s) ==
  \/ n.reply = o.reply
  \/ o.at = "wait" /\ n.reply = ErrorReply
  \/ /\ o.at = "wait" /\ n.reply.is = "answer" /\ n.reply.id = o.id
     /\ \E j \in DOMAIN s : n.reply = s[j]

LEMMA RestOps ==
  ASSUME HostInv, NEW q \in Procs, Rests(q)
  PROVE  /\ op[q] \in Ops /\ op'[q] \in Ops /\ SameRequest(op[q], op'[q])
         /\ Replied(op[q], op'[q], stdout[op[q].client])
<1>1. op[q] \in Ops
  BY DEF HostInv, TypePart, StorePart
<1>2. CASE op'[q] = op[q]
  BY <1>1, <1>2 DEF SameRequest, Replied
<1>3. CASE \E r \in Replies : Told(q, r)
  <2>1. PICK r \in Replies : Told(q, r)
    BY <1>3
  <2>2. op'[q] \in Ops /\ SameRequest(op[q], op'[q]) /\ op'[q].reply = r
    BY <1>1, <2>1, SetReply DEF Told, SameRequest
  <2> QED
    BY <1>1, <2>1, <2>2 DEF Told, Replied
<1> QED
  BY <1>2, <1>3 DEF Rests

(* A task that rests stays good while the processes move on.                 *)
LEMMA RestGood ==
  ASSUME HostInv, Later, NEW q \in Procs, Rests(q)
  PROVE  /\ op'[q] \in Ops /\ SameRequest(op[q], op'[q]) /\ OpPart(op'[q], Clients')
         /\ RefreshGood(op'[q], client'[op'[q].client], stdout'[op'[q].client], catalog')
         /\ MatchGood(op'[q])
<1> DEFINE o == op[q]
           n == op'[q]
           d == o.client
           least == client[d].base + o.invalidated
<1>1. /\ o \in Ops /\ OpPart(o, Clients) /\ RefreshGood(o, client[d], stdout[d], catalog)
      /\ MatchGood(o)
  BY DEF HostInv, TypePart, StorePart, LockPart, RequestPart
<1>2. n \in Ops /\ SameRequest(o, n) /\ Replied(o, n, stdout[d])
  BY RestOps
<1>3. n.client = d /\ o.invalidated \in Nat
  BY <1>1, <1>2 DEF SameRequest, Ops
<1>4. o.at \in {"kill", "drain", "send", "wait", "install", "publish"} => d \in Clients
  BY <1>1 DEF OpPart
<1> HIDE DEF o, n, d
<1>5. OpPart(n, Clients')
  <2>1. d \in Clients => d \in Clients'
    BY DEF Later
  <2>2. o.at # "wait" => n.reply = o.reply
    BY <1>2 DEF Replied
  <2> QED
    BY <1>1, <1>2, <1>3, <2>1, <2>2 DEF OpPart, SameRequest
<1>6. ASSUME o.at = "wait", NEW j \in DOMAIN stdout[d], n.reply = stdout[d][j], n.reply.is = "answer"
      PROVE  n.reply.client = d
  BY <1>4, <1>6, LineFacts
<1>7. MatchGood(n)
  BY <1>1, <1>2, <1>3, <1>6, ReplyFacts DEF MatchGood, SameRequest, Replied
<1>8. RefreshGood(n, client'[d], stdout'[d], catalog')
  <2>1. CASE Refreshing(o) \/ o.at = "publish"
    <3>1. /\ d \in Clients /\ client'[d].base = client[d].base /\ LinesKept(d) /\ catalog <= catalog'
      BY <1>4, <2>1 DEF Later, Refreshing
    <3>2. client[d].base \in Nat /\ catalog \in Nat /\ catalog' \in Int
      BY <3>1, ClientTypes, McpAssumption DEF HostInv, TypePart, StorePart, Later
    <3>3. Refreshing(o) => client[d].base + o.invalidated <= catalog
      BY <1>1 DEF RefreshGood
    <3>4. ASSUME Refreshing(o), o.at = "wait",
                 NEW i \in DOMAIN stdout'[d], stdout'[d][i].is = "answer", stdout'[d][i].id = o.id
          PROVE  stdout'[d][i].version >= client[d].base + o.invalidated
      <4>1. CASE \E j \in DOMAIN stdout[d] : stdout[d][j] = stdout'[d][i]
        BY <1>1, <3>4, <4>1 DEF RefreshGood
      <4>2. CASE stdout'[d][i].version = catalog
        BY <1>3, <3>2, <3>3, <3>4, <4>2
      <4> QED
        BY <3>1, <3>4, <4>1, <4>2 DEF LinesKept
    <3>5. Refreshing(o) /\ o.at = "wait" /\ n.reply.is = "answer" =>
            n.reply.version >= client[d].base + o.invalidated
      BY <1>1, <1>2, ReplyFacts DEF RefreshGood, Replied
    <3>6. o.at = "publish" => o.tools.version >= client[d].base + o.invalidated
      BY <1>1 DEF RefreshGood
    <3>7. Refreshing(n) <=> Refreshing(o)
      BY <1>2 DEF Refreshing, SameRequest
    <3>8. Refreshing(o) => client[d].base + o.invalidated <= catalog'
      BY <1>3, <3>1, <3>2, <3>3
    <3> QED
      BY <1>2, <3>1, <3>4, <3>5, <3>6, <3>7, <3>8 DEF RefreshGood, SameRequest
  <2>2. CASE ~(Refreshing(o) \/ o.at = "publish")
    BY <1>2, <2>2 DEF RefreshGood, Refreshing, SameRequest
  <2> QED
    BY <2>1, <2>2
<1> QED
  BY <1>2, <1>3, <1>5, <1>7, <1>8 DEF o, n, d

-----------------------------------------------------------------------------
(* Counting the announced changes                                            *)

LEMMA ChangesIsNat ==
  ASSUME NEW s \in Seq(Lines)
  PROVE  /\ IsFiniteSet({i \in DOMAIN s : s[i].is = "list_changed"}) /\ Changes(s) \in Nat
<1>1. DOMAIN s = 1..Len(s) /\ Len(s) \in Nat
  OBVIOUS
<1>2. IsFiniteSet(1..Len(s))
  BY <1>1, FS_Interval
<1>3. {i \in DOMAIN s : s[i].is = "list_changed"} \in SUBSET (1..Len(s))
  BY <1>1
<1>4. IsFiniteSet({i \in DOMAIN s : s[i].is = "list_changed"})
  BY <1>2, <1>3, FS_Subset
<1> QED
  BY <1>4, FS_CardinalityType DEF Changes

LEMMA ChangesOfNone == Changes(<<>>) = 0
<1>1. {i \in DOMAIN <<>> : <<>>[i].is = "list_changed"} = {}
  OBVIOUS
<1> QED
  BY <1>1, FS_EmptySet DEF Changes

LEMMA ChangesOfAppend ==
  ASSUME NEW s \in Seq(Lines), NEW l \in Lines
  PROVE  /\ Append(s, l) \in Seq(Lines)
         /\ Changes(Append(s, l)) = IF l.is = "list_changed" THEN Changes(s) + 1 ELSE Changes(s)
<1> DEFINE t == Append(s, l)
           S == {i \in DOMAIN s : s[i].is = "list_changed"}
           T == {i \in DOMAIN t : t[i].is = "list_changed"}
<1>1. /\ t \in Seq(Lines) /\ Len(t) = Len(s) + 1 /\ Len(s) \in Nat
      /\ DOMAIN t = 1..(Len(s) + 1) /\ DOMAIN s = 1..Len(s)
      /\ \A i \in 1..Len(s) : t[i] = s[i]
      /\ t[Len(s) + 1] = l
  BY AppendProperties
<1>2. IsFiniteSet(S)
  BY ChangesIsNat
<1> HIDE DEF t
<1>3. CASE l.is = "list_changed"
  <2>1. T = S \cup {Len(s) + 1} /\ Len(s) + 1 \notin S
    BY <1>1, <1>3
  <2>2. Cardinality(T) = Cardinality(S) + 1
    BY <1>2, <2>1, FS_AddElement
  <2> QED
    BY <1>1, <1>3, <2>2 DEF Changes, t
<1>4. CASE l.is # "list_changed"
  <2>1. T = S
    BY <1>1, <1>4
  <2> QED
    BY <1>1, <1>4, <2>1 DEF Changes, t
<1> QED
  BY <1>3, <1>4

LEMMA ChangesOfTail ==
  ASSUME NEW s \in Seq(Lines), s # <<>>
  PROVE  /\ Head(s) = s[1] /\ 1 \in DOMAIN s /\ Tail(s) \in Seq(Lines)
         /\ \A i \in DOMAIN Tail(s) : \E j \in DOMAIN s : s[j] = Tail(s)[i]
         /\ Changes(Tail(s)) + (IF Head(s).is = "list_changed" THEN 1 ELSE 0) <= Changes(s)
<1> DEFINE t == Tail(s)
           S == {i \in DOMAIN s : s[i].is = "list_changed"}
           T == {i \in DOMAIN t : t[i].is = "list_changed"}
           f == [i \in T |-> i + 1]
<1>1. /\ Head(s) = s[1] /\ t \in Seq(Lines) /\ Len(s) \in Nat /\ Len(s) >= 1
      /\ DOMAIN s = 1..Len(s) /\ Len(t) = Len(s) - 1 /\ DOMAIN t = 1..(Len(s) - 1)
      /\ \A i \in 1..(Len(s) - 1) : t[i] = s[i + 1]
  BY HeadTailProperties
<1> HIDE DEF t
<1>2. IsFiniteSet(S) /\ Cardinality(S) \in Nat /\ IsFiniteSet(S \ {1})
      /\ Cardinality(S \ {1}) = IF 1 \in S THEN Cardinality(S) - 1 ELSE Cardinality(S)
  BY ChangesIsNat, FS_RemoveElement DEF Changes
<1>3. f \in Injection(T, S \ {1})
  <2>1. \A i \in T : i \in 1..(Len(s) - 1) /\ i + 1 \in S \ {1}
    BY <1>1
  <2>2. f \in [T -> S \ {1}]
    BY <2>1
  <2>3. \A a, b \in T : f[a] = f[b] => a = b
    BY <2>1
  <2> QED
    BY <2>2, <2>3, Fun_IsInj
<1>4. Cardinality(T) <= Cardinality(S \ {1}) /\ Cardinality(T) \in Nat
  <2>1. IsFiniteSet(T) /\ Cardinality(T) \in Nat
    BY <1>1, ChangesIsNat DEF Changes
  <2> HIDE DEF S, T, f
  <2> QED
    BY <1>2, <1>3, <2>1, FS_Injection
<1>5. 1 \in S <=> Head(s).is = "list_changed"
  BY <1>1
<1>6. Changes(t) + (IF Head(s).is = "list_changed" THEN 1 ELSE 0) <= Changes(s)
  BY <1>2, <1>4, <1>5 DEF Changes
<1>7. \A i \in DOMAIN t : i + 1 \in DOMAIN s /\ s[i + 1] = t[i]
  BY <1>1
<1> QED
  BY <1>1, <1>6, <1>7 DEF t

-----------------------------------------------------------------------------
(* What a step has to show                                                   *)

(* The task p becomes o and every other task rests.                          *)
LEMMA OneMoves ==
  ASSUME HostInv, Later, NEW p \in Procs, NEW o \in Ops,
         DOMAIN op' = Procs, op' = [q \in DOMAIN op' |-> op'[q]], op'[p] = o, OpPart(o, Clients'),
         RefreshGood(o, client'[o.client], stdout'[o.client], catalog'), MatchGood(o),
         \A q \in Procs \ {p} : Rests(q)
  PROVE  /\ op' \in [Procs -> Ops] /\ RequestPart'
         /\ \A q \in Procs : OpPart(op'[q], Clients')
         /\ \A q \in Procs \ {p} : SameRequest(op[q], op'[q])
<1>1. \A q \in Procs \ {p} :
        /\ op'[q] \in Ops /\ SameRequest(op[q], op'[q]) /\ OpPart(op'[q], Clients')
        /\ RefreshGood(op'[q], client'[op'[q].client], stdout'[op'[q].client], catalog')
        /\ MatchGood(op'[q])
  BY RestGood
<1>2. \A q \in Procs : op'[q] \in Ops
  BY <1>1
<1>3. op' \in [Procs -> Ops]
  BY <1>2
<1>4. RequestPart'
  BY <1>1 DEF RequestPart
<1> QED
  BY <1>1, <1>3, <1>4

(* A task moves on its own: the processes do not change.                     *)
LEMMA MovesAlone ==
  ASSUME HostInv, UNCHANGED <<processes, catalog>>, NEW p \in Procs, NEW o \in Ops,
         op' = [op EXCEPT ![p] = o], OpPart(o, Clients),
         RefreshGood(o, client[o.client], stdout[o.client], catalog),
         o.at # "wait", op[p].at = "wait" => op[p].reply # NoReply
  PROVE  /\ op' \in [Procs -> Ops] /\ op'[p] = o
         /\ \A q \in Procs \ {p} : op'[q] = op[q]
         /\ \A q \in Procs : OpPart(op'[q], Clients')
         /\ ProcessPart' /\ ChangePart' /\ PendingPart' /\ RequestPart'
         /\ Clients' = Clients /\ Alive' = Alive
<1>1. Later /\ ProcessPart' /\ ChangePart' /\ Clients' = Clients /\ Alive' = Alive
  BY Quiet
<1>2. client' = client /\ stdout' = stdout /\ asked' = asked /\ catalog' = catalog
  BY DEF processes
<1>3. op \in [Procs -> Ops]
  BY DEF HostInv, TypePart, StorePart
<1>4. op'[p] = o /\ \A q \in Procs \ {p} : op'[q] = op[q]
  BY <1>3
<1>5. DOMAIN op' = Procs /\ op' = [q \in DOMAIN op' |-> op'[q]]
  BY <1>3
<1>6. MatchGood(o)
  BY DEF MatchGood
<1>7. \A q \in Procs \ {p} : Rests(q)
  BY <1>4 DEF Rests
<1>8. /\ op' \in [Procs -> Ops] /\ RequestPart'
      /\ \A q \in Procs : OpPart(op'[q], Clients')
  <2>1. OpPart(o, Clients') /\ RefreshGood(o, client'[o.client], stdout'[o.client], catalog')
    BY <1>1, <1>2
  <2> QED
    BY <1>1, <1>4, <1>5, <1>6, <1>7, <2>1, OneMoves
<1>9. PendingPart'
  <2>1. \A c \in Clients : \A r \in client[c].pending : r \in Requests
    BY ClientTypes DEF HostInv
  <2>2. \A c \in Clients : \A r \in client[c].pending : r.proc \in Procs
    BY <2>1 DEF Requests
  <2>3. \A c \in Clients : \A r \in client[c].pending : r.proc # p
    BY DEF HostInv, PendingPart
  <2>4. \A c \in Clients : \A r \in client[c].pending : op'[r.proc] = op[r.proc]
    BY <1>4, <2>2, <2>3
  <2> QED
    BY <1>1, <1>2, <2>4 DEF HostInv, PendingPart
<1> QED
  BY <1>1, <1>4, <1>8, <1>9

(* The lock, when the task p moves.                                          *)
LEMMA LockMoves ==
  ASSUME HostInv, NEW p \in Procs, \A q \in Procs : OpPart(op'[q], Clients'),
         \A q \in Procs \ {p} : op'[q].at = op[q].at /\ op'[q].kind = op[q].kind,
         \/ /\ lifecycle_lock' = lifecycle_lock
            /\ Locked(op'[p]) => Locked(op[p])
         \/ lifecycle_lock = None /\ lifecycle_lock' = p
         \/ Locked(op[p]) /\ ~Locked(op'[p])
  PROVE  LockPart'
<1>1. \A q \in Procs : Locked(op[q]) => lifecycle_lock = q
  BY DEF HostInv, LockPart
<1>2. \A q \in Procs \ {p} : Locked(op'[q]) <=> Locked(op[q])
  BY DEF Locked
<1>3. \A q \in Procs : q # None
  BY McpAssumption
<1>4. \A q \in Procs : Locked(op'[q]) => lifecycle_lock' = q
  BY <1>1, <1>2, <1>3
<1> QED
  BY <1>4 DEF LockPart

(* The runtime in the map and the processes, when the task p moves and the   *)
(* map keeps its client.                                                     *)
LEMMA LifeMoves ==
  ASSUME HostInv, NEW p \in Procs, Clients \subseteq Clients',
         runtime' = None <=> runtime = None, runtime # None => runtime'.client = runtime.client,
         \A q \in Procs \ {p} :
           op'[q].at = op[q].at /\ op'[q].kind = op[q].kind /\ op'[q].client = op[q].client,
         Locked(op'[p]) /\ op'[p].at \notin {"take", "return"} => runtime = None,
         \A c \in Alive' : \/ c \in Alive
                           \/ Starting(op'[p]) /\ op'[p].client = c,
         Starting(op[p]) => \/ op[p].client \notin Alive'
                            \/ Starting(op'[p]) /\ op'[p].client = op[p].client
  PROVE  LifePart'
<1>1. \A q \in Procs \ {p} : (Locked(op'[q]) <=> Locked(op[q])) /\ (Starting(op'[q]) <=> Starting(op[q]))
  BY DEF Locked, Starting
<1>2. runtime' # None => runtime'.client \in Clients'
  BY DEF HostInv, LifePart
<1>3. \A q \in Procs : Locked(op'[q]) /\ op'[q].at \notin {"take", "return"} => runtime' = None
  BY <1>1 DEF HostInv, LifePart
<1>4. ASSUME NEW c \in Alive'
      PROVE  \/ runtime' # None /\ runtime'.client = c
             \/ \E q \in Procs : Starting(op'[q]) /\ op'[q].client = c
  <2>1. CASE Starting(op'[p]) /\ op'[p].client = c
    BY <2>1
  <2>2. CASE c \in Alive
    <3>1. CASE runtime # None /\ runtime.client = c
      BY <3>1
    <3>2. CASE \E q \in Procs : Starting(op[q]) /\ op[q].client = c
      <4>1. PICK q \in Procs : Starting(op[q]) /\ op[q].client = c
        BY <3>2
      <4>2. CASE q = p
        BY <1>4, <4>1, <4>2
      <4>3. CASE q # p
        BY <1>1, <4>1, <4>3
      <4> QED
        BY <4>2, <4>3
    <3> QED
      BY <2>2, <3>1, <3>2 DEF HostInv, LifePart
  <2> QED
    BY <1>4, <2>1, <2>2
<1> QED
  BY <1>2, <1>3, <1>4 DEF LifePart

(* The two together, for a task that moves on its own.                       *)
LEMMA Alone ==
  ASSUME HostInv, UNCHANGED <<processes, catalog>>, NEW p \in Procs, NEW o \in Ops,
         op' = [op EXCEPT ![p] = o], OpPart(o, Clients),
         RefreshGood(o, client[o.client], stdout[o.client], catalog),
         o.at # "wait", op[p].at = "wait" => op[p].reply # NoReply,
         \/ /\ lifecycle_lock' = lifecycle_lock
            /\ Locked(o) => Locked(op[p])
         \/ lifecycle_lock = None /\ lifecycle_lock' = p
         \/ Locked(op[p]) /\ ~Locked(o),
         StorePart', RoutesOfLiveRuntime',
         \/ LifePart'
         \/ /\ runtime' = None <=> runtime = None
            /\ runtime # None => runtime'.client = runtime.client
            /\ Locked(o) /\ o.at \notin {"take", "return"} => runtime = None
            /\ Starting(op[p]) => \/ op[p].client \notin Alive
                                  \/ Starting(o) /\ o.client = op[p].client
  PROVE  HostInv'
<1>1. /\ op' \in [Procs -> Ops] /\ op'[p] = o
      /\ \A q \in Procs \ {p} : op'[q] = op[q]
      /\ \A q \in Procs : OpPart(op'[q], Clients')
      /\ ProcessPart' /\ ChangePart' /\ PendingPart' /\ RequestPart'
      /\ Clients' = Clients /\ Alive' = Alive
  BY MovesAlone
<1>2. LockPart'
  BY <1>1, LockMoves
<1>3. LifePart'
  BY <1>1, LifeMoves
<1> QED
  BY <1>1, <1>2, <1>3 DEF HostInv, TypePart

(* A step of no refresh has nothing to show about one.                       *)
LEMMA NoRefresh ==
  ASSUME NEW o, o.at \notin {"send", "wait", "publish"}, NEW k, NEW s, NEW v
  PROVE  RefreshGood(o, k, s, v)
BY DEF RefreshGood, Refreshing

LEMMA GoesTo ==
  ASSUME HostInv, NEW p \in Procs, NEW s \in Steps, GoTo(p, s)
  PROVE  op' = [op EXCEPT ![p] = [op[p] EXCEPT !.at = s]]
<1>1. op \in [Procs -> Ops]
  BY DEF HostInv, TypePart
<1>2. op[p] \in Ops
  BY <1>1
<1> QED
  BY <1>1, <1>2 DEF GoTo

-----------------------------------------------------------------------------
(* The operations, begun and ended                                           *)

LEMMA BeginLifecycleKeeps ==
  ASSUME HostInv, NEW p \in Procs, BeginLifecycle(p)
  PROVE  HostInv'
<1>1. PICK kind \in LifecycleOps :
        op' = [op EXCEPT ![p] = [Idle EXCEPT !.at = "lock", !.kind = kind, !.config = row]]
  BY DEF BeginLifecycle
<1> DEFINE o == [Idle EXCEPT !.at = "lock", !.kind = kind, !.config = row]
<1>2. row \in Configs /\ op[p].at = "idle"
  BY DEF BeginLifecycle, At, HostInv, TypePart, StorePart
<1>3. "lock" \in Steps
  BY DEF Steps
<1>4. o \in Ops /\ o.at = "lock" /\ o.kind = kind /\ o.config = row /\ o.reply = NoReply
  BY <1>2, <1>3, IdleFacts DEF Idle, Ops
<1>5. op' = [op EXCEPT ![p] = o]
  BY <1>1
<1> HIDE DEF o
<1>6. /\ OpPart(o, Clients) /\ RefreshGood(o, client[o.client], stdout[o.client], catalog)
      /\ ~Locked(o) /\ ~Starting(op[p])
  BY <1>2, <1>4 DEF OpPart, RefreshGood, Refreshing, Locked, Starting, LockedSteps
<1>7. begun' \in 0..MaxOps
  BY McpAssumption DEF BeginLifecycle, HostInv, TypePart, StorePart
<1>8. UNCHANGED <<row, durable, lifecycle_lock, inner, processes, catalog, faults>>
  BY DEF BeginLifecycle, store
<1>9. StorePart' /\ RoutesOfLiveRuntime' /\ runtime' = runtime
  BY <1>7, <1>8 DEF HostInv, TypePart, StorePart, RoutesOfLiveRuntime, inner
<1> QED
  BY <1>2, <1>4, <1>5, <1>6, <1>8, <1>9, Alone

LEMMA ConfigureKeeps ==
  ASSUME HostInv, NEW p \in Procs, Configure(p)
  PROVE  HostInv'
<1>1. PICK enabled \in BOOLEAN : row' = [updated_at |-> row.updated_at + 1, enabled |-> enabled]
  BY DEF Configure
<1> DEFINE o == [Idle EXCEPT !.at = "lock", !.kind = "ensure", !.config = row']
<1>2. row \in Configs /\ op[p].at = "idle" /\ row.updated_at <= faults /\ faults < MaxFaults
      /\ faults' = faults + 1
  BY DEF Configure, At, HostInv, TypePart, StorePart
<1>3. faults \in 0..MaxFaults /\ row.updated_at \in Nat
  BY <1>2 DEF HostInv, TypePart, StorePart, Configs
<1>4. row.updated_at + 1 \in 0..MaxFaults /\ row.updated_at + 1 <= faults'
      /\ faults' \in 0..MaxFaults
  BY <1>2, <1>3, McpAssumption
<1>5. row' \in Configs /\ row'.updated_at <= faults'
  BY <1>1, <1>4 DEF Configs
<1>6. "lock" \in Steps /\ "ensure" \in LifecycleOps
  BY DEF Steps, LifecycleOps
<1>7. o \in Ops /\ o.at = "lock" /\ o.kind = "ensure" /\ o.config = row' /\ o.reply = NoReply
  BY <1>5, <1>6, IdleFacts DEF Idle, Ops
<1>8. op' = [op EXCEPT ![p] = o]
  BY DEF Configure
<1> HIDE DEF o
<1>9. /\ OpPart(o, Clients) /\ RefreshGood(o, client[o.client], stdout[o.client], catalog)
      /\ ~Locked(o) /\ ~Starting(op[p])
  BY <1>2, <1>5, <1>6, <1>7 DEF OpPart, RefreshGood, Refreshing, Locked, Starting, LockedSteps
<1>10. begun' \in 0..MaxOps
  BY McpAssumption DEF Configure, HostInv, TypePart, StorePart
<1>11. UNCHANGED <<durable, lifecycle_lock, inner, processes, catalog>>
  BY DEF Configure
<1>12. StorePart' /\ RoutesOfLiveRuntime' /\ runtime' = runtime
  BY <1>4, <1>5, <1>10, <1>11 DEF HostInv, TypePart, StorePart, RoutesOfLiveRuntime, inner
<1> QED
  BY <1>2, <1>7, <1>8, <1>9, <1>11, <1>12, Alone

LEMMA BeginUseKeeps ==
  ASSUME HostInv, NEW p \in Procs, BeginUse(p)
  PROVE  HostInv'
<1>1. PICK kind \in UseOps :
        op' = [op EXCEPT ![p] = [Idle EXCEPT !.at = "compare", !.kind = kind]]
  BY DEF BeginUse, UseOps
<1> DEFINE o == [Idle EXCEPT !.at = "compare", !.kind = kind]
<1>2. op[p].at = "idle"
  BY DEF BeginUse, At
<1>3. "compare" \in Steps
  BY DEF Steps
<1>4. o \in Ops /\ o.at = "compare" /\ o.kind = kind /\ o.reply = NoReply
  BY <1>3, IdleFacts DEF Idle, Ops
<1>5. op' = [op EXCEPT ![p] = o]
  BY <1>1
<1> HIDE DEF o
<1>6. /\ OpPart(o, Clients) /\ RefreshGood(o, client[o.client], stdout[o.client], catalog)
      /\ ~Locked(o) /\ ~Starting(op[p])
  BY <1>2, <1>4 DEF OpPart, RefreshGood, Refreshing, Locked, Starting, LockedSteps
<1>7. begun' \in 0..MaxOps
  BY McpAssumption DEF BeginUse, HostInv, TypePart, StorePart
<1>8. UNCHANGED <<row, durable, lifecycle_lock, inner, processes, catalog, faults>>
  BY DEF BeginUse, store
<1>9. StorePart' /\ RoutesOfLiveRuntime' /\ runtime' = runtime
  BY <1>7, <1>8 DEF HostInv, TypePart, StorePart, RoutesOfLiveRuntime, inner
<1> QED
  BY <1>2, <1>4, <1>5, <1>6, <1>8, <1>9, Alone

(* What an idle task satisfies.                                              *)
LEMMA IdleIsGood ==
  /\ \A S : OpPart(Idle, S)
  /\ \A k, s, v : RefreshGood(Idle, k, s, v)
  /\ ~Locked(Idle) /\ ~Starting(Idle) /\ Idle.at # "wait"
<1>1. Idle.at = "idle" /\ Idle.reply = NoReply
  BY IdleFacts
<1> QED
  BY <1>1 DEF OpPart, RefreshGood, Refreshing, Locked, Starting, LockedSteps

LEMMA ReturnKeeps ==
  ASSUME HostInv, NEW p \in Procs, Return(p)
  PROVE  HostInv'
<1>1. op[p].at = "return" /\ op' = [op EXCEPT ![p] = Idle] /\ lifecycle_lock' = None
  BY DEF Return, At
<1>2. Locked(op[p]) /\ ~Starting(op[p])
  BY <1>1 DEF HostInv, LockPart, OpPart, Locked, Starting
<1>3. UNCHANGED <<store, inner, processes, catalog, bounds>>
  BY DEF Return
<1>4. StorePart' /\ RoutesOfLiveRuntime' /\ runtime' = runtime
  BY <1>1, <1>3 DEF HostInv, TypePart, StorePart, RoutesOfLiveRuntime, inner, store, bounds
<1> QED
  BY <1>1, <1>2, <1>3, <1>4, IdleFacts, IdleIsGood, Alone

-----------------------------------------------------------------------------
(* Lifecycle                                                                 *)

(* A lifecycle operation goes to a step that uses no client.                 *)
LEMMA Advances ==
  ASSUME HostInv, NEW p \in Procs,
         NEW s \in {"take", "return", "announce", "spawn", "error", "forget", "unlist"},
         GoTo(p, s), UNCHANGED <<processes, catalog>>,
         op[p].at \in {"lock", "take", "announce", "spawn", "error", "forget", "install"},
         s = "take" => op[p].at = "lock",
         \/ lifecycle_lock' = lifecycle_lock /\ op[p].at # "lock"
         \/ lifecycle_lock = None /\ lifecycle_lock' = p
         \/ op[p].at = "forget" /\ s = "unlist",
         StorePart', RoutesOfLiveRuntime',
         \/ LifePart'
         \/ /\ runtime' = runtime /\ op[p].at # "install"
            /\ s \in {"take", "return", "unlist"} \/ runtime = None
  PROVE  HostInv'
<1> DEFINE o == [op[p] EXCEPT !.at = s]
<1>1. s \in Steps
  BY DEF Steps, LockedSteps
<1>2. op' = [op EXCEPT ![p] = o]
  BY <1>1, GoesTo
<1>3. op[p] \in Ops /\ OpPart(op[p], Clients)
  BY DEF HostInv, TypePart, LockPart
<1>4. /\ o \in Ops /\ o.at = s /\ o.kind = op[p].kind /\ o.config = op[p].config
      /\ o.reply = op[p].reply
  BY <1>1, <1>3, SetAt
<1> HIDE DEF o
<1>5. OpPart(o, Clients)
  BY <1>3, <1>4 DEF OpPart
<1>6. RefreshGood(o, client[o.client], stdout[o.client], catalog)
  BY <1>4, NoRefresh
<1>7. o.at # "wait" /\ op[p].at # "wait" /\ ~Starting(o)
  BY <1>4 DEF Starting
<1>8. op[p].at # "lock" => Locked(op[p])
  BY <1>3 DEF OpPart, Locked, LockedSteps
<1>9. s = "unlist" => ~Locked(o)
  BY <1>4 DEF Locked, LockedSteps
<1>10. op[p].at # "install" => ~Starting(op[p])
  BY DEF Starting
<1> QED
  BY <1>2, <1>4, <1>5, <1>6, <1>7, <1>8, <1>9, <1>10, Alone

LEMMA LockKeeps ==
  ASSUME HostInv, NEW p \in Procs, Lock(p)
  PROVE  HostInv'
<1>1. PICK s \in {"take", "return"} : GoTo(p, s)
  BY DEF Lock
<1>2. op[p].at = "lock" /\ lifecycle_lock = None /\ lifecycle_lock' = p
  BY DEF Lock, At
<1>3. UNCHANGED <<store, inner, processes, catalog, bounds>>
  BY DEF Lock
<1>4. StorePart' /\ RoutesOfLiveRuntime' /\ runtime' = runtime
  BY <1>2, <1>3 DEF HostInv, TypePart, StorePart, RoutesOfLiveRuntime, inner, store, bounds
<1> QED
  BY <1>1, <1>2, <1>3, <1>4, Advances

LEMMA ForgetKeeps ==
  ASSUME HostInv, NEW p \in Procs, Forget(p)
  PROVE  HostInv'
<1>1. op[p].at = "forget" /\ GoTo(p, "unlist") /\ lifecycle_lock' = None /\ persisted_tools' = None
  BY DEF Forget, At
<1>2. UNCHANGED <<store, runtime, tool_routes, status, processes, catalog, bounds>>
  BY DEF Forget
<1>3. Locked(op[p])
  BY <1>1 DEF HostInv, LockPart, OpPart, Locked, LockedSteps
<1>4. runtime = None
  BY <1>1, <1>3 DEF HostInv, LifePart
<1>5. StorePart'
  BY <1>1, <1>2 DEF HostInv, TypePart, StorePart, store, bounds
<1>6. RoutesOfLiveRuntime' /\ runtime' = runtime
  BY <1>2, <1>4 DEF HostInv, RoutesOfLiveRuntime
<1> QED
  BY <1>1, <1>2, <1>4, <1>5, <1>6, Advances

LEMMA DeleteRowKeeps ==
  ASSUME HostInv, NEW p \in Procs, DeleteRow(p)
  PROVE  HostInv'
<1>1. op[p].at = "unlist" /\ op' = [op EXCEPT ![p] = Idle] /\ row' = None /\ durable' = None
  BY DEF DeleteRow, At
<1>2. UNCHANGED <<lifecycle_lock, inner, processes, catalog, bounds>>
  BY DEF DeleteRow
<1>3. ~Starting(op[p])
  BY <1>1 DEF Starting
<1>4. StorePart' /\ RoutesOfLiveRuntime' /\ runtime' = runtime
  BY <1>1, <1>2 DEF HostInv, TypePart, StorePart, RoutesOfLiveRuntime, inner, bounds
<1> QED
  BY <1>1, <1>2, <1>3, <1>4, IdleFacts, IdleIsGood, Alone

(* The step of a lifecycle operation that has taken the runtime out.         *)
LEMMA Taken ==
  ASSUME HostInv, NEW p \in Procs, op[p].at \in {"announce", "spawn", "error", "install", "forget"}
  PROVE  runtime = None
<1>1. Locked(op[p])
  BY DEF HostInv, LockPart, OpPart, Locked, LockedSteps
<1> QED
  BY <1>1 DEF HostInv, LifePart

LEMMA AnnounceKeeps ==
  ASSUME HostInv, NEW p \in Procs, Announce(p)
  PROVE  HostInv'
<1>1. /\ op[p].at = "announce" /\ status' \in {"starting", "disabled"}
      /\ GoTo(p, "spawn") \/ GoTo(p, "return")
  BY DEF Announce, At
<1>2. UNCHANGED <<store, lifecycle_lock, runtime, tool_routes, persisted_tools, processes, catalog, bounds>>
  BY DEF Announce
<1>3. runtime = None
  BY <1>1, Taken
<1>4. StorePart'
  BY <1>1, <1>2 DEF HostInv, TypePart, StorePart, store, bounds
<1>5. RoutesOfLiveRuntime'
  BY <1>2 DEF HostInv, RoutesOfLiveRuntime
<1> QED
  BY <1>1, <1>2, <1>3, <1>4, <1>5, Advances

LEMMA SetErrorStatusKeeps ==
  ASSUME HostInv, NEW p \in Procs, SetErrorStatus(p)
  PROVE  HostInv'
<1>1. op[p].at = "error" /\ status' = "error" /\ GoTo(p, "return")
  BY DEF SetErrorStatus, At
<1>2. UNCHANGED <<store, lifecycle_lock, runtime, tool_routes, persisted_tools, processes, catalog, bounds>>
  BY DEF SetErrorStatus
<1>3. runtime = None
  BY <1>1, Taken
<1>4. StorePart'
  BY <1>1, <1>2 DEF HostInv, TypePart, StorePart, store, bounds
<1>5. RoutesOfLiveRuntime'
  BY <1>2 DEF HostInv, RoutesOfLiveRuntime
<1> QED
  BY <1>1, <1>2, <1>3, <1>4, <1>5, Advances

LEMMA TakeRuntimeKeeps ==
  ASSUME HostInv, NEW p \in Procs, TakeRuntime(p)
  PROVE  HostInv'
<1> DEFINE after == AfterStop(op[p].kind)
<1>1. op[p].at = "take" /\ runtime' = None /\ tool_routes' = None
  BY DEF TakeRuntime, At
<1>2. UNCHANGED <<store, lifecycle_lock, persisted_tools, status, processes, catalog, bounds>>
  BY DEF TakeRuntime
<1>3. /\ op[p] \in Ops /\ op[p].kind \in LifecycleOps /\ op[p].config \in Configs
      /\ op[p].reply = NoReply /\ Locked(op[p]) /\ ~Starting(op[p])
  BY <1>1 DEF HostInv, TypePart, LockPart, OpPart, Locked, LockedSteps, Starting
<1>4. after \in {"return", "forget", "announce"}
  BY DEF AfterStop
<1>5. StorePart' /\ RoutesOfLiveRuntime'
  BY <1>1, <1>2 DEF HostInv, TypePart, StorePart, RoutesOfLiveRuntime, store, bounds
<1> HIDE DEF after
<1>6. CASE runtime = None
  <2> DEFINE o == [op[p] EXCEPT !.at = after]
  <2>1. op' = [op EXCEPT ![p] = o]
    BY <1>6 DEF TakeRuntime, after
  <2>2. after \in Steps
    BY <1>4 DEF Steps, LockedSteps
  <2>3. o \in Ops /\ o.at = after /\ o.kind = op[p].kind /\ o.config = op[p].config
        /\ o.reply = op[p].reply
    BY <1>3, <2>2, SetAt
  <2> HIDE DEF o
  <2>4. OpPart(o, Clients)
    BY <1>3, <1>4, <2>3 DEF OpPart
  <2>5. RefreshGood(o, client[o.client], stdout[o.client], catalog)
    BY <1>4, <2>3, NoRefresh
  <2> QED
    BY <1>1, <1>2, <1>3, <1>4, <1>5, <1>6, <2>1, <2>3, <2>4, <2>5, Alone
<1>7. CASE runtime # None
  <2> DEFINE o == [op[p] EXCEPT !.at = "kill", !.client = runtime.client, !.next = after]
  <2>1. op' = [op EXCEPT ![p] = o]
    BY <1>7 DEF TakeRuntime, after
  <2>2. "kill" \in Steps
    BY DEF Steps, LockedSteps
  <2>3. runtime \in Runtimes /\ runtime.client \in Clients
    BY <1>7 DEF HostInv, TypePart, StorePart, LifePart
  <2>4. runtime.client \in Nat
    BY <2>3 DEF Runtimes
  <2>5. /\ o \in Ops /\ o.at = "kill" /\ o.kind = op[p].kind /\ o.config = op[p].config
        /\ o.client = runtime.client /\ o.next = after
    BY <1>3, <1>4, <2>2, <2>4 DEF Ops
  <2> HIDE DEF o
  <2>6. OpPart(o, Clients)
    BY <1>3, <1>4, <2>3, <2>5 DEF OpPart
  <2>7. RefreshGood(o, client[o.client], stdout[o.client], catalog)
    BY <2>5, NoRefresh
  <2>8. op'[p] = o /\ \A q \in Procs \ {p} : op'[q] = op[q]
    BY <2>1 DEF HostInv, TypePart
  <2>9. Alive' = Alive
    BY <1>2 DEF Alive, Clients, processes
  <2>10. Starting(o)
    BY <1>3, <2>5 DEF Starting
  <2>11. LifePart'
    BY <1>1, <1>3, <2>5, <2>8, <2>9, <2>10 DEF HostInv, LifePart
  <2> QED
    BY <1>1, <1>2, <1>3, <1>5, <2>1, <2>5, <2>6, <2>7, <2>11, Alone
<1> QED
  BY <1>6, <1>7

LEMMA Counted ==
  ASSUME HostInv, NEW c \in Clients
  PROVE  client[c].generation \in 0..MaxChanges /\ client[c].base \in 0..MaxChanges
         /\ client[c].base + client[c].generation <= catalog /\ Changes(stdout[c]) \in Nat
<1>1. client[c].generation \in Nat /\ client[c].base \in Nat /\ stdout[c] \in Seq(Lines)
  BY ClientTypes DEF HostInv
<1>2. Changes(stdout[c]) \in Nat
  BY <1>1, ChangesIsNat
<1>3. client[c].base + client[c].generation + Changes(stdout[c]) <= catalog
  BY DEF HostInv, ChangePart
<1>4. catalog \in 0..MaxChanges
  BY DEF HostInv, TypePart, StorePart
<1> QED
  BY <1>1, <1>2, <1>3, <1>4, McpAssumption

(* A step under the lock has it alone.                                       *)
LEMMA OnlyHolder ==
  ASSUME HostInv, NEW p \in Procs, Locked(op[p])
  PROVE  \A q \in Procs \ {p} : ~Locked(op[q]) /\ ~Starting(op[q])
BY DEF HostInv, LockPart, Locked, Starting, LockedSteps

LEMMA InstallReadyClientKeeps ==
  ASSUME HostInv, NEW p \in Procs, InstallReadyClient(p)
  PROVE  HostInv'
<1> DEFINE c == op[p].client
<1>1. /\ op[p].at = "install" /\ GoTo(p, "return") /\ status' = "ready"
      /\ runtime' = [config |-> op[p].config, client |-> c, tools |-> op[p].tools,
                     generation |-> client[c].generation]
      /\ tool_routes' = op[p].tools /\ persisted_tools' = op[p].tools
      /\ durable' \in {durable, op[p].tools}
  BY DEF InstallReadyClient, At, PersistTools
<1>2. UNCHANGED <<row, lifecycle_lock, processes, catalog, bounds>>
  BY DEF InstallReadyClient
<1>3. op[p] \in Ops /\ OpPart(op[p], Clients)
  BY DEF HostInv, TypePart, LockPart
<1>4. /\ op[p].config \in Configs /\ c \in Clients /\ c \in Nat
      /\ op[p].tools \in Tools /\ op[p].tools.client = c /\ Locked(op[p])
  BY <1>1, <1>3 DEF OpPart, Ops, Locked, LockedSteps
<1>5. client[c].generation \in 0..MaxChanges
  BY <1>4, Counted
<1> HIDE DEF c
<1>6. /\ runtime' \in Runtimes /\ runtime'.client = c /\ runtime'.tools = op[p].tools
  BY <1>1, <1>4, <1>5 DEF Runtimes
<1>7. runtime' # None
  BY <1>6, NotNone
<1>8. StorePart'
  BY <1>1, <1>2, <1>4, <1>6 DEF HostInv, TypePart, StorePart, bounds
<1>9. RoutesOfLiveRuntime'
  BY <1>1, <1>4, <1>6, <1>7 DEF RoutesOfLiveRuntime
<1>10. LifePart'
  <2>1. "return" \in Steps
    BY DEF Steps
  <2>2. op' = [op EXCEPT ![p] = [op[p] EXCEPT !.at = "return"]]
    BY <1>1, <2>1, GoesTo
  <2>3. op'[p].at = "return" /\ \A q \in Procs \ {p} : op'[q] = op[q]
    BY <1>3, <2>2 DEF HostInv, TypePart, Ops
  <2>4. \A q \in Procs \ {p} : ~Locked(op[q]) /\ ~Starting(op[q])
    BY <1>4, OnlyHolder
  <2>5. runtime = None
    BY <1>1, Taken
  <2>6. \A d \in Alive : d = c
    BY <2>4, <2>5 DEF HostInv, LifePart, c
  <2>7. Alive' = Alive /\ Clients' = Clients
    BY <1>2 DEF Alive, Clients, processes
  <2> QED
    BY <1>4, <1>6, <1>7, <2>3, <2>4, <2>6, <2>7 DEF LifePart
<1> QED
  BY <1>1, <1>2, <1>8, <1>9, <1>10, Advances

-----------------------------------------------------------------------------
(* The tool cache                                                            *)

LEMMA UseIsNoLifecycle == \A k \in UseOps : k \notin LifecycleOps
BY DEF UseOps, LifecycleOps

(* A task that uses the cache moves on its own and leaves the map alone.     *)
LEMMA UseMoves ==
  ASSUME HostInv, NEW p \in Procs, NEW o \in Ops, op' = [op EXCEPT ![p] = o],
         UNCHANGED <<lifecycle_lock, processes, catalog>>, StorePart', RoutesOfLiveRuntime',
         runtime' = None <=> runtime = None, runtime # None => runtime'.client = runtime.client,
         op[p].at \in {"compare", "pick", "publish"},
         \/ o = Idle
         \/ /\ o.kind \in UseOps /\ o.at \in {"pick", "send"} /\ o.reply = NoReply
            /\ o.at = "send" => /\ o.method \in {"refresh", "tools/call"} /\ o.client \in Clients
                                /\ o.method = "refresh" =>
                                     client[o.client].base + o.invalidated <= catalog
  PROVE  HostInv'
<1>1. op[p].kind \in UseOps /\ ~Starting(op[p])
  BY UseIsNoLifecycle DEF HostInv, LockPart, OpPart, Starting
<1>2. CASE o = Idle
  BY <1>1, <1>2, IdleIsGood, Alone
<1>3. CASE o.kind \in UseOps /\ o.at \in {"pick", "send"} /\ o.reply = NoReply
           /\ (o.at = "send" => /\ o.method \in {"refresh", "tools/call"} /\ o.client \in Clients
                                /\ o.method = "refresh" =>
                                     client[o.client].base + o.invalidated <= catalog)
  <2>1. OpPart(o, Clients)
    BY <1>3 DEF OpPart
  <2>2. RefreshGood(o, client[o.client], stdout[o.client], catalog)
    BY <1>3 DEF RefreshGood, Refreshing
  <2>3. ~Locked(o)
    BY <1>3, UseIsNoLifecycle DEF Locked
  <2> QED
    BY <1>1, <1>3, <2>1, <2>2, <2>3, Alone
<1> QED
  BY <1>2, <1>3

LEMMA CompareGenerationKeeps ==
  ASSUME HostInv, NEW p \in Procs, CompareGeneration(p)
  PROVE  HostInv'
<1>1. op[p].at = "compare"
  BY DEF CompareGeneration, At
<1>2. UNCHANGED <<store, lifecycle_lock, inner, processes, catalog, bounds>>
  BY DEF CompareGeneration
<1>3. op[p] \in Ops /\ op[p].kind \in UseOps /\ op[p].reply = NoReply
  BY <1>1 DEF HostInv, TypePart, LockPart, OpPart
<1>4. StorePart' /\ RoutesOfLiveRuntime' /\ runtime' = runtime
  BY <1>2 DEF HostInv, TypePart, StorePart, RoutesOfLiveRuntime, inner, store, bounds
<1>5. "pick" \in Steps /\ "send" \in Steps
  BY DEF Steps, LockedSteps
<1>6. CASE op' = [op EXCEPT ![p] = Idle]
  BY <1>1, <1>2, <1>4, <1>6, IdleFacts, UseMoves
<1>7. CASE op' = [op EXCEPT ![p] = [op[p] EXCEPT !.at = "pick"]]
  <2> DEFINE o == [op[p] EXCEPT !.at = "pick"]
  <2>1. o \in Ops /\ o.at = "pick" /\ o.kind = op[p].kind /\ o.reply = op[p].reply
    BY <1>3, <1>5, SetAt
  <2>2. op' = [op EXCEPT ![p] = o]
    BY <1>7
  <2> HIDE DEF o
  <2> QED
    BY <1>1, <1>2, <1>3, <1>4, <2>1, <2>2, UseMoves
<1>8. CASE /\ runtime # None
           /\ op' = [op EXCEPT ![p] = [op[p] EXCEPT !.at = "send", !.method = "refresh",
                       !.client = runtime.client, !.invalidated = client[runtime.client].generation]]
  <2> DEFINE c == runtime.client
             o == [op[p] EXCEPT !.at = "send", !.method = "refresh",
                     !.client = c, !.invalidated = client[c].generation]
  <2>1. c \in Clients /\ client[c].generation \in Nat /\ c \in Nat
    BY <1>8, ClientTypes DEF HostInv, LifePart
  <2>2. client[c].base + client[c].generation <= catalog
    BY <2>1, Counted
  <2>3. op' = [op EXCEPT ![p] = o]
    BY <1>8
  <2> HIDE DEF c
  <2>4. /\ o \in Ops /\ o.at = "send" /\ o.kind = op[p].kind /\ o.reply = op[p].reply
        /\ o.method = "refresh" /\ o.client = c /\ o.invalidated = client[c].generation
    BY <1>3, <1>5, <2>1 DEF Ops
  <2> HIDE DEF o
  <2> QED
    BY <1>1, <1>2, <1>3, <1>4, <2>1, <2>2, <2>3, <2>4, UseMoves
<1>9. CASE runtime = None
  BY <1>6, <1>9 DEF CompareGeneration
<1>10. CASE runtime # None /\ client[runtime.client].generation <= runtime.generation
  BY <1>7, <1>10 DEF CompareGeneration
<1>11. CASE runtime # None /\ ~(client[runtime.client].generation <= runtime.generation)
  BY <1>8, <1>11 DEF CompareGeneration
<1> QED
  BY <1>9, <1>10, <1>11

(* What a refresh publishes.                                                 *)
LEMMA Published ==
  ASSUME HostInv, NEW p \in Procs, At(p, "publish"), runtime # None, ~Superseded(p)
  PROVE  /\ op[p].tools \in Tools /\ op[p].tools.client = runtime.client
         /\ ObservedGeneration(p) \in 0..MaxChanges /\ runtime \in Runtimes
         /\ op[p].tools.version >= client[runtime.client].base + ObservedGeneration(p)
<1>1. op[p].at = "publish" /\ runtime.client = op[p].client /\ runtime \in Runtimes
  BY DEF At, Superseded, HostInv, TypePart, StorePart
<1>2. op[p] \in Ops /\ OpPart(op[p], Clients)
      /\ RefreshGood(op[p], client[op[p].client], stdout[op[p].client], catalog)
  BY DEF HostInv, TypePart, LockPart, RequestPart
<1>3. op[p].tools \in Tools /\ op[p].tools.client = runtime.client /\ op[p].client \in Clients
  BY <1>1, <1>2 DEF OpPart
<1>4. op[p].invalidated \in Nat
  BY <1>2 DEF Ops
<1>5. op[p].tools.version >= client[op[p].client].base + op[p].invalidated
  BY <1>1, <1>2 DEF RefreshGood
<1>6. client[op[p].client].base \in Nat
  BY <1>3, Counted, McpAssumption
<1>7. op[p].tools.version \in 0..MaxChanges
  BY <1>3 DEF Tools
<1> QED
  BY <1>1, <1>3, <1>4, <1>5, <1>6, <1>7, McpAssumption DEF ObservedGeneration

LEMMA PublishRefreshKeeps ==
  ASSUME HostInv, NEW p \in Procs, PublishRefresh(p)
  PROVE  HostInv'
<1> DEFINE o == [op[p] EXCEPT !.at = "pick"]
<1>1. op[p].at = "publish"
  BY DEF PublishRefresh, At
<1>2. UNCHANGED <<row, lifecycle_lock, status, processes, catalog, bounds>>
  BY DEF PublishRefresh
<1>3. op[p] \in Ops /\ op[p].kind \in UseOps /\ op[p].reply = NoReply
  BY <1>1 DEF HostInv, TypePart, LockPart, OpPart
<1>4. "pick" \in Steps
  BY DEF Steps
<1>5. o \in Ops /\ o.at = "pick" /\ o.kind = op[p].kind /\ o.reply = op[p].reply
  BY <1>3, <1>4, SetAt
<1>6. CASE runtime = None \/ Superseded(p)
  <2>1. UNCHANGED <<runtime, tool_routes, persisted_tools, durable>>
    BY <1>6 DEF PublishRefresh
  <2>2. op' = [op EXCEPT ![p] = Idle] \/ op' = [op EXCEPT ![p] = o]
    BY <1>6 DEF PublishRefresh
  <2>3. StorePart' /\ RoutesOfLiveRuntime' /\ runtime' = runtime
    BY <1>2, <2>1 DEF HostInv, TypePart, StorePart, RoutesOfLiveRuntime, bounds
  <2> HIDE DEF o
  <2>4. CASE op' = [op EXCEPT ![p] = Idle]
    BY <1>1, <1>2, <2>3, <2>4, IdleFacts, UseMoves
  <2>5. CASE op' = [op EXCEPT ![p] = o]
    BY <1>1, <1>2, <1>3, <1>5, <2>3, <2>5, UseMoves
  <2> QED
    BY <2>2, <2>4, <2>5
<1>7. CASE runtime # None /\ ~Superseded(p)
  <2>1. /\ runtime' = [runtime EXCEPT !.tools = op[p].tools, !.generation = ObservedGeneration(p)]
        /\ tool_routes' = op[p].tools /\ persisted_tools' = op[p].tools
        /\ durable' \in {durable, op[p].tools} /\ GoTo(p, "pick")
    BY <1>7 DEF PublishRefresh, PersistTools
  <2>2. /\ op[p].tools \in Tools /\ op[p].tools.client = runtime.client
        /\ ObservedGeneration(p) \in 0..MaxChanges /\ runtime \in Runtimes
    BY <1>1, <1>7, Published DEF At
  <2>3. runtime' \in Runtimes /\ runtime'.client = runtime.client /\ runtime'.tools = op[p].tools
    BY <2>1, <2>2 DEF Runtimes
  <2>4. runtime' # None
    BY <2>3, NotNone
  <2>5. StorePart'
    BY <1>2, <2>1, <2>2, <2>3 DEF HostInv, TypePart, StorePart, bounds
  <2>6. RoutesOfLiveRuntime'
    BY <2>1, <2>2, <2>3, <2>4 DEF RoutesOfLiveRuntime
  <2>7. op' = [op EXCEPT ![p] = o]
    BY <1>4, <2>1, GoesTo
  <2> HIDE DEF o
  <2> QED
    BY <1>1, <1>2, <1>3, <1>5, <1>7, <2>3, <2>4, <2>5, <2>6, <2>7, UseMoves
<1> QED
  BY <1>6, <1>7

LEMMA PickClientKeeps ==
  ASSUME HostInv, NEW p \in Procs, PickClient(p)
  PROVE  HostInv'
<1> DEFINE o == [Idle EXCEPT !.at = "send", !.kind = "call", !.method = "tools/call",
                             !.client = runtime.client]
<1>1. op[p].at = "pick"
  BY DEF PickClient, At
<1>2. UNCHANGED <<store, lifecycle_lock, inner, processes, catalog, bounds>>
  BY DEF PickClient
<1>3. StorePart' /\ RoutesOfLiveRuntime' /\ runtime' = runtime
  BY <1>2 DEF HostInv, TypePart, StorePart, RoutesOfLiveRuntime, inner, store, bounds
<1>4. CASE op' = [op EXCEPT ![p] = Idle]
  BY <1>1, <1>2, <1>3, <1>4, IdleFacts, UseMoves
<1>5. CASE runtime # None /\ op' = [op EXCEPT ![p] = o]
  <2>1. "send" \in Steps /\ "call" \in UseOps
    BY DEF Steps, LockedSteps, UseOps
  <2>2. runtime.client \in Clients /\ runtime.client \in Nat
    BY <1>5, ClientTypes DEF HostInv, LifePart
  <2>3. /\ o \in Ops /\ o.at = "send" /\ o.kind = "call" /\ o.method = "tools/call"
        /\ o.client = runtime.client /\ o.reply = NoReply
    BY <2>1, <2>2, IdleFacts DEF Idle, Ops
  <2> HIDE DEF o
  <2> QED
    BY <1>1, <1>2, <1>3, <1>5, <2>1, <2>2, <2>3, UseMoves
<1> QED
  BY <1>4, <1>5 DEF PickClient

-----------------------------------------------------------------------------
(* Requests                                                                  *)

(* What giving a request up leads to.                                        *)
LEMMA GivenUp ==
  ASSUME HostInv, NEW p \in Procs, op[p].at \in {"send", "wait"}
  PROVE  /\ Abandoned(op[p]) \in Ops /\ Abandoned(op[p]).at # "wait"
         /\ \A k, s, v : RefreshGood(Abandoned(op[p]), k, s, v)
         /\ OpPart(Abandoned(op[p]), Clients)
         /\ Locked(Abandoned(op[p])) => Locked(op[p])
         /\ Locked(op[p]) => runtime = None
         /\ Starting(op[p]) => Starting(Abandoned(op[p])) /\ Abandoned(op[p]).client = op[p].client
<1> DEFINE n == Abandoned(op[p])
<1>1. op[p] \in Ops /\ OpPart(op[p], Clients)
  BY DEF HostInv, TypePart, LockPart
<1>2. Locked(op[p]) => runtime = None
  BY DEF HostInv, LifePart
<1>3. CASE op[p].method = "tools/list"
  <2>1. "kill" \in Steps
    BY DEF Steps, LockedSteps
  <2>2. /\ op[p].kind \in LifecycleOps /\ op[p].config \in Configs /\ op[p].next = "error"
        /\ op[p].client \in Clients
    BY <1>1, <1>3 DEF OpPart
  <2>3. n = [op[p] EXCEPT !.at = "kill"]
    BY <1>3 DEF Abandoned
  <2>4. /\ n \in Ops /\ n.at = "kill" /\ n.kind = op[p].kind /\ n.config = op[p].config
        /\ n.client = op[p].client /\ n.next = op[p].next
    BY <1>1, <2>1, <2>3, SetAt
  <2> HIDE DEF n
  <2>5. OpPart(n, Clients)
    BY <2>2, <2>4 DEF OpPart
  <2>6. Locked(op[p]) /\ Starting(n)
    BY <2>2, <2>4 DEF Locked, LockedSteps, Starting
  <2>7. \A k, s, v : RefreshGood(n, k, s, v)
    BY <2>4, NoRefresh
  <2> QED
    BY <1>2, <2>4, <2>5, <2>6, <2>7 DEF n
<1>4. CASE op[p].method # "tools/list"
  <2>1. n = Idle
    BY <1>4 DEF Abandoned
  <2>2. ~Starting(op[p])
    BY <1>1, <1>4, UseIsNoLifecycle DEF OpPart, Starting
  <2> HIDE DEF n
  <2> QED
    BY <1>2, <2>1, <2>2, IdleFacts, IdleIsGood DEF n
<1> QED
  BY <1>3, <1>4

(* What an answer leads to.                                                  *)
LEMMA Answered ==
  ASSUME HostInv, NEW p \in Procs, op[p].at = "wait", op[p].reply.is = "answer"
  PROVE  /\ Continued(op[p]) \in Ops /\ Continued(op[p]).at # "wait"
         /\ RefreshGood(Continued(op[p]), client[Continued(op[p]).client],
                        stdout[Continued(op[p]).client], catalog)
         /\ OpPart(Continued(op[p]), Clients)
         /\ Locked(Continued(op[p])) => Locked(op[p])
         /\ Starting(op[p]) => Starting(Continued(op[p])) /\ Continued(op[p]).client = op[p].client
<1> DEFINE n == Continued(op[p])
           c == op[p].client
           tools == [client |-> c, version |-> op[p].reply.version]
<1>1. op[p] \in Ops /\ OpPart(op[p], Clients)
      /\ RefreshGood(op[p], client[c], stdout[c], catalog)
  BY DEF HostInv, TypePart, LockPart, RequestPart
<1>2. op[p].reply \in Answers /\ c \in Clients /\ op[p].invalidated \in Nat
  BY <1>1, ReplyFacts DEF OpPart, Ops
<1>3. op[p].reply.version \in 0..MaxChanges
  BY <1>2 DEF Answers
<1>4. c \in 1..MaxClients /\ c \in Nat
  BY <1>2, McpAssumption DEF HostInv, ProcessPart, Clients
<1>5. tools \in Tools /\ tools.client = c /\ tools.version = op[p].reply.version
  BY <1>3, <1>4 DEF Tools
<1>6. "install" \in Steps /\ "publish" \in Steps
  BY DEF Steps, LockedSteps
<1>7. CASE op[p].method = "tools/list"
  <2>1. op[p].kind \in LifecycleOps /\ op[p].config \in Configs
    BY <1>1, <1>7 DEF OpPart
  <2>2. n = [Idle EXCEPT !.at = "install", !.kind = op[p].kind, !.config = op[p].config,
                         !.client = c, !.tools = tools]
    BY <1>7 DEF Continued
  <2> HIDE DEF tools, c, n
  <2>3. /\ n \in Ops /\ n.at = "install" /\ n.kind = op[p].kind /\ n.config = op[p].config
        /\ n.client = c /\ n.tools = tools /\ n.reply = NoReply
    BY <1>4, <1>5, <1>6, <2>1, <2>2, IdleFacts DEF Idle, Ops
  <2>4. OpPart(n, Clients)
    BY <1>2, <1>5, <2>1, <2>3 DEF OpPart
  <2>5. Locked(op[p]) /\ Starting(n)
    BY <2>1, <2>3 DEF Locked, LockedSteps, Starting
  <2>6. RefreshGood(n, client[n.client], stdout[n.client], catalog)
    BY <2>3, NoRefresh
  <2> QED
    BY <2>3, <2>4, <2>5, <2>6 DEF n, c
<1>8. CASE op[p].method = "refresh"
  <2>1. op[p].kind \in UseOps
    BY <1>1, <1>8 DEF OpPart
  <2>2. n = [Idle EXCEPT !.at = "publish", !.kind = op[p].kind, !.client = c, !.tools = tools,
                         !.invalidated = op[p].invalidated]
    BY <1>8 DEF Continued
  <2>3. op[p].reply.version >= client[c].base + op[p].invalidated
    BY <1>1, <1>8 DEF RefreshGood, Refreshing
  <2> HIDE DEF tools, c, n
  <2>4. /\ n \in Ops /\ n.at = "publish" /\ n.kind = op[p].kind /\ n.client = c
        /\ n.tools = tools /\ n.reply = NoReply /\ n.invalidated = op[p].invalidated
    BY <1>2, <1>4, <1>5, <1>6, <2>1, <2>2, IdleFacts DEF Idle, Ops
  <2>5. OpPart(n, Clients)
    BY <1>2, <1>5, <2>1, <2>4 DEF OpPart
  <2>6. ~Starting(op[p]) /\ ~Locked(n)
    BY <2>1, <2>4, UseIsNoLifecycle DEF Starting, Locked
  <2>7. RefreshGood(n, client[n.client], stdout[n.client], catalog)
    BY <1>5, <2>3, <2>4 DEF RefreshGood, Refreshing
  <2> QED
    BY <2>4, <2>5, <2>6, <2>7 DEF n
<1>9. CASE op[p].method = "tools/call"
  <2>1. n = Idle
    BY <1>9 DEF Continued
  <2>2. ~Starting(op[p])
    BY <1>1, <1>9, UseIsNoLifecycle DEF OpPart, Starting
  <2> HIDE DEF n
  <2> QED
    BY <2>1, <2>2, IdleFacts, IdleIsGood DEF n
<1> QED
  BY <1>1, <1>7, <1>8, <1>9 DEF OpPart

LEMMA ReceiveKeeps ==
  ASSUME HostInv, NEW p \in Procs, Receive(p)
  PROVE  HostInv'
<1>1. op[p].at = "wait" /\ op[p].reply # NoReply
  BY ReplyFacts DEF Receive, At
<1>2. UNCHANGED <<store, lifecycle_lock, inner, processes, catalog, bounds>>
  BY DEF Receive
<1>3. StorePart' /\ RoutesOfLiveRuntime' /\ runtime' = runtime
  BY <1>2 DEF HostInv, TypePart, StorePart, RoutesOfLiveRuntime, inner, store, bounds
<1>4. Locked(op[p]) => runtime = None
  BY <1>1, GivenUp
<1>5. CASE op' = [op EXCEPT ![p] = Abandoned(op[p])]
  BY <1>1, <1>2, <1>3, <1>4, <1>5, GivenUp, Alone
<1>6. CASE op[p].reply.is = "answer" /\ op' = [op EXCEPT ![p] = Continued(op[p])]
  BY <1>1, <1>2, <1>3, <1>4, <1>6, Answered, Alone
<1> QED
  BY <1>5, <1>6 DEF Receive

-----------------------------------------------------------------------------
(* Steps that change one process                                             *)

(* The request r of the client d is still waited for.                        *)
Waits(o, d, r) == o.at = "wait" /\ o.client = d /\ o.id = r.id /\ o.reply = NoReply

LEMMA PendingFacts ==
  ASSUME HostInv, NEW d \in Clients, NEW r \in client[d].pending
  PROVE  /\ r \in Requests /\ r.proc \in Procs /\ r.id \in Nat /\ r.id < client[d].next_id
         /\ Waits(op[r.proc], d, r)
<1>1. r \in Requests
  BY ClientTypes DEF HostInv
<1>2. r.proc \in Procs /\ r.id \in Nat
  BY <1>1 DEF Requests
<1> QED
  BY <1>1, <1>2 DEF HostInv, PendingPart, Waits

(* The client c becomes k, with the lines s and the open requests a.         *)
Changed(c, k, s, a) ==
  /\ client' = [client EXCEPT ![c] = k] /\ stdout' = [stdout EXCEPT ![c] = s]
  /\ asked' = [asked EXCEPT ![c] = a] /\ catalog' = catalog
  /\ k.base = client[c].base /\ client[c].next_id <= k.next_id
  /\ k.child => client[c].child
  /\ \A i \in DOMAIN s : s[i].is = "answer" =>
       \/ \E j \in DOMAIN stdout[c] : stdout[c][j] = s[i]
       \/ s[i].version = catalog /\ s[i].client = c /\ s[i].id \in asked[c]
  /\ k.generation + Changes(s) <= client[c].generation + Changes(stdout[c])
  /\ a \subseteq 1..(k.next_id - 1)
  /\ \A r \in k.pending : r.id < k.next_id /\ Waits(op'[r.proc], c, r)
  /\ \A d \in Clients \ {c} : \A r \in client[d].pending : Waits(op'[r.proc], d, r)

LEMMA OneClient ==
  ASSUME HostInv, NEW c \in Clients, NEW k \in ClientRecords, NEW s \in Seq(Lines),
         NEW a \in SUBSET Nat, Changed(c, k, s, a)
  PROVE  /\ Later /\ ProcessPart' /\ ChangePart' /\ PendingPart'
         /\ Clients' = Clients
         /\ Alive' = IF k.child THEN Alive ELSE Alive \ {c}
         /\ client'[c] = k /\ stdout'[c] = s
         /\ \A d \in Clients \ {c} : client'[d] = client[d] /\ stdout'[d] = stdout[d]
<1> USE DEF Changed
<1>1. /\ client \in Seq(ClientRecords) /\ stdout \in Seq(Seq(Lines)) /\ asked \in Seq(SUBSET Nat)
      /\ Clients = 1..Len(client) /\ Len(client) \in Nat
      /\ Len(stdout) = Len(client) /\ Len(asked) = Len(client) /\ Len(client) <= MaxClients
  BY DEF HostInv, ProcessPart, Clients
<1>2. /\ client' \in Seq(ClientRecords) /\ Len(client') = Len(client)
      /\ client'[c] = k /\ \A d \in Clients \ {c} : client'[d] = client[d]
  BY <1>1
<1>3. /\ stdout' \in Seq(Seq(Lines)) /\ Len(stdout') = Len(stdout)
      /\ stdout'[c] = s /\ \A d \in Clients \ {c} : stdout'[d] = stdout[d]
  BY <1>1
<1>4. /\ asked' \in Seq(SUBSET Nat) /\ Len(asked') = Len(asked)
      /\ asked'[c] = a /\ \A d \in Clients \ {c} : asked'[d] = asked[d]
  BY <1>1
<1>5. ProcessPart' /\ Clients' = Clients
  BY <1>1, <1>2, <1>3, <1>4 DEF ProcessPart, Clients
<1>6. Alive' = IF k.child THEN Alive ELSE Alive \ {c}
  BY <1>2, <1>5 DEF Alive
<1>7. /\ k.generation \in Nat /\ k.next_id \in Nat /\ k.base \in Nat /\ k.pending \subseteq Requests
  BY DEF ClientRecords
<1>8. \A d \in Clients : /\ client[d].base \in Nat /\ client[d].generation \in Nat
                         /\ client[d].next_id \in Nat /\ stdout[d] \in Seq(Lines)
  BY ClientTypes DEF HostInv
<1>9. ChangePart'
  <2>1. Changes(s) \in Nat /\ Changes(stdout[c]) \in Nat
    BY <1>8, ChangesIsNat
  <2>2. client[c].base + client[c].generation + Changes(stdout[c]) <= catalog
    BY DEF HostInv, ChangePart
  <2>3. catalog \in Nat
    BY McpAssumption DEF HostInv, TypePart, StorePart
  <2>4. k.base + k.generation + Changes(s) <= catalog
    <3>1. ASSUME NEW b \in Nat, NEW g \in Nat, NEW h \in Nat, NEW x \in Nat, NEW y \in Nat, NEW v \in Nat,
                 b + g + x <= v, h + y <= g + x
          PROVE  b + h + y <= v
      BY <3>1
    <3>2. k.base = client[c].base /\ k.generation + Changes(s) <= client[c].generation + Changes(stdout[c])
      OBVIOUS
    <3>3. client[c].base \in Nat /\ client[c].generation \in Nat
      BY <1>8
    <3> HIDE DEF Changed
    <3> QED
      BY <1>7, <2>1, <2>2, <2>3, <3>1, <3>2, <3>3
  <2>5. \A d \in Clients \ {c} : client[d].base + client[d].generation + Changes(stdout[d]) <= catalog
    BY DEF HostInv, ChangePart
  <2> DEFINE N(d) == client'[d].base + client'[d].generation + Changes(stdout'[d])
  <2>6. \A d \in Clients : N(d) <= catalog'
    BY <1>2, <1>3, <2>4, <2>5
  <2> QED
    BY <1>5, <2>6 DEF ChangePart, Changes
<1>10. \A d \in Clients : LinesKept(d)
  BY <1>3 DEF LinesKept
<1>11. Later
  <2>1. catalog \in 0..MaxChanges
    BY DEF HostInv, TypePart, StorePart
  <2>2. catalog <= catalog'
    BY <2>1
  <2>3. \A d \in Clients : client'[d].base = client[d].base /\ client[d].next_id <= client'[d].next_id
    BY <1>2, <1>8
  <2> QED
    BY <1>5, <1>10, <2>1, <2>2, <2>3 DEF Later
<1>12. ASSUME NEW d \in Clients
       PROVE  /\ client'[d].next_id >= 1
              /\ asked'[d] \subseteq 1..(client'[d].next_id - 1)
              /\ \A r \in client'[d].pending :
                   /\ r.id < client'[d].next_id
                   /\ op'[r.proc].at = "wait" /\ op'[r.proc].client = d
                   /\ op'[r.proc].id = r.id /\ op'[r.proc].reply = NoReply
              /\ \A i \in DOMAIN stdout'[d] : stdout'[d][i].is = "answer" =>
                   /\ stdout'[d][i].client = d /\ stdout'[d][i].id < client'[d].next_id
  <2>1. client[d].next_id >= 1 /\ asked[d] \subseteq 1..(client[d].next_id - 1)
    BY DEF HostInv, PendingPart
  <2>2. CASE d = c
    <3>1. k.next_id >= 1
      BY <1>7, <1>8, <2>1, <2>2
    <3>2. ASSUME NEW i \in DOMAIN s, s[i].is = "answer"
          PROVE  s[i].client = c /\ s[i].id < k.next_id
      <4>1. CASE \E j \in DOMAIN stdout[c] : stdout[c][j] = s[i]
        <5>1. PICK j \in DOMAIN stdout[c] : stdout[c][j] = s[i]
          BY <4>1
        <5>2. s[i].client = c /\ s[i].id < client[c].next_id /\ s[i].id \in Nat
          BY <3>2, <5>1, LineFacts
        <5> QED
          BY <1>7, <1>8, <5>2
      <4>2. CASE s[i].client = c /\ s[i].id \in asked[c]
        BY <1>7, <1>8, <2>1, <2>2, <4>2
      <4> QED
        BY <3>2, <4>1, <4>2
    <3>3. client'[c].next_id >= 1 /\ asked'[c] \subseteq 1..(client'[c].next_id - 1)
      BY <1>2, <1>4, <3>1
    <3>4. \A r \in client'[c].pending :
            /\ r.id < client'[c].next_id
            /\ op'[r.proc].at = "wait" /\ op'[r.proc].client = c
            /\ op'[r.proc].id = r.id /\ op'[r.proc].reply = NoReply
      BY <1>2 DEF Waits
    <3>5. \A i \in DOMAIN stdout'[c] : stdout'[c][i].is = "answer" =>
            stdout'[c][i].client = c /\ stdout'[c][i].id < client'[c].next_id
      BY <1>2, <1>3, <3>2
    <3> QED
      BY <2>2, <3>3, <3>4, <3>5
  <2>3. CASE d # c
    <3>1. \A r \in client[d].pending : r.id < client[d].next_id /\ Waits(op'[r.proc], d, r)
      BY <2>3, PendingFacts
    <3>2. \A i \in DOMAIN stdout[d] : stdout[d][i].is = "answer" =>
            stdout[d][i].client = d /\ stdout[d][i].id < client[d].next_id
      BY LineFacts
    <3> QED
      BY <1>2, <1>3, <1>4, <2>1, <2>3, <3>1, <3>2 DEF Waits
  <2> QED
    BY <2>2, <2>3
<1>13. PendingPart'
  BY <1>5, <1>12 DEF PendingPart
<1> QED
  BY <1>2, <1>3, <1>5, <1>6, <1>9, <1>11, <1>13

(* What is stored, when a step leaves it.                                    *)
LEMMA StoreStays ==
  ASSUME HostInv, UNCHANGED <<store, lifecycle_lock, inner, begun>>,
         catalog' \in 0..MaxChanges, faults' \in 0..MaxFaults, faults <= faults'
  PROVE  StorePart' /\ RoutesOfLiveRuntime' /\ runtime' = runtime
<1>1. /\ row' = row /\ durable' = durable /\ runtime' = runtime /\ tool_routes' = tool_routes
      /\ persisted_tools' = persisted_tools /\ status' = status
  BY DEF store, inner
<1>2. row # None => row.updated_at \in Nat
  BY DEF HostInv, TypePart, StorePart, Configs
<1>3. faults \in Nat /\ faults' \in Nat
  BY McpAssumption DEF HostInv, TypePart, StorePart
<1>4. row' # None => row'.updated_at <= faults'
  BY <1>1, <1>2, <1>3 DEF HostInv, TypePart, StorePart
<1>5. StorePart'
  BY <1>1, <1>4 DEF HostInv, TypePart, StorePart
<1> QED
  BY <1>1, <1>5 DEF HostInv, RoutesOfLiveRuntime

(* The task p becomes o while the processes move, and every other task rests. *)
Shift(p, o) ==
  /\ DOMAIN op' = Procs /\ op' = [q \in DOMAIN op' |-> op'[q]] /\ op'[p] = o
  /\ OpPart(o, Clients') /\ MatchGood(o)
  /\ RefreshGood(o, client'[o.client], stdout'[o.client], catalog')
  /\ \A q \in Procs \ {p} : Rests(q)
  /\ UNCHANGED <<store, lifecycle_lock, inner, bounds>>
  /\ Locked(o) => Locked(op[p])
  /\ Locked(o) /\ o.at \notin {"take", "return"} => runtime = None
  /\ \A c \in Alive' : c \in Alive \/ (Starting(o) /\ o.client = c)
  /\ Starting(op[p]) => \/ op[p].client \notin Alive'
                        \/ Starting(o) /\ o.client = op[p].client

LEMMA Moves ==
  ASSUME HostInv, Later, ProcessPart', ChangePart', PendingPart',
         NEW p \in Procs, NEW o \in Ops, Shift(p, o)
  PROVE  HostInv'
<1> USE DEF Shift
<1>1. /\ op' \in [Procs -> Ops] /\ RequestPart'
      /\ \A q \in Procs : OpPart(op'[q], Clients')
      /\ \A q \in Procs \ {p} : SameRequest(op[q], op'[q])
  BY OneMoves
<1>2. \A q \in Procs \ {p} :
        op'[q].at = op[q].at /\ op'[q].kind = op[q].kind /\ op'[q].client = op[q].client
  BY <1>1 DEF SameRequest
<1>3. LockPart'
  BY <1>1, <1>2, LockMoves
<1>4. catalog' \in 0..MaxChanges /\ Clients \subseteq Clients'
  BY DEF Later
<1>5. begun' = begun /\ faults' = faults /\ faults \in 0..MaxFaults /\ faults <= faults
  BY DEF bounds, HostInv, TypePart, StorePart
<1>6. StorePart' /\ RoutesOfLiveRuntime' /\ runtime' = runtime
  BY <1>4, <1>5, StoreStays
<1>7. LifePart'
  BY <1>2, <1>4, <1>6, LifeMoves
<1> QED
  BY <1>1, <1>3, <1>6, <1>7 DEF HostInv, TypePart

(* No task moves while the processes do.                                     *)
LEMMA AllRest ==
  ASSUME HostInv, Later, ProcessPart', ChangePart', PendingPart',
         DOMAIN op' = Procs, op' = [q \in DOMAIN op' |-> op'[q]], \A q \in Procs : Rests(q),
         UNCHANGED <<store, lifecycle_lock, inner, begun>>,
         faults' \in 0..MaxFaults, faults <= faults', Alive' \subseteq Alive
  PROVE  HostInv'
<1>1. \A q \in Procs :
        /\ op'[q] \in Ops /\ SameRequest(op[q], op'[q]) /\ OpPart(op'[q], Clients')
        /\ RefreshGood(op'[q], client'[op'[q].client], stdout'[op'[q].client], catalog')
        /\ MatchGood(op'[q])
  BY RestGood
<1>2. op' \in [Procs -> Ops] /\ RequestPart'
  BY <1>1 DEF RequestPart
<1>3. \A q \in Procs : /\ Locked(op'[q]) <=> Locked(op[q])
                       /\ Starting(op'[q]) <=> Starting(op[q])
                       /\ op'[q].client = op[q].client /\ op'[q].at = op[q].at
  BY <1>1 DEF SameRequest, Locked, Starting
<1>4. LockPart'
  BY <1>1, <1>3 DEF HostInv, LockPart
<1>5. StorePart' /\ RoutesOfLiveRuntime' /\ runtime' = runtime /\ Clients \subseteq Clients'
  BY StoreStays DEF Later
<1>6. LifePart'
  <2>1. runtime' # None => runtime'.client \in Clients'
    BY <1>5 DEF HostInv, LifePart
  <2>2. \A q \in Procs : Locked(op'[q]) /\ op'[q].at \notin {"take", "return"} => runtime' = None
    BY <1>3, <1>5 DEF HostInv, LifePart
  <2>3. \A c \in Alive' : \/ runtime' # None /\ runtime'.client = c
                          \/ \E q \in Procs : Starting(op'[q]) /\ op'[q].client = c
    BY <1>3, <1>5 DEF HostInv, LifePart
  <2> QED
    BY <2>1, <2>2, <2>3 DEF LifePart
<1> QED
  BY <1>2, <1>4, <1>5, <1>6 DEF HostInv, TypePart

(* fail_all_pending tells the tasks that wait for the client, and no other.  *)
LEMMA FailedTells ==
  ASSUME HostInv, NEW c \in Clients, NEW ops \in [Procs -> Ops], op' = Failed(c, ops)
  PROVE  /\ DOMAIN op' = Procs /\ op' = [q \in DOMAIN op' |-> op'[q]]
         /\ \A q \in Procs : ops[q] = op[q] => Rests(q)
         /\ \A q \in Procs : op[q].at # "wait" => op'[q] = ops[q]
         /\ \A d \in Clients \ {c} : \A r \in client[d].pending : op'[r.proc] = ops[r.proc]
<1>1. DOMAIN op' = Procs /\ op' = [q \in DOMAIN op' |-> op'[q]]
  BY DEF Failed
<1>2. \A q \in Procs : op'[q] = IF \E r \in client[c].pending : r.proc = q
                                THEN [ops[q] EXCEPT !.reply = ErrorReply] ELSE ops[q]
  BY DEF Failed
<1>3. \A r \in client[c].pending : op[r.proc].at = "wait" /\ op[r.proc].client = c
  BY PendingFacts DEF Waits
<1>4. ASSUME NEW q \in Procs, ops[q] = op[q]
      PROVE  Rests(q)
  <2>1. CASE \E r \in client[c].pending : r.proc = q
    <3>1. op[q].at = "wait" /\ op'[q] = [op[q] EXCEPT !.reply = ErrorReply]
      BY <1>2, <1>3, <1>4, <2>1
    <3>2. Told(q, ErrorReply)
      BY <3>1 DEF Told
    <3> QED
      BY <3>2, ReplyFacts DEF Rests
  <2>2. CASE ~ \E r \in client[c].pending : r.proc = q
    BY <1>2, <1>4, <2>2 DEF Rests
  <2> QED
    BY <2>1, <2>2
<1>5. \A q \in Procs : op[q].at # "wait" => op'[q] = ops[q]
  BY <1>2, <1>3
<1>6. ASSUME NEW d \in Clients \ {c}, NEW r \in client[d].pending
      PROVE  op'[r.proc] = ops[r.proc]
  <2>1. op[r.proc].client = d /\ r.proc \in Procs
    BY PendingFacts DEF Waits
  <2> QED
    BY <1>2, <1>3, <2>1
<1> QED
  BY <1>1, <1>4, <1>5, <1>6

LEMMA Unmoved ==
  ASSUME HostInv, NEW c \in Clients
  PROVE  stdout = [stdout EXCEPT ![c] = stdout[c]] /\ asked = [asked EXCEPT ![c] = asked[c]]
<1>1. stdout \in Seq(Seq(Lines)) /\ asked \in Seq(SUBSET Nat)
  BY DEF HostInv, ProcessPart
<1> QED
  BY <1>1

(* The lines, once nothing was read or written.                              *)
LEMMA SameLines ==
  ASSUME HostInv, NEW c \in Clients
  PROVE  /\ client[c] \in ClientRecords /\ stdout[c] \in Seq(Lines) /\ asked[c] \in SUBSET Nat
         /\ asked[c] \subseteq 1..(client[c].next_id - 1)
         /\ client[c].next_id \in Nat /\ client[c].generation \in Nat
         /\ Changes(stdout[c]) \in Nat
         /\ \A i \in DOMAIN stdout[c] : stdout[c][i].is = "answer" =>
              \E j \in DOMAIN stdout[c] : stdout[c][j] = stdout[c][i]
<1>1. ProcessPart /\ PendingPart
  BY DEF HostInv
<1> QED
  BY <1>1, ClientTypes, ChangesIsNat DEF PendingPart

LEMMA KillKeeps ==
  ASSUME HostInv, NEW p \in Procs, Kill(p)
  PROVE  HostInv'
<1> DEFINE c == op[p].client
           k == [client[c] EXCEPT !.reader = FALSE, !.child = FALSE]
           o == [op[p] EXCEPT !.at = "drain"]
<1>1. /\ op[p].at = "kill" /\ GoTo(p, "drain") /\ client' = [client EXCEPT ![c] = k]
      /\ stdout' = [stdout EXCEPT ![c] = <<>>] /\ asked' = [asked EXCEPT ![c] = {}]
  BY DEF Kill, At, Killed
<1>2. UNCHANGED <<store, lifecycle_lock, inner, catalog, bounds>>
  BY DEF Kill
<1>3. op \in [Procs -> Ops] /\ op[p] \in Ops /\ OpPart(op[p], Clients)
  BY DEF HostInv, TypePart, LockPart
<1>4. /\ c \in Clients /\ op[p].kind \in LifecycleOps /\ op[p].config \in Configs
      /\ op[p].next # "none"
  BY <1>1, <1>3 DEF OpPart
<1>5. Locked(op[p]) /\ runtime = None
  BY <1>1, <1>4 DEF Locked, LockedSteps, HostInv, LifePart
<1>6. "drain" \in Steps
  BY DEF Steps, LockedSteps
<1>7. op' = [op EXCEPT ![p] = o]
  BY <1>1, <1>6, GoesTo
<1>8. /\ o \in Ops /\ o.at = "drain" /\ o.kind = op[p].kind /\ o.config = op[p].config
      /\ o.client = c /\ o.next = op[p].next
  BY <1>3, <1>6, SetAt
<1>9. client[c] \in ClientRecords
  BY <1>4, SameLines
<1>10. /\ k \in ClientRecords /\ k.base = client[c].base /\ k.next_id = client[c].next_id
       /\ ~k.child /\ k.generation = client[c].generation /\ k.pending = client[c].pending
  BY <1>9 DEF ClientRecords
<1> HIDE DEF c, k, o
<1>11. DOMAIN op' = Procs /\ op' = [q \in DOMAIN op' |-> op'[q]] /\ op'[p] = o
       /\ \A q \in Procs \ {p} : op'[q] = op[q]
  BY <1>3, <1>7
<1>12. \A d \in Clients : \A r \in client[d].pending : Waits(op'[r.proc], d, r)
  BY <1>1, <1>11, PendingFacts DEF Waits
<1>13. /\ <<>> \in Seq(Lines) /\ {} \in SUBSET Nat /\ Changes(<<>>) = 0
       /\ k.generation + Changes(<<>>) <= client[c].generation + Changes(stdout[c])
       /\ client[c].next_id <= k.next_id /\ \A i \in DOMAIN <<>> : FALSE
  BY <1>4, <1>10, ChangesOfNone, SameLines
<1>14. \A r \in k.pending : r.id < k.next_id /\ Waits(op'[r.proc], c, r)
  BY <1>4, <1>10, <1>12, PendingFacts
<1>15. /\ Later /\ ProcessPart' /\ ChangePart' /\ PendingPart' /\ Clients' = Clients
       /\ Alive' = IF k.child THEN Alive ELSE Alive \ {c}
  <2>1. Changed(c, k, <<>>, {})
    BY <1>1, <1>2, <1>10, <1>12, <1>13, <1>14 DEF Changed
  <2> QED
    BY <1>4, <1>10, <1>13, <2>1, OneClient
<1>16. OpPart(o, Clients')
  BY <1>4, <1>8, <1>15 DEF OpPart
<1>17. RefreshGood(o, client'[o.client], stdout'[o.client], catalog') /\ MatchGood(o)
  BY <1>8, NoRefresh DEF MatchGood
<1>18. \A q \in Procs \ {p} : Rests(q)
  BY <1>11 DEF Rests
<1>19. op[p].client \notin Alive' /\ \A d \in Alive' : d \in Alive
  BY <1>10, <1>15 DEF c
<1>20. UNCHANGED <<store, lifecycle_lock, inner, bounds>>
  BY <1>2
<1> QED
  <2>1. Shift(p, o)
    BY <1>5, <1>11, <1>16, <1>17, <1>18, <1>19, <1>20 DEF Shift
  <2> QED
    BY <1>8, <1>15, <2>1, Moves

LEMMA DrainKeeps ==
  ASSUME HostInv, NEW p \in Procs, Drain(p)
  PROVE  HostInv'
<1> DEFINE c == op[p].client
           k == [client[c] EXCEPT !.pending = {}]
           o == [op[p] EXCEPT !.at = op[p].next]
           ops == [op EXCEPT ![p] = o]
<1>1. op \in [Procs -> Ops] /\ op[p] \in Ops /\ OpPart(op[p], Clients)
  BY DEF HostInv, TypePart, LockPart
<1>2. op[p].at = "drain" /\ UNCHANGED <<store, lifecycle_lock, inner, stdout, asked, catalog, bounds>>
  BY DEF Drain, At
<1>3. /\ c \in Clients /\ op[p].kind \in LifecycleOps /\ op[p].config \in Configs
      /\ op[p].next \in {"return", "forget", "announce", "error"}
  BY <1>1, <1>2 DEF OpPart, Ops
<1>4. client[c] \in ClientRecords /\ client \in Seq(ClientRecords) /\ c \in DOMAIN client
  BY <1>3, ClientTypes DEF HostInv, ProcessPart
<1>5. client' = [client EXCEPT ![c] = k]
  BY <1>4 DEF Drain
<1>6. op' = Failed(c, ops)
  BY <1>1 DEF Drain
<1>7. op[p].next \in Steps
  BY <1>3 DEF Steps, LockedSteps
<1>8. /\ o \in Ops /\ o.at = op[p].next /\ o.kind = op[p].kind /\ o.config = op[p].config
  BY <1>1, <1>7, SetAt
<1>9. /\ k \in ClientRecords /\ k.base = client[c].base /\ k.next_id = client[c].next_id
      /\ k.child = client[c].child /\ k.generation = client[c].generation /\ k.pending = {}
  BY <1>4 DEF ClientRecords
<1> HIDE DEF c, k, o
<1>10. ops \in [Procs -> Ops] /\ ops[p] = o /\ \A q \in Procs \ {p} : ops[q] = op[q]
  BY <1>1, <1>8
<1> HIDE DEF ops
<1>11. /\ DOMAIN op' = Procs /\ op' = [q \in DOMAIN op' |-> op'[q]] /\ op'[p] = o
       /\ \A q \in Procs \ {p} : Rests(q)
       /\ \A d \in Clients \ {c} : \A r \in client[d].pending : op'[r.proc] = ops[r.proc]
  BY <1>2, <1>3, <1>6, <1>10, FailedTells
<1>12. \A d \in Clients \ {c} : \A r \in client[d].pending : Waits(op'[r.proc], d, r)
  BY <1>2, <1>10, <1>11, PendingFacts DEF Waits
<1>13. stdout' = [stdout EXCEPT ![c] = stdout[c]] /\ asked' = [asked EXCEPT ![c] = asked[c]]
  BY <1>2, <1>3, Unmoved
<1>14. /\ Later /\ ProcessPart' /\ ChangePart' /\ PendingPart' /\ Clients' = Clients
       /\ Alive' = IF k.child THEN Alive ELSE Alive \ {c}
  <2>1. /\ stdout[c] \in Seq(Lines) /\ asked[c] \in SUBSET Nat
        /\ asked[c] \subseteq 1..(k.next_id - 1) /\ client[c].next_id <= k.next_id
        /\ k.generation + Changes(stdout[c]) <= client[c].generation + Changes(stdout[c])
        /\ \A i \in DOMAIN stdout[c] : stdout[c][i].is = "answer" =>
             \E j \in DOMAIN stdout[c] : stdout[c][j] = stdout[c][i]
    BY <1>3, <1>9, SameLines
  <2>2. catalog' = catalog
    BY <1>2
  <2> QED
    <3>1. Changed(c, k, stdout[c], asked[c])
      BY <1>5, <1>9, <1>12, <1>13, <2>1, <2>2 DEF Changed
    <3> QED
      BY <1>3, <1>9, <2>1, <3>1, OneClient
<1>15. OpPart(o, Clients')
  BY <1>3, <1>8, <1>14 DEF OpPart
<1>16. RefreshGood(o, client'[o.client], stdout'[o.client], catalog') /\ MatchGood(o)
  BY <1>3, <1>8, NoRefresh DEF MatchGood
<1>17. Locked(op[p]) /\ runtime = None /\ ~Starting(op[p])
  BY <1>2, <1>3 DEF Locked, LockedSteps, Starting, HostInv, LifePart
<1>18. \A d \in Alive' : d \in Alive
  BY <1>14
<1>19. UNCHANGED <<store, lifecycle_lock, inner, bounds>>
  BY <1>2
<1> QED
  <2>1. Shift(p, o)
    BY <1>11, <1>15, <1>16, <1>17, <1>18, <1>19 DEF Shift
  <2> QED
    BY <1>8, <1>14, <2>1, Moves

(* The client c becomes k; nothing is read, written or answered.             *)
LEMMA QuietClient ==
  ASSUME HostInv, NEW c \in Clients, NEW k \in ClientRecords,
         client' = [client EXCEPT ![c] = k], UNCHANGED <<stdout, asked, catalog>>,
         k.base = client[c].base, client[c].next_id <= k.next_id, k.child => client[c].child,
         k.generation = client[c].generation,
         \A r \in k.pending : r.id < k.next_id /\ Waits(op'[r.proc], c, r),
         \A d \in Clients \ {c} : \A r \in client[d].pending : Waits(op'[r.proc], d, r)
  PROVE  /\ Later /\ ProcessPart' /\ ChangePart' /\ PendingPart'
         /\ Clients' = Clients /\ Alive' \subseteq Alive /\ (k.child => Alive' = Alive)
         /\ client'[c] = k /\ stdout' = stdout
<1>1. /\ stdout[c] \in Seq(Lines) /\ asked[c] \in SUBSET Nat /\ client[c].next_id \in Nat
      /\ asked[c] \subseteq 1..(client[c].next_id - 1)
      /\ k.generation + Changes(stdout[c]) <= client[c].generation + Changes(stdout[c])
      /\ \A i \in DOMAIN stdout[c] : stdout[c][i].is = "answer" =>
           \E j \in DOMAIN stdout[c] : stdout[c][j] = stdout[c][i]
  BY SameLines
<1>2. k.next_id \in Nat
  BY DEF ClientRecords
<1>3. asked[c] \subseteq 1..(k.next_id - 1)
  BY <1>1, <1>2
<1>4. stdout' = [stdout EXCEPT ![c] = stdout[c]] /\ asked' = [asked EXCEPT ![c] = asked[c]]
  BY Unmoved
<1>5. Changed(c, k, stdout[c], asked[c])
  BY <1>1, <1>3, <1>4 DEF Changed
<1> QED
  BY <1>1, <1>5, OneClient

LEMMA TimeoutKeeps ==
  ASSUME HostInv, NEW p \in Procs, Timeout(p)
  PROVE  HostInv'
<1> DEFINE c == op[p].client
           rest == {r \in client[c].pending : r.id # op[p].id}
           k == [client[c] EXCEPT !.pending = rest]
           o == Abandoned(op[p])
<1>1. op \in [Procs -> Ops] /\ op[p] \in Ops /\ OpPart(op[p], Clients)
  BY DEF HostInv, TypePart, LockPart
<1>2. op[p].at = "wait" /\ UNCHANGED <<store, lifecycle_lock, inner, stdout, asked, catalog, bounds>>
  BY DEF Timeout, At
<1>3. c \in Clients
  BY <1>1, <1>2 DEF OpPart
<1>4. client[c] \in ClientRecords /\ client \in Seq(ClientRecords) /\ c \in DOMAIN client
  BY <1>3, ClientTypes DEF HostInv, ProcessPart
<1>5. client' = [client EXCEPT ![c] = k]
  BY <1>4 DEF Timeout
<1>6. op' = [op EXCEPT ![p] = o]
  BY DEF Timeout
<1>7. /\ k \in ClientRecords /\ k.base = client[c].base /\ k.next_id = client[c].next_id
      /\ k.child = client[c].child /\ k.generation = client[c].generation /\ k.pending = rest
  BY <1>4 DEF ClientRecords
<1>8. op[p].client = c
  OBVIOUS
<1>9. /\ o \in Ops /\ o.at # "wait" /\ (\A x, s, v : RefreshGood(o, x, s, v))
      /\ OpPart(o, Clients) /\ (Locked(o) => Locked(op[p])) /\ (Locked(op[p]) => runtime = None)
      /\ (Starting(op[p]) => Starting(o) /\ o.client = op[p].client)
  BY <1>2, GivenUp
<1> HIDE DEF c, k, o
<1>10. DOMAIN op' = Procs /\ op' = [q \in DOMAIN op' |-> op'[q]] /\ op'[p] = o
       /\ \A q \in Procs \ {p} : op'[q] = op[q]
  BY <1>1, <1>6
<1>11. \A r \in k.pending : r.id < k.next_id /\ Waits(op'[r.proc], c, r)
  <2>1. \A r \in rest : r.proc \in Procs /\ r.id < client[c].next_id /\ Waits(op[r.proc], c, r)
    BY <1>3, PendingFacts
  <2>2. \A r \in rest : r.proc # p
    BY <2>1 DEF Waits
  <2> QED
    BY <1>7, <1>10, <2>1, <2>2
<1>12. \A d \in Clients \ {c} : \A r \in client[d].pending : Waits(op'[r.proc], d, r)
  <2>1. \A d \in Clients \ {c} : \A r \in client[d].pending :
          r.proc \in Procs /\ Waits(op[r.proc], d, r) /\ r.proc # p
    BY <1>8, PendingFacts DEF Waits
  <2> QED
    BY <1>10, <2>1
<1>13. client[c].next_id <= k.next_id
  BY <1>3, <1>7, SameLines
<1>14. /\ Later /\ ProcessPart' /\ ChangePart' /\ PendingPart' /\ Clients' = Clients
       /\ Alive' \subseteq Alive
  BY <1>2, <1>3, <1>5, <1>7, <1>11, <1>12, <1>13, QuietClient
<1>15. Shift(p, o)
  <2>1. \A q \in Procs \ {p} : Rests(q)
    BY <1>10 DEF Rests
  <2>2. UNCHANGED <<store, lifecycle_lock, inner, bounds>>
    BY <1>2
  <2>3. MatchGood(o) /\ \A d \in Alive' : d \in Alive
    BY <1>9, <1>14 DEF MatchGood
  <2> QED
    BY <1>9, <1>10, <1>14, <2>1, <2>2, <2>3 DEF Shift
<1> QED
  BY <1>9, <1>14, <1>15, Moves

LEMMA SendKeeps ==
  ASSUME HostInv, NEW p \in Procs, Send(p)
  PROVE  HostInv'
<1> DEFINE c == op[p].client
           id == client[c].next_id
<1>1. op \in [Procs -> Ops] /\ op[p] \in Ops /\ OpPart(op[p], Clients)
      /\ RefreshGood(op[p], client[c], stdout[c], catalog)
  BY DEF HostInv, TypePart, LockPart, RequestPart
<1>2. op[p].at = "send" /\ UNCHANGED <<store, lifecycle_lock, inner, stdout, catalog, bounds>>
  BY DEF Send, At
<1>3. c \in Clients /\ op[p].reply = NoReply /\ op[p].client = c
  BY <1>1, <1>2 DEF OpPart
<1>4. client[c] \in ClientRecords /\ client \in Seq(ClientRecords) /\ c \in DOMAIN client
      /\ id \in Nat /\ client[c].generation \in Nat
  BY <1>3, ClientTypes DEF HostInv, ProcessPart
<1>5. \A d \in Clients : \A r \in client[d].pending :
        r.proc \in Procs \ {p} /\ r.id < client[d].next_id /\ r.id \in Nat /\ Waits(op[r.proc], d, r)
  BY <1>2, PendingFacts DEF Waits
<1>6. UNCHANGED <<store, lifecycle_lock, inner, bounds>>
  BY <1>2
<1>7. Locked(op[p]) => runtime = None
  BY <1>2, GivenUp
<1>8. CASE /\ op' = [op EXCEPT ![p] = Abandoned(op[p])]
           /\ client' = [client EXCEPT ![c].next_id = id + 1] /\ UNCHANGED asked
  <2> DEFINE k == [client[c] EXCEPT !.next_id = id + 1]
             o == Abandoned(op[p])
  <2>1. client' = [client EXCEPT ![c] = k]
    BY <1>4, <1>8
  <2>2. op' = [op EXCEPT ![p] = o]
    BY <1>8
  <2> HIDE DEF c
  <2>3. /\ k \in ClientRecords /\ k.base = client[c].base /\ k.next_id = id + 1
        /\ k.child = client[c].child /\ k.generation = client[c].generation
        /\ k.pending = client[c].pending
    <3>1. id + 1 \in Nat
      BY <1>4
    <3> DEFINE next == id + 1
    <3> HIDE DEF next
    <3>2. next \in Nat /\ k = [client[c] EXCEPT !.next_id = next] /\ next = id + 1
      BY <3>1 DEF next
    <3> HIDE DEF k, id
    <3> QED
      BY <1>4, <3>2 DEF ClientRecords
  <2>4. /\ o \in Ops /\ o.at # "wait" /\ (\A x, s, v : RefreshGood(o, x, s, v))
        /\ OpPart(o, Clients) /\ (Locked(o) => Locked(op[p]))
        /\ (Starting(op[p]) => Starting(o) /\ o.client = op[p].client)
    BY <1>2, GivenUp
  <2> HIDE DEF k, o
  <2>5. DOMAIN op' = Procs /\ op' = [q \in DOMAIN op' |-> op'[q]] /\ op'[p] = o
        /\ \A q \in Procs \ {p} : op'[q] = op[q]
    BY <1>1, <2>2
  <2>6. \A d \in Clients : \A r \in client[d].pending : Waits(op'[r.proc], d, r)
    BY <1>5, <2>5
  <2>7. \A r \in k.pending : r.id < k.next_id /\ Waits(op'[r.proc], c, r)
    BY <1>3, <1>4, <1>5, <2>3, <2>6
  <2>8. client[c].next_id <= k.next_id /\ UNCHANGED <<stdout, asked, catalog>>
    BY <1>2, <1>4, <1>8, <2>3
  <2>9. /\ Later /\ ProcessPart' /\ ChangePart' /\ PendingPart' /\ Clients' = Clients
        /\ Alive' \subseteq Alive
    BY <1>3, <2>1, <2>3, <2>6, <2>7, <2>8, QuietClient
  <2>10. Shift(p, o)
    <3>1. \A q \in Procs \ {p} : Rests(q)
      BY <2>5 DEF Rests
    <3>2. MatchGood(o) /\ \A d \in Alive' : d \in Alive
      BY <2>4, <2>9 DEF MatchGood
    <3> QED
      BY <1>6, <1>7, <2>4, <2>5, <2>9, <3>1, <3>2 DEF Shift
  <2> QED
    BY <2>4, <2>9, <2>10, Moves
<1>9. CASE /\ op' = [op EXCEPT ![p] = [op[p] EXCEPT !.at = "wait", !.id = id]]
           /\ client' = [client EXCEPT ![c] = [client[c] EXCEPT !.next_id = id + 1,
                !.pending = client[c].pending \cup {[id |-> id, proc |-> p]}]]
           /\ asked' = [asked EXCEPT ![c] = IF client[c].child THEN asked[c] \cup {id} ELSE asked[c]]
  <2> DEFINE new == [id |-> id, proc |-> p]
             pending == client[c].pending \cup {new}
             k == [client[c] EXCEPT !.next_id = id + 1, !.pending = pending]
             o == [op[p] EXCEPT !.at = "wait", !.id = id]
             a == IF client[c].child THEN asked[c] \cup {id} ELSE asked[c]
  <2>1. /\ client' = [client EXCEPT ![c] = k] /\ op' = [op EXCEPT ![p] = o]
        /\ asked' = [asked EXCEPT ![c] = a]
    BY <1>9
  <2> HIDE DEF c
  <2>2. new \in Requests /\ new.id = id /\ new.proc = p
    BY <1>4 DEF Requests
  <2> HIDE DEF new
  <2>3. client[c].pending \subseteq Requests
    BY <1>4 DEF ClientRecords
  <2>4. pending \in SUBSET Requests
    BY <2>2, <2>3
  <2> HIDE DEF pending
  <2>5. /\ k \in ClientRecords /\ k.base = client[c].base /\ k.next_id = id + 1
        /\ k.child = client[c].child /\ k.generation = client[c].generation
        /\ k.pending = pending
    <3>1. id + 1 \in Nat
      BY <1>4
    <3> DEFINE next == id + 1
    <3> HIDE DEF next
    <3>2. next \in Nat /\ next = id + 1
          /\ k = [client[c] EXCEPT !.next_id = next, !.pending = pending]
      BY <3>1 DEF next
    <3> HIDE DEF k, id
    <3> QED
      BY <1>4, <2>4, <3>2 DEF ClientRecords
  <2>6. "wait" \in Steps
    BY DEF Steps, LockedSteps
  <2>7. /\ o \in Ops /\ o.at = "wait" /\ o.id = id /\ o.kind = op[p].kind /\ o.config = op[p].config
        /\ o.client = c /\ o.method = op[p].method /\ o.next = op[p].next /\ o.reply = NoReply
        /\ o.invalidated = op[p].invalidated
    BY <1>1, <1>3, <1>4, <2>6 DEF Ops
  <2>8. id >= 1 /\ asked[c] \subseteq 1..(id - 1)
    BY <1>3 DEF HostInv, PendingPart
  <2>9. a \in SUBSET Nat /\ a \subseteq 1..(k.next_id - 1)
    BY <1>4, <2>5, <2>8
  <2> HIDE DEF k, o, a
  <2>10. DOMAIN op' = Procs /\ op' = [q \in DOMAIN op' |-> op'[q]] /\ op'[p] = o
         /\ \A q \in Procs \ {p} : op'[q] = op[q]
    BY <1>1, <2>1, <2>7
  <2>11. \A d \in Clients : \A r \in client[d].pending : Waits(op'[r.proc], d, r)
    BY <1>5, <2>10
  <2>12. \A r \in k.pending : r.id < k.next_id /\ Waits(op'[r.proc], c, r)
    <3>1. new.id < k.next_id /\ Waits(op'[new.proc], c, new)
      BY <1>4, <2>2, <2>5, <2>7, <2>10 DEF Waits
    <3>2. \A r \in client[c].pending : r.id < k.next_id /\ Waits(op'[r.proc], c, r)
      BY <1>3, <1>4, <1>5, <2>5, <2>11
    <3> QED
      BY <2>5, <3>1, <3>2 DEF pending
  <2>13. Changed(c, k, stdout[c], a)
    <3>1. stdout' = [stdout EXCEPT ![c] = stdout[c]] /\ catalog' = catalog
      BY <1>2, <1>3, Unmoved
    <3>2. client[c].next_id <= k.next_id
      BY <1>4, <2>5
    <3>3. k.generation + Changes(stdout[c]) <= client[c].generation + Changes(stdout[c])
      BY <1>3, <2>5, SameLines
    <3>4. \A i \in DOMAIN stdout[c] : \E j \in DOMAIN stdout[c] : stdout[c][j] = stdout[c][i]
      OBVIOUS
    <3> QED
      BY <2>1, <2>5, <2>9, <2>11, <2>12, <3>1, <3>2, <3>3, <3>4 DEF Changed
  <2>14. /\ Later /\ ProcessPart' /\ ChangePart' /\ PendingPart' /\ Clients' = Clients
         /\ client'[c] = k /\ stdout'[c] = stdout[c]
         /\ Alive' = IF k.child THEN Alive ELSE Alive \ {c}
    BY <1>3, <2>5, <2>9, <2>13, SameLines, OneClient
  <2>15. Shift(p, o)
    <3>1. \A q \in Procs \ {p} : Rests(q)
      BY <2>10 DEF Rests
    <3>2. MatchGood(o) /\ \A d \in Alive' : d \in Alive
      BY <2>7, <2>14, ReplyFacts DEF MatchGood
    <3>3. OpPart(o, Clients')
      BY <1>1, <1>2, <1>3, <2>7, <2>14 DEF OpPart
    <3>4. RefreshGood(o, client'[o.client], stdout'[o.client], catalog')
      <4>1. Refreshing(o) <=> Refreshing(op[p])
        BY <1>2, <2>7 DEF Refreshing
      <4>2. Refreshing(o) => k.base + o.invalidated <= catalog'
        BY <1>1, <1>2, <2>5, <2>7, <4>1 DEF RefreshGood, c
      <4>3. \A i \in DOMAIN stdout[c] : stdout[c][i].is = "answer" => stdout[c][i].id # o.id
        BY <1>3, <1>4, <2>7, LineFacts
      <4>4. o.reply.is # "answer" /\ o.at # "publish"
        BY <2>7, ReplyFacts
      <4>5. RefreshGood(o, k, stdout[c], catalog')
        BY <4>2, <4>3, <4>4 DEF RefreshGood
      <4> QED
        BY <2>7, <2>14, <4>5
    <3>5. (Locked(o) <=> Locked(op[p])) /\ (Starting(o) <=> Starting(op[p]))
      BY <1>2, <2>7 DEF Locked, LockedSteps, Starting
    <3> QED
      BY <1>3, <1>6, <1>7, <2>7, <2>10, <3>1, <3>2, <3>3, <3>4, <3>5 DEF Shift
  <2> QED
    BY <2>7, <2>14, <2>15, Moves
<1> QED
  BY <1>8, <1>9 DEF Send

LEMMA SpawnKeeps ==
  ASSUME HostInv, NEW p \in Procs, Spawn(p)
  PROVE  HostInv'
<1> DEFINE n == Len(client) + 1
           o == FirstRequest(p, n)
<1>1. op[p].at = "spawn" /\ UNCHANGED <<store, lifecycle_lock, inner, catalog, bounds>>
  BY DEF Spawn, At
<1>2. runtime = None
  BY <1>1, Taken
<1>3. UNCHANGED <<store, lifecycle_lock, inner, bounds>> /\ catalog' = catalog
  BY <1>1
<1>4. CASE GoTo(p, "error") /\ UNCHANGED processes
  <2>1. StorePart' /\ RoutesOfLiveRuntime' /\ runtime' = runtime
    BY <1>1 DEF HostInv, TypePart, StorePart, RoutesOfLiveRuntime, inner, store, bounds
  <2>2. UNCHANGED <<processes, catalog>> /\ lifecycle_lock' = lifecycle_lock
    BY <1>3, <1>4
  <2> QED
    BY <1>1, <1>2, <1>4, <2>1, <2>2, Advances
<1>5. CASE /\ Len(client) < MaxClients /\ client' = Append(client, NewClient)
           /\ stdout' = Append(stdout, <<>>) /\ asked' = Append(asked, {})
           /\ op' = [op EXCEPT ![p] = o]
  <2>1. op \in [Procs -> Ops] /\ op[p] \in Ops /\ OpPart(op[p], Clients)
    BY DEF HostInv, TypePart, LockPart
  <2>2. op[p].kind \in LifecycleOps /\ op[p].config \in Configs
    BY <1>1, <2>1 DEF OpPart
  <2>3. /\ client \in Seq(ClientRecords) /\ stdout \in Seq(Seq(Lines)) /\ asked \in Seq(SUBSET Nat)
        /\ Len(client) \in Nat /\ Len(stdout) = Len(client) /\ Len(asked) = Len(client)
        /\ Clients = 1..Len(client) /\ n \in Nat
    BY DEF HostInv, ProcessPart, Clients
  <2>4. catalog \in Nat /\ catalog \in 0..MaxChanges
    BY McpAssumption DEF HostInv, TypePart, StorePart
  <2>5. /\ NewClient \in ClientRecords /\ NewClient.pending = {} /\ NewClient.next_id = 1
        /\ NewClient.base = catalog /\ NewClient.generation = 0
    BY <2>4 DEF NewClient, ClientRecords
  <2>6. <<>> \in Seq(Lines) /\ {} \in SUBSET Nat
    OBVIOUS
  <2> HIDE DEF o
  <2>7. /\ client' \in Seq(ClientRecords) /\ Len(client') = n
        /\ client'[n] = NewClient /\ \A d \in Clients : client'[d] = client[d]
    BY <1>5, <2>3, <2>5, AppendProperties
  <2>8. /\ stdout' \in Seq(Seq(Lines)) /\ Len(stdout') = n
        /\ stdout'[n] = <<>> /\ \A d \in Clients : stdout'[d] = stdout[d]
    BY <1>5, <2>3, <2>6, AppendProperties
  <2>9. /\ asked' \in Seq(SUBSET Nat) /\ Len(asked') = n
        /\ asked'[n] = {} /\ \A d \in Clients : asked'[d] = asked[d]
    BY <1>5, <2>3, <2>6, AppendProperties
  <2>10. ProcessPart'
    BY <1>5, <2>3, <2>7, <2>8, <2>9, McpAssumption DEF ProcessPart
  <2>11. Clients' = Clients \cup {n} /\ n \notin Clients
    BY <2>3, <2>7 DEF Clients
  <2>12. \A d \in Alive' : d \in Alive \/ d = n
    BY <2>7, <2>11 DEF Alive
  <2> HIDE DEF n
  <2>13. ChangePart'
    <3> DEFINE N(d) == client'[d].base + client'[d].generation + Changes(stdout'[d])
    <3>1. N(n) <= catalog'
      BY <1>3, <2>4, <2>5, <2>7, <2>8, ChangesOfNone
    <3>2. \A d \in Clients : N(d) <= catalog'
      BY <1>3, <2>7, <2>8 DEF HostInv, ChangePart
    <3>3. \A d \in Clients' : N(d) <= catalog'
      BY <2>11, <3>1, <3>2
    <3> QED
      BY <3>3 DEF ChangePart, Changes
  <2>14. Later
    <3>1. \A d \in Clients : LinesKept(d)
      BY <2>8 DEF LinesKept
    <3>2. \A d \in Clients : client'[d].base = client[d].base /\ client[d].next_id <= client'[d].next_id
      BY <2>7, ClientTypes DEF HostInv
    <3> QED
      BY <1>3, <2>4, <2>11, <3>1, <3>2 DEF Later
  <2>15. /\ o \in Ops /\ o.at = "send" /\ o.kind = op[p].kind /\ o.config = op[p].config
         /\ o.client = n /\ o.method = "tools/list" /\ o.next = "error" /\ o.reply = NoReply
    <3>1. "send" \in Steps
      BY DEF Steps, LockedSteps
    <3> QED
      BY <2>2, <2>3, <3>1, IdleFacts DEF o, FirstRequest, Idle, Ops
  <2>16. DOMAIN op' = Procs /\ op' = [q \in DOMAIN op' |-> op'[q]] /\ op'[p] = o
         /\ \A q \in Procs \ {p} : op'[q] = op[q]
    BY <1>5, <2>1, <2>15
  <2>17. PendingPart'
    <3>1. \A d \in Clients : \A r \in client[d].pending :
            r.id < client[d].next_id /\ Waits(op'[r.proc], d, r)
      BY <1>1, <2>16, PendingFacts DEF Waits
    <3>2. ASSUME NEW d \in Clients'
          PROVE  /\ client'[d].next_id >= 1
                 /\ asked'[d] \subseteq 1..(client'[d].next_id - 1)
                 /\ \A r \in client'[d].pending :
                      r.id < client'[d].next_id /\ Waits(op'[r.proc], d, r)
                 /\ \A i \in DOMAIN stdout'[d] : stdout'[d][i].is = "answer" =>
                      /\ stdout'[d][i].client = d /\ stdout'[d][i].id < client'[d].next_id
      <4>1. CASE d = n
        BY <2>5, <2>7, <2>8, <2>9, <4>1
      <4>2. CASE d \in Clients
        BY <2>7, <2>8, <2>9, <3>1, <4>2 DEF HostInv, PendingPart
      <4> QED
        BY <2>11, <3>2, <4>1, <4>2
    <3> QED
      BY <3>2 DEF PendingPart, Waits
  <2>18. Shift(p, o)
    <3>1. \A q \in Procs \ {p} : Rests(q)
      BY <2>16 DEF Rests
    <3>2. OpPart(o, Clients')
      BY <2>2, <2>11, <2>15 DEF OpPart
    <3>3. RefreshGood(o, client'[o.client], stdout'[o.client], catalog') /\ MatchGood(o)
      BY <2>15 DEF RefreshGood, Refreshing, MatchGood
    <3>4. Starting(o) /\ Locked(op[p]) /\ ~Starting(op[p])
      BY <1>1, <2>2, <2>15 DEF Starting, Locked, LockedSteps
    <3> QED
      BY <1>2, <1>3, <2>12, <2>15, <2>16, <3>1, <3>2, <3>3, <3>4 DEF Shift
  <2> QED
    BY <2>10, <2>13, <2>14, <2>15, <2>17, <2>18, Moves
<1> QED
  BY <1>4, <1>5 DEF Spawn

-----------------------------------------------------------------------------
(* The reader of a client                                                    *)

LEMMA ReadEndKeeps ==
  ASSUME HostInv, NEW c \in Clients, ReadEnd(c)
  PROVE  HostInv'
<1> DEFINE k == [client[c] EXCEPT !.reader = FALSE, !.pending = {}]
<1>1. /\ client' = [client EXCEPT ![c] = k] /\ op' = Failed(c, op)
      /\ UNCHANGED <<store, lifecycle_lock, inner, stdout, asked, catalog, bounds>>
  BY DEF ReadEnd
<1>2. op \in [Procs -> Ops]
  BY DEF HostInv, TypePart
<1>3. client[c] \in ClientRecords /\ client[c].next_id \in Nat
  BY SameLines
<1>4. /\ k \in ClientRecords /\ k.base = client[c].base /\ k.next_id = client[c].next_id
      /\ k.child = client[c].child /\ k.generation = client[c].generation /\ k.pending = {}
  BY <1>3 DEF ClientRecords
<1> HIDE DEF k
<1>5. /\ DOMAIN op' = Procs /\ op' = [q \in DOMAIN op' |-> op'[q]]
      /\ \A q \in Procs : Rests(q)
      /\ \A d \in Clients \ {c} : \A r \in client[d].pending : op'[r.proc] = op[r.proc]
  BY <1>1, <1>2, FailedTells
<1>6. \A d \in Clients \ {c} : \A r \in client[d].pending : Waits(op'[r.proc], d, r)
  BY <1>5, PendingFacts
<1>7. client[c].next_id <= k.next_id /\ UNCHANGED <<stdout, asked, catalog>>
  BY <1>1, <1>3, <1>4
<1>8. /\ Later /\ ProcessPart' /\ ChangePart' /\ PendingPart' /\ Alive' \subseteq Alive
  BY <1>1, <1>4, <1>6, <1>7, QuietClient
<1>9. /\ UNCHANGED <<store, lifecycle_lock, inner, begun>>
      /\ faults' \in 0..MaxFaults /\ faults <= faults'
  BY <1>1, McpAssumption DEF bounds, HostInv, TypePart, StorePart
<1> QED
  BY <1>5, <1>8, <1>9, AllRest

LEMMA ReadLineKeeps ==
  ASSUME HostInv, NEW c \in Clients, ReadLine(c)
  PROVE  HostInv'
<1> DEFINE s == Tail(stdout[c])
           line == Head(stdout[c])
<1>1. /\ stdout[c] # <<>> /\ UNCHANGED <<store, lifecycle_lock, inner, asked, catalog, bounds>>
  BY DEF ReadLine
<1>2. /\ op \in [Procs -> Ops] /\ client \in Seq(ClientRecords) /\ stdout \in Seq(Seq(Lines))
      /\ c \in DOMAIN client /\ c \in DOMAIN stdout
  BY ClientTypes DEF HostInv, TypePart, ProcessPart
<1>3. /\ client[c] \in ClientRecords /\ stdout[c] \in Seq(Lines) /\ asked[c] \in SUBSET Nat
      /\ asked[c] \subseteq 1..(client[c].next_id - 1)
      /\ client[c].next_id \in Nat /\ client[c].generation \in Nat /\ Changes(stdout[c]) \in Nat
  BY SameLines
<1>4. stdout' = [stdout EXCEPT ![c] = s] /\ asked' = [asked EXCEPT ![c] = asked[c]]
  <2>1. stdout' = [stdout EXCEPT ![c] = s]
    BY <1>2 DEF ReadLine
  <2> QED
    BY <1>1, <2>1, Unmoved
<1>5. /\ line = stdout[c][1] /\ 1 \in DOMAIN stdout[c] /\ s \in Seq(Lines)
      /\ \A i \in DOMAIN s : \E j \in DOMAIN stdout[c] : stdout[c][j] = s[i]
      /\ Changes(s) + (IF line.is = "list_changed" THEN 1 ELSE 0) <= Changes(stdout[c])
  BY <1>1, <1>3, ChangesOfTail
<1>6. Changes(s) \in Nat /\ line \in Lines
  BY <1>1, <1>3, <1>5, ChangesIsNat, HeadTailProperties
<1>7. /\ UNCHANGED <<store, lifecycle_lock, inner, begun>>
      /\ faults' \in 0..MaxFaults /\ faults <= faults' /\ catalog' = catalog
  BY <1>1, McpAssumption DEF bounds, HostInv, TypePart, StorePart
<1> HIDE DEF s
<1>8. ASSUME NEW k \in ClientRecords, client' = [client EXCEPT ![c] = k],
             k.base = client[c].base, k.next_id = client[c].next_id, k.child = client[c].child,
             \/ k.generation = client[c].generation
             \/ line.is = "list_changed" /\ k.generation = client[c].generation + 1,
             \A r \in k.pending : r.id < k.next_id /\ Waits(op'[r.proc], c, r),
             \A d \in Clients \ {c} : \A r \in client[d].pending : Waits(op'[r.proc], d, r),
             DOMAIN op' = Procs, op' = [q \in DOMAIN op' |-> op'[q]], \A q \in Procs : Rests(q)
      PROVE  HostInv'
  <2>1. k.generation + Changes(s) <= client[c].generation + Changes(stdout[c])
    BY <1>3, <1>5, <1>6, <1>8
  <2>2. client[c].next_id <= k.next_id
    BY <1>3, <1>8
  <2>3. Changed(c, k, s, asked[c])
    BY <1>3, <1>4, <1>5, <1>7, <1>8, <2>1, <2>2 DEF Changed
  <2>4. /\ Later /\ ProcessPart' /\ ChangePart' /\ PendingPart' /\ Alive' \subseteq Alive
    BY <1>3, <1>5, <1>8, <2>3, OneClient
  <2> QED
    BY <1>7, <1>8, <2>4, AllRest
<1>9. CASE line.is = "answer"
  <2> DEFINE found == Addressee(c, line.id)
             rest == client[c].pending \ found
             k == [client[c] EXCEPT !.pending = rest]
  <2>1. client' = [client EXCEPT ![c] = k]
    BY <1>2, <1>9 DEF ReadLine
  <2>2. op' = [q \in Procs |-> IF \E r \in found : r.proc = q
                               THEN [op[q] EXCEPT !.reply = line] ELSE op[q]]
    BY <1>9 DEF ReadLine
  <2> HIDE DEF line
  <2>3. rest \in SUBSET Requests
    BY <1>3 DEF ClientRecords
  <2>4. \A r \in client[c].pending : r.id < client[c].next_id /\ Waits(op[r.proc], c, r)
                                     /\ r.proc \in Procs
    BY PendingFacts
  <2>5. /\ \A r \in found : r \in client[c].pending /\ r.id = line.id
        /\ \A r \in rest : r \in client[c].pending /\ r.id # line.id
    BY DEF Addressee
  <2> HIDE DEF found, rest
  <2>6. /\ k \in ClientRecords /\ k.base = client[c].base /\ k.next_id = client[c].next_id
        /\ k.child = client[c].child /\ k.generation = client[c].generation /\ k.pending = rest
    BY <1>3, <2>3 DEF ClientRecords
  <2>7. \A r \in found : op[r.proc].at = "wait" /\ op[r.proc].client = c /\ op[r.proc].id = line.id
    BY <2>4, <2>5 DEF Waits
  <2>8. DOMAIN op' = Procs /\ op' = [q \in DOMAIN op' |-> op'[q]]
    BY <2>2
  <2>9. line \in Replies /\ line \in Answers
    BY <1>6, <1>9, ReplyFacts
  <2>10. ASSUME NEW q \in Procs
         PROVE  Rests(q)
    <3>1. CASE \E r \in found : r.proc = q
      <4>1. op[q].at = "wait" /\ op[q].client = c /\ op[q].id = line.id
        BY <2>7, <3>1
      <4>2. op'[q] = [op[q] EXCEPT !.reply = line]
        BY <2>2, <3>1
      <4>3. Told(q, line)
        BY <1>5, <1>9, <4>1, <4>2 DEF Told
      <4> QED
        BY <2>9, <4>3 DEF Rests
    <3>2. CASE ~ \E r \in found : r.proc = q
      BY <2>2, <3>2 DEF Rests
    <3> QED
      BY <3>1, <3>2
  <2>11. \A r \in rest : r.id < client[c].next_id /\ Waits(op'[r.proc], c, r)
    BY <2>2, <2>4, <2>5, <2>7 DEF Waits
  <2>12. \A d \in Clients \ {c} : \A r \in client[d].pending : Waits(op'[r.proc], d, r)
    <3>1. \A d \in Clients \ {c} : \A r \in client[d].pending :
            r.proc \in Procs /\ Waits(op[r.proc], d, r)
      BY PendingFacts
    <3> QED
      BY <2>2, <2>7, <3>1 DEF Waits
  <2> HIDE DEF k
  <2>13. \A r \in k.pending : r.id < k.next_id /\ Waits(op'[r.proc], c, r)
    BY <2>6, <2>11
  <2>14. \A q \in Procs : Rests(q)
    BY <2>10
  <2> QED
    BY <1>8, <2>1, <2>6, <2>8, <2>12, <2>13, <2>14
<1>10. CASE line.is = "list_changed"
  <2> DEFINE k == [client[c] EXCEPT !.generation = client[c].generation + 1]
  <2>1. client' = [client EXCEPT ![c] = k] /\ op' = op
    BY <1>2, <1>10 DEF ReadLine
  <2>2. client[c].generation + 1 \in Nat
    BY <1>3
  <2> DEFINE g == client[c].generation + 1
  <2>3. k = [client[c] EXCEPT !.generation = g]
    OBVIOUS
  <2> HIDE DEF g
  <2>4. g \in Nat
    BY <2>2 DEF g
  <2> HIDE DEF k
  <2>5. /\ k \in ClientRecords /\ k.base = client[c].base /\ k.next_id = client[c].next_id
        /\ k.child = client[c].child /\ k.generation = g /\ k.pending = client[c].pending
    BY <1>3, <2>3, <2>4 DEF ClientRecords
  <2>6. DOMAIN op' = Procs /\ op' = [q \in DOMAIN op' |-> op'[q]]
    BY <1>2, <2>1
  <2>7. \A q \in Procs : Rests(q)
    BY <2>1 DEF Rests
  <2>8. \A d \in Clients : \A r \in client[d].pending :
          r.id < client[d].next_id /\ Waits(op'[r.proc], d, r)
    BY <2>1, PendingFacts
  <2>9. k.generation = client[c].generation + 1
    BY <2>5 DEF g
  <2> QED
    BY <1>8, <1>10, <2>1, <2>5, <2>6, <2>7, <2>8, <2>9
<1>11. CASE line.is = "garbage"
  <2> DEFINE k == [client[c] EXCEPT !.pending = {}]
  <2>1. client' = [client EXCEPT ![c] = k] /\ op' = Failed(c, op)
    BY <1>2, <1>11 DEF ReadLine
  <2>2. /\ k \in ClientRecords /\ k.base = client[c].base /\ k.next_id = client[c].next_id
        /\ k.child = client[c].child /\ k.generation = client[c].generation /\ k.pending = {}
    BY <1>3 DEF ClientRecords
  <2> HIDE DEF k
  <2>3. /\ DOMAIN op' = Procs /\ op' = [q \in DOMAIN op' |-> op'[q]]
        /\ \A q \in Procs : Rests(q)
        /\ \A d \in Clients \ {c} : \A r \in client[d].pending : op'[r.proc] = op[r.proc]
    BY <1>2, <2>1, FailedTells
  <2>4. \A d \in Clients \ {c} : \A r \in client[d].pending : Waits(op'[r.proc], d, r)
    BY <2>3, PendingFacts
  <2> QED
    BY <1>8, <2>1, <2>2, <2>3, <2>4
<1>12. line.is \in {"answer", "list_changed", "garbage"}
  BY <1>6 DEF Lines, Answers
<1> QED
  BY <1>9, <1>10, <1>11, <1>12

-----------------------------------------------------------------------------
(* The server                                                                *)

(* The tasks do not notice what a process does.                              *)
LEMMA Unseen ==
  ASSUME HostInv, op' = op
  PROVE  /\ DOMAIN op' = Procs /\ op' = [q \in DOMAIN op' |-> op'[q]]
         /\ \A q \in Procs : Rests(q)
         /\ \A d \in Clients : \A r \in client[d].pending :
              r.id < client[d].next_id /\ Waits(op'[r.proc], d, r)
<1>1. op \in [Procs -> Ops]
  BY DEF HostInv, TypePart
<1> QED
  BY <1>1, PendingFacts DEF Rests

(* One process writes a line, or exits.                                      *)
LEMMA ServerMoves ==
  ASSUME HostInv, NEW c \in Clients, NEW k \in ClientRecords, NEW s \in Seq(Lines),
         NEW a \in SUBSET Nat, op' = op,
         client' = [client EXCEPT ![c] = k], stdout' = [stdout EXCEPT ![c] = s],
         asked' = [asked EXCEPT ![c] = a], catalog' = catalog,
         k.base = client[c].base, k.next_id = client[c].next_id, k.generation = client[c].generation,
         k.pending = client[c].pending, k.child => client[c].child, a \subseteq asked[c],
         Changes(s) = Changes(stdout[c]),
         \A i \in DOMAIN s : s[i].is = "answer" =>
           \/ \E j \in DOMAIN stdout[c] : stdout[c][j] = s[i]
           \/ s[i].version = catalog /\ s[i].client = c /\ s[i].id \in asked[c],
         UNCHANGED <<store, lifecycle_lock, inner, begun>>,
         faults' \in 0..MaxFaults, faults <= faults'
  PROVE  HostInv'
<1>1. /\ DOMAIN op' = Procs /\ op' = [q \in DOMAIN op' |-> op'[q]]
      /\ \A q \in Procs : Rests(q)
      /\ \A d \in Clients : \A r \in client[d].pending :
           r.id < client[d].next_id /\ Waits(op'[r.proc], d, r)
  BY Unseen
<1>2. /\ client[c].next_id <= k.next_id /\ a \subseteq 1..(k.next_id - 1)
      /\ k.generation + Changes(s) <= client[c].generation + Changes(stdout[c])
  BY SameLines
<1>3. \A r \in k.pending : r.id < k.next_id /\ Waits(op'[r.proc], c, r)
  BY <1>1
<1>4. Changed(c, k, s, a)
  BY <1>1, <1>2, <1>3 DEF Changed
<1>5. /\ Later /\ ProcessPart' /\ ChangePart' /\ PendingPart' /\ Alive' \subseteq Alive
  BY <1>4, OneClient
<1> QED
  BY <1>1, <1>5, AllRest

LEMMA SameClient ==
  ASSUME HostInv, NEW c \in Clients
  PROVE  client = [client EXCEPT ![c] = client[c]]
<1>1. client \in Seq(ClientRecords)
  BY DEF HostInv, ProcessPart
<1> QED
  BY <1>1

(* A line l that announces no change is appended.                            *)
LEMMA LineAppended ==
  ASSUME HostInv, NEW c \in Clients, NEW l \in Lines, l.is # "list_changed",
         l.is = "answer" => l.version = catalog /\ l.client = c /\ l.id \in asked[c]
  PROVE  /\ Append(stdout[c], l) \in Seq(Lines)
         /\ Changes(Append(stdout[c], l)) = Changes(stdout[c])
         /\ \A i \in DOMAIN Append(stdout[c], l) : Append(stdout[c], l)[i].is = "answer" =>
              \/ \E j \in DOMAIN stdout[c] : stdout[c][j] = Append(stdout[c], l)[i]
              \/ /\ Append(stdout[c], l)[i].version = catalog
                 /\ Append(stdout[c], l)[i].client = c /\ Append(stdout[c], l)[i].id \in asked[c]
<1> DEFINE s == Append(stdout[c], l)
           n == Len(stdout[c])
<1>1. stdout[c] \in Seq(Lines)
  BY SameLines
<1>2. s \in Seq(Lines) /\ Changes(s) = Changes(stdout[c])
  BY <1>1, ChangesOfAppend
<1>3. /\ n \in Nat /\ DOMAIN stdout[c] = 1..n /\ DOMAIN s = 1..(n + 1)
      /\ \A i \in 1..n : s[i] = stdout[c][i]
      /\ s[n + 1] = l
  BY <1>1, AppendProperties
<1> HIDE DEF s, n
<1>4. \A i \in DOMAIN s : s[i] = l \/ \E j \in DOMAIN stdout[c] : stdout[c][j] = s[i]
  BY <1>3
<1>5. \A i \in DOMAIN s : s[i].is = "answer" =>
        \/ \E j \in DOMAIN stdout[c] : stdout[c][j] = s[i]
        \/ s[i].version = catalog /\ s[i].client = c /\ s[i].id \in asked[c]
  BY <1>4
<1> QED
  BY <1>2, <1>5 DEF s

LEMMA ServerAnswersKeeps ==
  ASSUME HostInv, NEW c \in Clients, ServerAnswers(c)
  PROVE  HostInv'
<1>1. PICK id \in asked[c] :
        /\ asked' = [asked EXCEPT ![c] = asked[c] \ {id}]
        /\ stdout' = [stdout EXCEPT ![c] = Append(stdout[c],
             [is |-> "answer", client |-> c, id |-> id, version |-> catalog])]
  <2>1. c \in DOMAIN asked /\ c \in DOMAIN stdout
    BY ClientTypes DEF HostInv
  <2> QED
    BY <2>1 DEF ServerAnswers
<1> DEFINE l == [is |-> "answer", client |-> c, id |-> id, version |-> catalog]
           a == asked[c] \ {id}
<1>2. UNCHANGED <<store, lifecycle_lock, inner, client, catalog, op, bounds>>
  BY DEF ServerAnswers
<1>3. /\ client[c] \in ClientRecords /\ asked[c] \in SUBSET Nat /\ c \in Nat
      /\ catalog \in 0..MaxChanges
  BY SameLines, ClientTypes DEF HostInv, TypePart, StorePart
<1>4. l \in Answers /\ l.is = "answer" /\ l.version = catalog /\ l.client = c /\ l.id \in asked[c]
  BY <1>3 DEF Answers
<1>5. l \in Lines
  BY <1>4, ReplyFacts
<1> HIDE DEF l
<1> DEFINE s == Append(stdout[c], l)
<1>6. /\ s \in Seq(Lines) /\ Changes(s) = Changes(stdout[c])
      /\ \A i \in DOMAIN s : s[i].is = "answer" =>
           \/ \E j \in DOMAIN stdout[c] : stdout[c][j] = s[i]
           \/ s[i].version = catalog /\ s[i].client = c /\ s[i].id \in asked[c]
  BY <1>4, <1>5, LineAppended
<1>7. stdout' = [stdout EXCEPT ![c] = s] /\ asked' = [asked EXCEPT ![c] = a]
  BY <1>1 DEF l
<1> HIDE DEF s
<1>8. a \in SUBSET Nat /\ a \subseteq asked[c]
  BY <1>3
<1> HIDE DEF a
<1>9. client' = [client EXCEPT ![c] = client[c]] /\ op' = op /\ catalog' = catalog
  BY <1>2, SameClient
<1>10. /\ UNCHANGED <<store, lifecycle_lock, inner, begun>>
       /\ faults' \in 0..MaxFaults /\ faults <= faults'
  BY <1>2, McpAssumption DEF bounds, HostInv, TypePart, StorePart
<1> QED
  BY <1>3, <1>6, <1>7, <1>8, <1>9, <1>10, ServerMoves

LEMMA ServerWritesGarbageKeeps ==
  ASSUME HostInv, NEW c \in Clients, ServerWritesGarbage(c)
  PROVE  HostInv'
<1> DEFINE l == [is |-> "garbage"]
<1>1. c \in DOMAIN asked /\ c \in DOMAIN stdout
  BY ClientTypes DEF HostInv
<1>2. PICK id \in asked[c] : asked' = [asked EXCEPT ![c] = asked[c] \ {id}]
  BY <1>1 DEF ServerWritesGarbage
<1> DEFINE a == asked[c] \ {id}
<1>3. UNCHANGED <<store, lifecycle_lock, inner, client, catalog, op, begun>>
  BY DEF ServerWritesGarbage
<1>4. client[c] \in ClientRecords /\ asked[c] \in SUBSET Nat
  BY SameLines
<1>5. l \in Lines /\ l.is = "garbage"
  BY DEF Lines
<1> HIDE DEF l
<1> DEFINE s == Append(stdout[c], l)
<1>6. /\ s \in Seq(Lines) /\ Changes(s) = Changes(stdout[c])
      /\ \A i \in DOMAIN s : s[i].is = "answer" =>
           \/ \E j \in DOMAIN stdout[c] : stdout[c][j] = s[i]
           \/ s[i].version = catalog /\ s[i].client = c /\ s[i].id \in asked[c]
  BY <1>5, LineAppended
<1>7. stdout' = [stdout EXCEPT ![c] = s] /\ asked' = [asked EXCEPT ![c] = a]
  BY <1>1, <1>2 DEF ServerWritesGarbage, l
<1> HIDE DEF s
<1>8. a \in SUBSET Nat /\ a \subseteq asked[c]
  BY <1>4
<1> HIDE DEF a
<1>9. client' = [client EXCEPT ![c] = client[c]] /\ op' = op /\ catalog' = catalog
  BY <1>3, SameClient
<1>10. faults < MaxFaults /\ faults' = faults + 1 /\ faults \in 0..MaxFaults
  BY DEF ServerWritesGarbage, HostInv, TypePart, StorePart
<1>11. /\ UNCHANGED <<store, lifecycle_lock, inner, begun>>
       /\ faults' \in 0..MaxFaults /\ faults <= faults'
  BY <1>3, <1>10, McpAssumption
<1> QED
  BY <1>4, <1>6, <1>7, <1>8, <1>9, <1>11, ServerMoves

LEMMA ServerExitsKeeps ==
  ASSUME HostInv, NEW c \in Clients, ServerExits(c)
  PROVE  HostInv'
<1> DEFINE k == [client[c] EXCEPT !.child = FALSE]
<1>1. c \in DOMAIN client /\ client \in Seq(ClientRecords)
  BY ClientTypes DEF HostInv, ProcessPart
<1>2. client' = [client EXCEPT ![c] = k] /\ asked' = [asked EXCEPT ![c] = {}]
  BY <1>1 DEF ServerExits
<1>3. UNCHANGED <<store, lifecycle_lock, inner, stdout, catalog, op, begun>>
  BY DEF ServerExits
<1>4. client[c] \in ClientRecords /\ stdout[c] \in Seq(Lines)
  BY SameLines
<1>5. /\ k \in ClientRecords /\ k.base = client[c].base /\ k.next_id = client[c].next_id
      /\ k.generation = client[c].generation /\ k.pending = client[c].pending /\ ~k.child
  BY <1>4 DEF ClientRecords
<1> HIDE DEF k
<1>6. stdout' = [stdout EXCEPT ![c] = stdout[c]]
  BY <1>3, Unmoved
<1>7. faults < MaxFaults /\ faults' = faults + 1 /\ faults \in 0..MaxFaults
  BY DEF ServerExits, HostInv, TypePart, StorePart
<1>8. /\ UNCHANGED <<store, lifecycle_lock, inner, begun>> /\ op' = op /\ catalog' = catalog
      /\ faults' \in 0..MaxFaults /\ faults <= faults'
  BY <1>3, <1>7, McpAssumption
<1>9. {} \in SUBSET Nat /\ {} \subseteq asked[c]
      /\ \A i \in DOMAIN stdout[c] : \E j \in DOMAIN stdout[c] : stdout[c][j] = stdout[c][i]
  OBVIOUS
<1> QED
  BY <1>2, <1>4, <1>5, <1>6, <1>8, <1>9, ServerMoves

LEMMA ServerChangesToolsKeeps ==
  ASSUME HostInv, ServerChangesTools
  PROVE  HostInv'
<1> DEFINE l == [is |-> "list_changed"]
<1>1. /\ catalog < MaxChanges /\ catalog' = catalog + 1
      /\ stdout' = [c \in Clients |-> IF client[c].child THEN Append(stdout[c], l) ELSE stdout[c]]
      /\ UNCHANGED <<store, lifecycle_lock, inner, client, asked, op, bounds>>
  BY DEF ServerChangesTools
<1>2. /\ client' = client /\ asked' = asked /\ op' = op /\ Clients' = Clients /\ Alive' = Alive
  BY <1>1 DEF Clients, Alive
<1>3. /\ Len(client) \in Nat /\ Clients = 1..Len(client) /\ Len(asked) = Len(client)
      /\ Len(client) <= MaxClients
      /\ client \in Seq(ClientRecords) /\ asked \in Seq(SUBSET Nat)
  BY DEF HostInv, ProcessPart, Clients
<1>4. catalog \in 0..MaxChanges /\ catalog \in Nat /\ catalog' \in 0..MaxChanges /\ catalog' \in Nat
  BY <1>1, McpAssumption DEF HostInv, TypePart, StorePart
<1>5. l \in Lines /\ l.is = "list_changed"
  BY DEF Lines
<1>6. \A c \in Clients : /\ stdout[c] \in Seq(Lines) /\ Changes(stdout[c]) \in Nat
                         /\ client[c].next_id \in Nat /\ client[c].generation \in Nat
                         /\ client[c].base \in Nat
  BY SameLines, Counted, McpAssumption
<1> HIDE DEF l
<1>7. \A c \in Clients :
        /\ stdout'[c] \in Seq(Lines)
        /\ Changes(stdout'[c]) \in Nat /\ Changes(stdout'[c]) <= Changes(stdout[c]) + 1
        /\ \A i \in DOMAIN stdout'[c] : \/ stdout'[c][i].is # "answer"
                                        \/ \E j \in DOMAIN stdout[c] : stdout[c][j] = stdout'[c][i]
  <2> SUFFICES ASSUME NEW c \in Clients
               PROVE  /\ stdout'[c] \in Seq(Lines)
                      /\ Changes(stdout'[c]) \in Nat /\ Changes(stdout'[c]) <= Changes(stdout[c]) + 1
                      /\ \A i \in DOMAIN stdout'[c] :
                           \/ stdout'[c][i].is # "answer"
                           \/ \E j \in DOMAIN stdout[c] : stdout[c][j] = stdout'[c][i]
    OBVIOUS
  <2>1. CASE stdout'[c] = stdout[c]
    BY <1>6, <2>1
  <2>2. CASE stdout'[c] = Append(stdout[c], l)
    <3> DEFINE s == Append(stdout[c], l)
               n == Len(stdout[c])
    <3>1. s \in Seq(Lines) /\ Changes(s) = Changes(stdout[c]) + 1
      BY <1>5, <1>6, ChangesOfAppend
    <3>2. /\ n \in Nat /\ DOMAIN stdout[c] = 1..n /\ DOMAIN s = 1..(n + 1)
          /\ \A i \in 1..n : s[i] = stdout[c][i]
          /\ s[n + 1] = l
      BY <1>5, <1>6, AppendProperties
    <3> HIDE DEF s, n
    <3>3. \A i \in DOMAIN s : s[i].is # "answer" \/ \E j \in DOMAIN stdout[c] : stdout[c][j] = s[i]
      BY <1>5, <3>2
    <3>4. stdout'[c] = s
      BY <2>2 DEF s
    <3>5. Changes(s) \in Nat /\ Changes(s) <= Changes(stdout[c]) + 1
      BY <1>6, <3>1
    <3> QED
      BY <3>1, <3>3, <3>4, <3>5
  <2> QED
    BY <1>1, <2>1, <2>2
<1>8. ProcessPart'
  <2>1. stdout' \in [1..Len(client) -> Seq(Lines)]
    BY <1>1, <1>3, <1>7
  <2>2. stdout' \in Seq(Seq(Lines)) /\ Len(stdout') = Len(client)
    BY <1>3, <2>1
  <2> QED
    BY <1>2, <1>3, <2>2 DEF ProcessPart
<1>9. ChangePart'
  <2> DEFINE N(c) == client'[c].base + client'[c].generation + Changes(stdout'[c])
  <2>1. \A c \in Clients : N(c) <= catalog'
    BY <1>1, <1>2, <1>4, <1>6, <1>7 DEF HostInv, ChangePart
  <2> QED
    BY <1>2, <2>1 DEF ChangePart, Changes
<1>10. Later
  <2>1. \A c \in Clients : LinesKept(c)
    BY <1>7 DEF LinesKept
  <2>2. \A c \in Clients : client'[c].base = client[c].base /\ client[c].next_id <= client'[c].next_id
    BY <1>2, <1>6
  <2>3. catalog <= catalog'
    BY <1>1, <1>4
  <2> QED
    BY <1>2, <1>4, <2>1, <2>2, <2>3 DEF Later
<1>11. /\ DOMAIN op' = Procs /\ op' = [q \in DOMAIN op' |-> op'[q]]
       /\ \A q \in Procs : Rests(q)
  BY <1>2, Unseen
<1>12. PendingPart'
  <2>1. \A c \in Clients : \A i \in DOMAIN stdout'[c] : stdout'[c][i].is = "answer" =>
          stdout'[c][i].client = c /\ stdout'[c][i].id < client[c].next_id
    BY <1>7, LineFacts
  <2> QED
    BY <1>2, <2>1 DEF HostInv, PendingPart
<1>13. /\ UNCHANGED <<store, lifecycle_lock, inner, begun>>
       /\ faults' \in 0..MaxFaults /\ faults <= faults'
  BY <1>1, McpAssumption DEF bounds, HostInv, TypePart, StorePart
<1>14. Alive' \subseteq Alive
  BY <1>2
<1> QED
  BY <1>8, <1>9, <1>10, <1>11, <1>12, <1>13, <1>14, AllRest

-----------------------------------------------------------------------------
(* The invariant holds                                                       *)

LEMMA HostInit == Init => HostInv
<1> SUFFICES ASSUME Init PROVE HostInv
  OBVIOUS
<1>1. op = [p \in Procs |-> Idle] /\ client = <<>> /\ stdout = <<>> /\ asked = <<>> /\ runtime = None
  BY DEF Init
<1>2. Clients = {} /\ Alive = {}
  BY <1>1 DEF Clients, Alive
<1>3. \A p \in Procs : op[p] = Idle
  BY <1>1
<1>4. TypePart
  <2>1. [updated_at |-> 0, enabled |-> TRUE] \in Configs
    BY McpAssumption DEF Configs
  <2>2. row \in Configs /\ row.updated_at <= faults
    BY <2>1 DEF Init
  <2>3. /\ 0 \in 0..MaxChanges /\ 0 \in 0..MaxOps /\ 0 \in 0..MaxFaults
    BY McpAssumption
  <2>4. op \in [Procs -> Ops]
    BY <1>1, IdleFacts
  <2> QED
    BY <2>2, <2>3, <2>4 DEF Init, TypePart, StorePart
<1>5. ProcessPart
  BY <1>1, McpAssumption DEF ProcessPart
<1>6. LockPart
  BY <1>3, IdleIsGood DEF LockPart
<1>7. LifePart
  BY <1>1, <1>2, <1>3, IdleIsGood DEF LifePart
<1>8. RoutesOfLiveRuntime
  BY DEF Init, RoutesOfLiveRuntime
<1>9. ChangePart /\ PendingPart
  BY <1>2 DEF ChangePart, PendingPart
<1>10. RequestPart
  BY <1>3, IdleIsGood DEF RequestPart, MatchGood
<1> QED
  BY <1>4, <1>5, <1>6, <1>7, <1>8, <1>9, <1>10 DEF HostInv

LEMMA HostNext == HostInv /\ [Next]_vars => HostInv'
<1> SUFFICES ASSUME HostInv, [Next]_vars PROVE HostInv'
  OBVIOUS
<1>1. CASE UNCHANGED vars
  <2>1. /\ UNCHANGED <<row, durable, lifecycle_lock, runtime, tool_routes, persisted_tools, status>>
        /\ UNCHANGED <<client, stdout, asked, catalog, op, begun, faults>>
    BY <1>1 DEF vars, store, inner, processes, bounds
  <2>2. Clients' = Clients /\ Alive' = Alive
    BY <2>1 DEF Clients, Alive
  <2>3. TypePart' /\ ProcessPart'
    BY <2>1 DEF HostInv, TypePart, StorePart, ProcessPart
  <2>4. LockPart' /\ LifePart' /\ RoutesOfLiveRuntime'
    BY <2>1, <2>2 DEF HostInv, LockPart, LifePart, RoutesOfLiveRuntime
  <2>5. ChangePart' /\ PendingPart' /\ RequestPart'
    BY <2>1, <2>2 DEF HostInv, ChangePart, Changes, PendingPart, RequestPart
  <2> QED
    BY <2>3, <2>4, <2>5 DEF HostInv
<1>2. ASSUME NEW p \in Procs, BeginLifecycle(p) \/ Configure(p) \/ BeginUse(p) \/ Step(p)
      PROVE  HostInv'
  <2>1. CASE BeginLifecycle(p) \/ Configure(p) \/ BeginUse(p)
    BY <2>1, BeginLifecycleKeeps, ConfigureKeeps, BeginUseKeeps
  <2>2. CASE Step(p)
    BY <2>2, LockKeeps, TakeRuntimeKeeps, KillKeeps, DrainKeeps, ForgetKeeps, DeleteRowKeeps,
       AnnounceKeeps, SpawnKeeps, SetErrorStatusKeeps, InstallReadyClientKeeps,
       CompareGenerationKeeps, PublishRefreshKeeps, PickClientKeeps, SendKeeps, ReceiveKeeps,
       TimeoutKeeps, ReturnKeeps DEF Step
  <2> QED
    BY <1>2, <2>1, <2>2
<1>3. ASSUME NEW c \in Clients, \/ ReadLine(c) \/ ReadEnd(c) \/ ServerAnswers(c)
                                \/ ServerWritesGarbage(c) \/ ServerExits(c)
      PROVE  HostInv'
  BY <1>3, ReadLineKeeps, ReadEndKeeps, ServerAnswersKeeps, ServerWritesGarbageKeeps,
     ServerExitsKeeps
<1>4. CASE ServerChangesTools
  BY <1>4, ServerChangesToolsKeeps
<1> QED
  BY <1>1, <1>2, <1>3, <1>4 DEF Next

LEMMA HostInvariant == Spec => []HostInv
BY HostInit, HostNext, PTL DEF Spec

-----------------------------------------------------------------------------
(* What follows                                                              *)

LEMMA HostIsTyped == HostInv => TypeOK
<1> SUFFICES ASSUME HostInv PROVE TypeOK
  OBVIOUS
<1>1. TypePart /\ StorePart /\ ProcessPart /\ LockPart /\ LifePart
  BY DEF HostInv, TypePart
<1>2. \/ runtime = None
      \/ /\ runtime.config \in Configs /\ runtime.client \in Clients
         /\ runtime.tools \in Tools /\ runtime.generation \in 0..MaxChanges
  BY <1>1 DEF StorePart, LifePart, Runtimes
<1>3. \A c \in Clients :
        /\ client[c].base \in 0..MaxChanges /\ client[c].generation \in 0..MaxChanges
        /\ \A r \in client[c].pending : r.proc \in Procs /\ r.id < client[c].next_id
        /\ asked[c] \subseteq 1..client[c].next_id - 1
  BY Counted, PendingFacts, SameLines
<1>4. \A p \in Procs :
        op[p].at \in LockedSteps /\ op[p].kind \in LifecycleOps => lifecycle_lock = p
  BY <1>1 DEF LockPart, Locked
<1> QED
  BY <1>1, <1>2, <1>3, <1>4 DEF TypeOK, StorePart, ProcessPart

LEMMA HostHasOneProcess == HostInv => OneLiveProcess
<1> SUFFICES ASSUME HostInv PROVE OneLiveProcess
  OBVIOUS
<1>1. \A p \in Procs : Starting(op[p]) => runtime = None /\ lifecycle_lock = p
  BY DEF HostInv, LockPart, LifePart, Locked, LockedSteps, Starting
<1>2. \A c, d \in Alive : c = d
  <2> SUFFICES ASSUME NEW c \in Alive, NEW d \in Alive PROVE c = d
    OBVIOUS
  <2>1. CASE runtime # None
    BY <1>1, <2>1 DEF HostInv, LifePart
  <2>2. CASE runtime = None
    <3>1. PICK p \in Procs : Starting(op[p]) /\ op[p].client = c
      BY <2>2 DEF HostInv, LifePart
    <3>2. PICK q \in Procs : Starting(op[q]) /\ op[q].client = d
      BY <2>2 DEF HostInv, LifePart
    <3> QED
      BY <1>1, <3>1, <3>2
  <2> QED
    BY <2>1, <2>2
<1>3. CASE Alive = {}
  BY <1>3, FS_EmptySet DEF OneLiveProcess
<1>4. CASE Alive # {}
  <2>1. PICK c \in Alive : TRUE
    BY <1>4
  <2>2. Alive = {c}
    BY <1>2, <2>1
  <2> QED
    BY <2>2, FS_Singleton DEF OneLiveProcess
<1> QED
  BY <1>3, <1>4

(* What the host lists is what runs: at most one process of the server is    *)
(* alive, and the routes and the cached tools are the ones that process      *)
(* listed, however lifecycle operations, uses and failures interleave        *)
(* (restart_server_locked, stop_server, refresh_tools_if_invalidated).       *)
THEOREM ListedIsRunningHolds == Spec => []ListedIsRunning
<1>1. HostInv => ListedIsRunning
  BY HostIsTyped, HostHasOneProcess DEF ListedIsRunning, HostInv
<1> QED
  BY <1>1, HostInvariant, PTL

(* An answer goes to the request it answers, of the client it came from,     *)
(* however late it is (McpStdioClient::request and its reader task).         *)
THEOREM AnswerMatchesHolds == Spec => []AnswerMatches
<1>1. HostInv => AnswerMatches
  BY DEF HostInv, RequestPart, MatchGood, AnswerMatches, At
<1> QED
  BY <1>1, HostInvariant, PTL

(* A refresh marks the cache with no generation newer than the tools it      *)
(* publishes (refresh_tools_if_invalidated): no announced change is lost.    *)
THEOREM RefreshAbsorbsNothingHolds == Spec => RefreshAbsorbsNothing
<1> DEFINE A == \A p \in Procs : PublishRefresh(p) /\ runtime' # runtime =>
                  runtime'.tools.version >= client[runtime'.client].base + runtime'.generation
<1>1. HostInv => A
  <2> SUFFICES ASSUME HostInv, NEW p \in Procs, PublishRefresh(p), runtime' # runtime
               PROVE  runtime'.tools.version >= client[runtime'.client].base + runtime'.generation
    OBVIOUS
  <2>1. runtime # None /\ ~Superseded(p) /\ At(p, "publish")
    BY DEF PublishRefresh
  <2>2. runtime' = [runtime EXCEPT !.tools = op[p].tools, !.generation = ObservedGeneration(p)]
    BY <2>1 DEF PublishRefresh
  <2>3. /\ runtime \in Runtimes
        /\ op[p].tools.version >= client[runtime.client].base + ObservedGeneration(p)
    BY <2>1, Published
  <2>4. /\ runtime'.tools = op[p].tools /\ runtime'.generation = ObservedGeneration(p)
        /\ runtime'.client = runtime.client
    BY <2>2, <2>3 DEF Runtimes
  <2> QED
    BY <2>3, <2>4
<1>2. HostInv => [A]_vars
  BY <1>1
<1> QED
  BY <1>2, HostInvariant, PTL DEF RefreshAbsorbsNothing

=============================================================================
