---------------------------- MODULE StartupProof -----------------------------
(***************************************************************************)
(* Proofs about Startup, for every number of addresses on the local        *)
(* network and of a host: whatever step fails, everything acquired is      *)
(* released once, the configured address is the last resort and the main   *)
(* loop has what it draws from.                                            *)
(*                                                                         *)
(* What the block at done: releases depends on main's variables only, so   *)
(* the invariant says for each label what is held: what the variables say, *)
(* and what a function called by main holds for the moment.                *)
(***************************************************************************)
EXTENDS Startup, TLAPS

\* What main's variables say is held once the system is set up.
Owned == System \cup (ptrs \ {"decoder"}) \cup (IF "decoder" \in ptrs THEN Decoder ELSE {})

Momentary ==
    CASE pc = "localname"              -> {"udp"}
      [] pc = "probe"                  -> {"probe"}
      [] pc = "readconfig"             -> {"cfg"}
      [] pc = "tryaddr"                -> {"addrinfo"}
      [] pc = "connecting"             -> {"addrinfo", "fd"}
      [] pc \in {"query", "library"}   -> {"avcdec"}
      [] pc = "alloc"                  -> {"avcdec", "library"}
      [] pc \in {"base", "decoder"}    -> {"avcdec", "library", "memblock"}
      [] OTHER                         -> {}

BeforeConnection == {"start", "local", "localname", "scan", "probe", "config",
                     "readconfig", "connect", "tryaddr", "connecting"}
Creating == {"create", "query", "library", "alloc", "base", "decoder"}

HeldAsOwned ==
    /\ ~misused
    /\ held = IF pc \in {"start", "exited"} THEN {}
              ELSE Owned \cup Momentary \cup (IF pc = "loop" THEN held \cap {"tls"} ELSE {})

\* Which of main's variables are set by then.
PointersSet ==
    /\ ptrs \subseteq Pointers
    /\ pc \in {"start", "exited"} => ptrs = {}
    /\ pc \in BeforeConnection => ptrs \subseteq {"pgf"}
    /\ pc \in Creating => ptrs \subseteq {"pgf", "fd"}
    /\ pc = "textures" => ptrs \subseteq {"pgf", "fd", "decoder"} /\ "decoder" \in ptrs
    /\ pc \in {"thread", "control", "loop"} => {"decoder", "tex0", "tex1"} \subseteq ptrs
    /\ "control" \in ptrs <=> pc = "loop"

\* How far the scan of the local network is.
ScanProgress ==
    /\ pc \in BeforeConnection \ {"connect", "tryaddr", "connecting"} => source = "none"
    /\ pc \in {"start", "local", "localname"} => next = 1 /\ probed = {}
    /\ pc = "scan" => probed = {h \in Hosts : h < next /\ h # own}
    /\ pc = "probe" => next \in Hosts /\ probed = {h \in Hosts : h <= next /\ h # own}
    /\ pc \in {"config", "readconfig"} => next = 1 \/ probed = Hosts \ {own}
    /\ FallbackIsLast

ThreadHasAll == thread => pc \in {"control", "loop", "done", "exited"}

IInv == TypeOK /\ HeldAsOwned /\ PointersSet /\ ScanProgress /\ ThreadHasAll

-----------------------------------------------------------------------------
(* The variables a step of main sets, and where the scan is.               *)

\* Every step sets and clears main's variables as PointersSet says.
LEMMA StepPointers ==
    ASSUME IInv, Next
    PROVE  PointersSet' /\ ThreadHasAll'
<1> USE DEF IInv, PointersSet, ThreadHasAll, BeforeConnection, Creating, Pointers, Goto
<1>1. CASE Start
    BY <1>1 DEF Start
<1>2. CASE LocalSocket
    BY <1>2 DEF LocalSocket
<1>3. CASE LocalName
    BY <1>3 DEF LocalName
<1>4. CASE SkipOwn
    BY <1>4 DEF SkipOwn
<1>5. CASE ScanEnds
    BY <1>5 DEF ScanEnds
<1>6. CASE ProbeSocket
    BY <1>6 DEF ProbeSocket
<1>7. CASE ProbeAnswer
    BY <1>7 DEF ProbeAnswer
<1>8. CASE OpenConfig
    BY <1>8 DEF OpenConfig
<1>9. CASE ReadConfig
    BY <1>9 DEF ReadConfig
<1>10. CASE Resolve
    BY <1>10 DEF Resolve
<1>11. CASE AddrSocket
    BY <1>11 DEF AddrSocket
<1>12. CASE Connected
    BY <1>12 DEF Connected
<1>13. CASE ConnectFails
    BY <1>13 DEF ConnectFails
<1>14. CASE AddrsExhausted
    BY <1>14 DEF AddrsExhausted
<1>15. CASE CreateTextures
    BY <1>15 DEF CreateTextures, TexturesSuffice
<1>16. CASE CreateThread
    BY <1>16 DEF CreateThread
<1>17. CASE CreateControl
    BY <1>17 DEF CreateControl
<1>18. CASE CreateTls
    BY <1>18 DEF CreateTls
<1>19. CASE Leave
    BY <1>19 DEF Leave
<1>20. CASE Done
    BY <1>20 DEF Done
<1>21. CASE CreateDecoder
  <2>1. PICK k \in 1 .. 6 : CreateStep(k) \/ CreateFails(k)
    BY <1>21 DEF CreateDecoder, Steps
  <2>2. CASE CreateFails(k)
    BY <2>2 DEF CreateFails, Steps
  <2>3. CASE CreateStep(k) /\ k < 6
    <3>1. pc \in Creating /\ pc' \in Creating
      BY <2>3 DEF CreateStep, Steps
    <3>2. ptrs' = ptrs /\ thread' = thread
      BY <2>3 DEF CreateStep
    <3>3. QED
      BY <3>1, <3>2
  <2>4. CASE CreateStep(k) /\ k = 6
    <3>1. pc = "decoder" /\ pc' = "textures"
      BY <2>4 DEF CreateStep, Steps
    <3>2. ptrs' = ptrs \cup {"decoder"} /\ thread' = thread
      BY <2>4 DEF CreateStep
    <3>3. QED
      BY <3>1, <3>2
  <2>5. QED
    BY <2>1, <2>2, <2>3, <2>4
<1>22. QED
    BY <1>1, <1>2, <1>3, <1>4, <1>5, <1>6, <1>7, <1>8, <1>9, <1>10, <1>11, <1>12,
       <1>13, <1>14, <1>15, <1>16, <1>17, <1>18, <1>19, <1>20, <1>21
       DEF Next, Discover, Connect, Prepare

\* Every step of the scan adds the address it probes and no other.
LEMMA StepScan ==
    ASSUME IInv, Next
    PROVE  ScanProgress'
<1> USE HostsAssumption DEF IInv, TypeOK, ScanProgress, FallbackIsLast, Hosts, BeforeConnection,
            Goto, discovery, target
<1>1. CASE Start
    BY <1>1 DEF Start
<1>2. CASE LocalSocket \/ OpenConfig \/ ReadConfig
    BY <1>2 DEF LocalSocket, OpenConfig, ReadConfig
<1>3. CASE Resolve \/ AddrSocket \/ Connected \/ ConnectFails \/ AddrsExhausted
    BY <1>3 DEF Resolve, AddrSocket, Connected, ConnectFails, AddrsExhausted
<1>4. CASE CreateTextures \/ CreateThread \/ CreateControl \/ CreateTls \/ Leave \/
           Done
    BY <1>4 DEF CreateTextures, CreateThread, CreateControl, CreateTls, Leave, Done
<1>5. CASE LocalName
  <2>1. {h \in Hosts : h < 1 /\ h # own} = {}
    BY DEF Hosts
  <2>2. next' = 1 /\ probed' = {} /\ source' = "none" /\ own' = own
    BY <1>5 DEF LocalName
  <2>3. pc' \in {"scan", "config"}
    BY <1>5 DEF LocalName
  <2>4. QED
    BY <2>1, <2>2, <2>3
<1>6. CASE SkipOwn
    BY <1>6 DEF SkipOwn, InRange, NextHost
<1>7. CASE ScanEnds
    BY <1>7 DEF ScanEnds, InRange, NextHost
<1>8. CASE ProbeSocket
    BY <1>8 DEF ProbeSocket, InRange, NextHost
<1>9. CASE ProbeAnswer
    BY <1>9 DEF ProbeAnswer, InRange, NextHost
<1>10. CASE CreateDecoder
    BY <1>10 DEF CreateDecoder, CreateStep, CreateFails, Steps
<1>11. QED
    BY <1>1, <1>2, <1>3, <1>4, <1>5, <1>6, <1>7, <1>8, <1>9, <1>10
       DEF Next, Discover, Connect, Prepare

-----------------------------------------------------------------------------
(* What is held.                                                           *)

\* A release of what is held and an acquisition of what is not go well.
LEMMA SwapDone ==
    ASSUME NEW R, NEW A, Swap(R, A), ~misused, R \subseteq held, A \cap held = {}
    PROVE  ~misused' /\ held' = (held \ R) \cup A
BY DEF Swap

\* What is owned depends on main's variables only.
LEMMA OwnedSame ==
    ASSUME ptrs' = ptrs PROVE Owned' = Owned
BY DEF Owned

\* What a function holds for a moment is not among what main owns.
LEMMA OwnedApart ==
    ASSUME PointersSet
    PROVE  Owned \cap {"udp", "probe", "cfg", "addrinfo", "tls"} = {}
BY DEF Owned, PointersSet, Pointers, System, Decoder

\* A function called by main acquires the first resource of its own.
LEMMA StepHeldAcquire ==
    ASSUME IInv, NEW r \in {"udp", "probe", "cfg", "addrinfo"}, Acquire(r),
           pc \in {"local", "scan", "config", "connect"}, ptrs' = ptrs,
           pc' # "loop", pc' \notin {"start", "exited"}, Momentary' = {r}
    PROVE  HeldAsOwned'
<1>1. held = Owned /\ ~misused
    BY DEF IInv, HeldAsOwned, Momentary
<1>2. {r} \cap held = {}
    BY <1>1, OwnedApart DEF IInv
<1>3. ~misused' /\ held' = held \cup {r}
    BY <1>1, <1>2, SwapDone DEF Acquire
<1>4. QED
    BY <1>1, <1>3, OwnedSame DEF HeldAsOwned

\* avcdec_create: a step that fails gives back what the steps before it have
\* acquired, and the last one makes main the owner.
LEMMA StepHeldCreate ==
    ASSUME IInv, NEW k \in 1 .. 6, CreateStep(k) \/ CreateFails(k)
    PROVE  HeldAsOwned'
<1>1. pc = Steps[k].pc
    BY DEF CreateStep, CreateFails
<1>2. pc \in Creating
    BY <1>1 DEF Steps, Creating
<1>3. Owned \cap Decoder = {}
    BY <1>2 DEF IInv, PointersSet, Owned, System, Decoder, Creating
<1>4. ~misused /\ held = Owned \cup Momentary
    BY <1>2 DEF IInv, HeldAsOwned, Creating
<1>5. CASE CreateFails(k)
  <2>1. Momentary = Frees(k) /\ Frees(k) \subseteq Decoder
    BY <1>1 DEF Momentary, Frees, Steps, Decoder
  <2>2. ~misused' /\ held' = Owned
    BY <1>3, <1>4, <1>5, <2>1, SwapDone DEF CreateFails
  <2>3. QED
    BY <1>5, <2>2, OwnedSame DEF CreateFails, Goto, HeldAsOwned, Momentary
<1>6. CASE CreateStep(k)
  <2> DEFINE gets == Steps[k].gets
  <2>1. gets \cap Momentary = {} /\ gets \subseteq Decoder
    BY <1>1 DEF Momentary, Steps, Decoder
  <2>2. ~misused' /\ held' = Owned \cup Momentary \cup gets
    BY <1>3, <1>4, <1>6, <2>1, SwapDone DEF CreateStep
  <2>3. CASE k < 6
    <3>1. Momentary' = Momentary \cup gets /\ pc' \in Creating
      BY <1>1, <1>6, <2>3 DEF CreateStep, Goto, Momentary, Steps, Creating
    <3>2. ptrs' = ptrs
      BY <1>6, <2>3 DEF CreateStep
    <3>3. QED
      BY <2>2, <3>1, <3>2, OwnedSame DEF HeldAsOwned, Creating
  <2>4. CASE k = 6
    <3>1. Momentary \cup gets = Decoder
      BY <1>1, <2>4 DEF Momentary, Steps, Decoder
    <3>2. pc' = "textures" /\ ptrs' = ptrs \cup {"decoder"}
      BY <1>6, <2>4 DEF CreateStep, Goto
    <3>3. Owned' = Owned \cup Decoder
      BY <3>2 DEF Owned
    <3>4. QED
      BY <2>2, <3>1, <3>2, <3>3 DEF HeldAsOwned, Momentary
  <2>5. QED
    BY <2>3, <2>4
<1>7. QED
    BY <1>5, <1>6

\* Every other step keeps what is held equal to what is owned and momentary.
LEMMA StepHeld ==
    ASSUME IInv, Next
    PROVE  HeldAsOwned'
<1>1. CASE Start
  <2>1. held = {} /\ ~misused
    BY <1>1 DEF Start, IInv, HeldAsOwned
  <2>2. PICK pgf \in {{}, {"pgf"}} : Swap({}, System \cup pgf) /\ ptrs' = pgf
    BY <1>1 DEF Start
  <2>3. ~misused' /\ held' = System \cup pgf
    BY <2>1, <2>2, SwapDone
  <2>4. Owned' = System \cup pgf
    BY <2>2 DEF Owned
  <2>5. pc' = "local"
    BY <1>1 DEF Start, Goto
  <2>6. QED
    BY <2>3, <2>4, <2>5 DEF HeldAsOwned, Momentary
<1>2. CASE LocalSocket
  <2>1. CASE Acquire("udp") /\ Goto("localname")
    BY <1>2, <2>1, StepHeldAcquire DEF LocalSocket, Goto, Momentary
  <2>2. CASE Keep /\ Goto("config")
    BY <1>2, <2>2, OwnedSame
       DEF LocalSocket, Goto, Momentary, Keep, IInv, HeldAsOwned
  <2>3. QED
    BY <1>2, <2>1, <2>2 DEF LocalSocket
<1>3. CASE LocalName
    BY <1>3
       DEF LocalName, IInv, HeldAsOwned, PointersSet, Owned, Momentary, Swap,
           Acquire, Release, Keep, Goto, System, Decoder, Pointers, BeforeConnection
<1>4. CASE SkipOwn
    BY <1>4
       DEF SkipOwn, IInv, HeldAsOwned, PointersSet, Owned, Momentary, Swap, Acquire,
           Release, Keep, Goto, System, Decoder, Pointers, BeforeConnection
<1>5. CASE ScanEnds
    BY <1>5
       DEF ScanEnds, IInv, HeldAsOwned, PointersSet, Owned, Momentary, Swap,
           Acquire, Release, Keep, Goto, System, Decoder, Pointers, BeforeConnection
<1>6. CASE ProbeSocket
  <2>1. CASE Acquire("probe") /\ Goto("probe")
    BY <1>6, <2>1, StepHeldAcquire DEF ProbeSocket, Goto, Momentary
  <2>2. CASE Keep /\ UNCHANGED pc
    BY <1>6, <2>2, OwnedSame DEF ProbeSocket, Momentary, Keep, IInv, HeldAsOwned
  <2>3. QED
    BY <1>6, <2>1, <2>2 DEF ProbeSocket
<1>7. CASE ProbeAnswer
    BY <1>7
       DEF ProbeAnswer, IInv, HeldAsOwned, PointersSet, Owned, Momentary, Swap,
           Acquire, Release, Keep, Goto, System, Decoder, Pointers, BeforeConnection
<1>8. CASE OpenConfig
  <2>1. CASE Acquire("cfg") /\ Goto("readconfig")
    BY <1>8, <2>1, StepHeldAcquire DEF OpenConfig, Goto, Momentary
  <2>2. CASE Keep /\ Goto("connect")
    BY <1>8, <2>2, OwnedSame
       DEF OpenConfig, Goto, Momentary, Keep, IInv, HeldAsOwned
  <2>3. QED
    BY <1>8, <2>1, <2>2 DEF OpenConfig
<1>9. CASE ReadConfig
    BY <1>9
       DEF ReadConfig, IInv, HeldAsOwned, PointersSet, Owned, Momentary, Swap,
           Acquire, Release, Keep, Goto, System, Decoder, Pointers, BeforeConnection
<1>10. CASE Resolve
  <2>1. CASE Acquire("addrinfo") /\ Goto("tryaddr")
    BY <1>10, <2>1, StepHeldAcquire DEF Resolve, Goto, Momentary
  <2>2. CASE Keep /\ Goto("done")
    BY <1>10, <2>2, OwnedSame DEF Resolve, Goto, Momentary, Keep, IInv, HeldAsOwned
  <2>3. QED
    BY <1>10, <2>1, <2>2 DEF Resolve
<1>11. CASE AddrSocket
  <2>1. CASE Acquire("fd") /\ Goto("connecting")
    <3>1. held = Owned \cup {"addrinfo"} /\ ~misused
      BY <1>11 DEF AddrSocket, IInv, HeldAsOwned, Momentary
    <3>2. "fd" \notin Owned
      BY <1>11
         DEF AddrSocket, IInv, PointersSet, BeforeConnection, Owned, System, Decoder
    <3>3. ~misused' /\ held' = Owned \cup {"addrinfo", "fd"}
      BY <2>1, <3>1, <3>2, SwapDone DEF Acquire
    <3>4. QED
      BY <1>11, <2>1, <3>3, OwnedSame DEF AddrSocket, Goto, Momentary, HeldAsOwned
  <2>2. CASE Keep /\ UNCHANGED pc
    BY <1>11, <2>2, OwnedSame DEF AddrSocket, Momentary, Keep, IInv, HeldAsOwned
  <2>3. QED
    BY <1>11, <2>1, <2>2 DEF AddrSocket
<1>12. CASE Connected
    BY <1>12
       DEF Connected, IInv, HeldAsOwned, PointersSet, Owned, Momentary, Swap,
           Acquire, Release, Keep, Goto, System, Decoder, Pointers, BeforeConnection
<1>13. CASE ConnectFails
    BY <1>13
       DEF ConnectFails, IInv, HeldAsOwned, PointersSet, Owned, Momentary, Swap,
           Acquire, Release, Keep, Goto, System, Decoder, Pointers, BeforeConnection
<1>14. CASE AddrsExhausted
    BY <1>14
       DEF AddrsExhausted, IInv, HeldAsOwned, PointersSet, Owned, Momentary, Swap,
           Acquire, Release, Keep, Goto, System, Decoder, Pointers, BeforeConnection
<1>15. CASE CreateTextures
  <2>1. PICK texs \in SUBSET {"tex0", "tex1"} :
            Swap({}, texs) /\ ptrs' = ptrs \cup texs
    BY <1>15 DEF CreateTextures
  <2>2. held = Owned /\ ~misused
    BY <1>15 DEF CreateTextures, IInv, HeldAsOwned, Momentary
  <2>3. texs \cap held = {}
    BY <1>15, <2>2 DEF CreateTextures, IInv, PointersSet, Owned, System, Decoder
  <2>4. ~misused' /\ held' = Owned \cup texs
    BY <2>1, <2>2, <2>3, SwapDone
  <2>5. Owned' = Owned \cup texs
    BY <2>1 DEF Owned
  <2>6. pc' \in {"thread", "done"}
    BY <1>15 DEF CreateTextures, Goto
  <2>7. QED
    BY <2>4, <2>5, <2>6 DEF HeldAsOwned, Momentary
<1>16. CASE CreateThread
    BY <1>16
       DEF CreateThread, IInv, HeldAsOwned, PointersSet, Owned, Momentary, Swap,
           Acquire, Release, Keep, Goto, System, Decoder, Pointers, BeforeConnection
<1>17. CASE CreateControl
  <2>1. held = Owned /\ ~misused
    BY <1>17 DEF CreateControl, IInv, HeldAsOwned, Momentary
  <2>2. CASE Acquire("control") /\ ptrs' = ptrs \cup {"control"} /\ Goto("loop")
    <3>1. "control" \notin Owned /\ "tls" \notin Owned
      BY <1>17
         DEF CreateControl, IInv, PointersSet, Pointers, Owned, System, Decoder
    <3>2. ~misused' /\ held' = Owned \cup {"control"}
      BY <2>1, <2>2, <3>1, SwapDone DEF Acquire
    <3>3. Owned' = Owned \cup {"control"}
      BY <2>2 DEF Owned
    <3>4. QED
      BY <2>2, <3>1, <3>2, <3>3 DEF HeldAsOwned, Momentary, Goto
  <2>3. CASE Keep /\ Goto("done") /\ UNCHANGED ptrs
    BY <2>1, <2>3, OwnedSame DEF Goto, Momentary, Keep, HeldAsOwned
  <2>4. QED
    BY <1>17, <2>2, <2>3 DEF CreateControl
<1>18. CASE CreateTls
    BY <1>18
       DEF CreateTls, IInv, HeldAsOwned, PointersSet, Owned, Momentary, Swap,
           Acquire, Release, Keep, Goto, System, Decoder, Pointers, BeforeConnection
<1>19. CASE Leave
  <2>1. ~misused /\ held = Owned \cup (held \cap {"tls"})
    BY <1>19 DEF Leave, IInv, HeldAsOwned, Momentary
  <2>2. "control" \in Owned /\ "control" \notin System \cup Decoder
    BY <1>19 DEF Leave, IInv, PointersSet, Owned, System, Decoder
  <2>3. ~misused' /\ held' = Owned \ {"control", "tls"}
    BY <1>19, <2>1, <2>2, SwapDone DEF Leave
  <2>4. Owned' = Owned \ {"control"}
    BY <1>19, <2>2 DEF Leave, Owned
  <2>5. "tls" \notin Owned
    BY OwnedApart DEF IInv
  <2>6. QED
    BY <1>19, <2>3, <2>4, <2>5 DEF Leave, HeldAsOwned, Momentary, Goto
<1>20. CASE Done
    BY <1>20
       DEF Done, IInv, HeldAsOwned, PointersSet, Owned, Momentary, Swap, Acquire,
           Release, Keep, Goto, System, Decoder, Pointers, BeforeConnection
<1>21. CASE CreateDecoder
  <2>1. PICK k \in 1 .. 6 : CreateStep(k) \/ CreateFails(k)
    BY <1>21 DEF CreateDecoder, Steps
  <2>2. QED
    BY <2>1, StepHeldCreate
<1>22. QED
    BY <1>1, <1>2, <1>3, <1>4, <1>5, <1>6, <1>7, <1>8, <1>9, <1>10, <1>11, <1>12,
       <1>13, <1>14, <1>15, <1>16, <1>17, <1>18, <1>19, <1>20, <1>21
       DEF Next, Discover, Connect, Prepare

-----------------------------------------------------------------------------
(* Types, and the theorems.                                                *)

-----------------------------------------------------------------------------
(* The invariant and what follows from it.                                 *)

\* The addresses and counters stay in their ranges.
LEMMA StepRanges ==
    ASSUME IInv, Next
    PROVE  /\ own' \in 0 .. LastHost + 1 /\ next' \in 1 .. LastHost + 1
           /\ probed' \subseteq Hosts \ {own'}
           /\ source' \in {"none"} \cup Sources /\ host' \in 0 .. LastHost
           /\ addrs' \in 0 .. MaxAddrs
           /\ thread' \in BOOLEAN
<1> USE HostsAssumption DEF IInv, TypeOK, ScanProgress, Hosts, discovery, target, Sources
<1>1. CASE Start
    BY <1>1 DEF Start
<1>2. CASE LocalSocket \/ LocalName \/ OpenConfig \/ ReadConfig
    BY <1>2 DEF LocalSocket, LocalName, OpenConfig, ReadConfig
<1>3. CASE CreateTextures \/ CreateThread \/ CreateControl \/ CreateTls \/ Leave \/
           Done
    BY <1>3 DEF CreateTextures, CreateThread, CreateControl, CreateTls, Leave, Done
<1>4. CASE SkipOwn
    BY <1>4 DEF SkipOwn, InRange, NextHost
<1>5. CASE ScanEnds
    BY <1>5 DEF ScanEnds, InRange, NextHost
<1>6. CASE ProbeSocket
    BY <1>6 DEF ProbeSocket, InRange, NextHost
<1>7. CASE ProbeAnswer
    BY <1>7 DEF ProbeAnswer, InRange, NextHost
<1>8. CASE Resolve
    BY <1>8 DEF Resolve
<1>9. CASE AddrSocket
    BY <1>9 DEF AddrSocket
<1>10. CASE Connected
    BY <1>10 DEF Connected
<1>11. CASE ConnectFails
    BY <1>11 DEF ConnectFails
<1>12. CASE AddrsExhausted
    BY <1>12 DEF AddrsExhausted
<1>13. CASE CreateDecoder
    BY <1>13 DEF CreateDecoder, CreateStep, CreateFails
<1>14. QED
    BY <1>1, <1>2, <1>3, <1>4, <1>5, <1>6, <1>7, <1>8, <1>9, <1>10, <1>11, <1>12,
       <1>13
       DEF Next, Discover, Connect, Prepare

\* misused is a truth value: only Swap writes it.
LEMMA StepMisused ==
    ASSUME IInv, Next PROVE misused' \in BOOLEAN
<1>1. ASSUME NEW R, NEW A, Swap(R, A) PROVE misused' \in BOOLEAN
    BY <1>1 DEF Swap
<1>2. Keep => misused' \in BOOLEAN
    BY DEF Keep, IInv, TypeOK
<1> USE <1>1, <1>2 DEF Acquire, Release
<1>3. CASE Start
    BY <1>3 DEF Start
<1>4. CASE LocalSocket \/ LocalName \/ SkipOwn \/ ScanEnds \/ ProbeSocket \/
           ProbeAnswer \/ OpenConfig \/ ReadConfig
    BY <1>4
       DEF LocalSocket, LocalName, SkipOwn, ScanEnds, ProbeSocket, ProbeAnswer,
           OpenConfig, ReadConfig
<1>5. CASE Resolve \/ AddrSocket \/ Connected \/ ConnectFails \/ AddrsExhausted
    BY <1>5 DEF Resolve, AddrSocket, Connected, ConnectFails, AddrsExhausted
<1>6. CASE CreateTextures \/ CreateThread \/ CreateControl \/ CreateTls \/ Leave \/
           Done
    BY <1>6 DEF CreateTextures, CreateThread, CreateControl, CreateTls, Leave, Done
<1>7. CASE CreateDecoder
    BY <1>7 DEF CreateDecoder, CreateStep, CreateFails
<1>8. QED
    BY <1>3, <1>4, <1>5, <1>6, <1>7 DEF Next, Discover, Connect, Prepare

\* The labels of avcdec_create are labels.
LEMMA CreatingLabels == Creating \subseteq Labels
<1>1. \A k \in 1 .. 6 : Steps[k].pc \in Labels
    BY DEF Labels, Steps
<1>2. Creating = {Steps[1].pc, Steps[2].pc, Steps[3].pc, Steps[4].pc, Steps[5].pc, Steps[6].pc}
    BY DEF Creating, Steps
<1>3. QED
    BY <1>1, <1>2

\* Every step ends at a label.
LEMMA StepLabels ==
    ASSUME IInv, Next PROVE pc' \in Labels
<1> USE CreatingLabels DEF Labels, Goto
<1>1. CASE Start
    BY <1>1 DEF Start
<1>2. CASE LocalSocket \/ LocalName \/ SkipOwn \/ ScanEnds \/ ProbeSocket \/
           ProbeAnswer \/ OpenConfig \/ ReadConfig
    BY <1>2
       DEF LocalSocket, LocalName, SkipOwn, ScanEnds, ProbeSocket, ProbeAnswer,
           OpenConfig, ReadConfig
<1>3. CASE CreateTextures \/ CreateThread \/ CreateControl \/ CreateTls \/ Leave \/
           Done
    BY <1>3 DEF CreateTextures, CreateThread, CreateControl, CreateTls, Leave, Done
<1>4. CASE Resolve
    BY <1>4 DEF Resolve, IInv, TypeOK
<1>5. CASE AddrSocket
    BY <1>5 DEF AddrSocket, IInv, TypeOK
<1>6. CASE Connected
    BY <1>6 DEF Connected, Creating
<1>7. CASE ConnectFails
    BY <1>7 DEF ConnectFails, IInv, TypeOK
<1>8. CASE AddrsExhausted
    BY <1>8 DEF AddrsExhausted, IInv, TypeOK
<1>9. CASE CreateDecoder
    BY <1>9 DEF CreateDecoder, CreateStep, CreateFails, Steps
<1>10. QED
    BY <1>1, <1>2, <1>3, <1>4, <1>5, <1>6, <1>7, <1>8, <1>9
       DEF Next, Discover, Connect, Prepare

\* Every step keeps the invariant.
LEMMA StepIInv ==
    ASSUME IInv, [Next]_vars PROVE IInv'
<1>1. CASE Next
  <2>1. held' \subseteq Resources /\ ptrs' \subseteq Pointers
    BY <1>1, StepHeld, StepPointers
       DEF HeldAsOwned, PointersSet, Owned, Momentary, Resources, Pointers, System, Decoder
  <2>2. TypeOK'
    BY <1>1, <2>1, StepRanges, StepLabels, StepMisused DEF TypeOK, Hosts
  <2>3. QED
    BY <1>1, <2>2, StepHeld, StepPointers, StepScan DEF IInv
<1>2. CASE UNCHANGED vars
    BY <1>2
       DEF vars, discovery, target, IInv, TypeOK, HeldAsOwned, Owned, Momentary,
       PointersSet, ScanProgress, FallbackIsLast, ThreadHasAll, Hosts
<1>3. QED
    BY <1>1, <1>2

\* The invariant holds when the program starts.
LEMMA InitIInv ==
    ASSUME Init PROVE IInv
<1> USE HostsAssumption DEF Init
<1>1. pc \in Labels /\ pc \notin Creating
    BY DEF Labels, Creating
<1>2. TypeOK
  <2>1. /\ own \in 0 .. LastHost + 1 /\ next \in 1 .. LastHost + 1
        /\ host \in 0 .. LastHost /\ addrs \in 0 .. MaxAddrs
      OBVIOUS
  <2>2. /\ probed = {} /\ held = {} /\ ptrs = {} /\ source = "none"
        /\ misused \in BOOLEAN /\ thread \in BOOLEAN
      OBVIOUS
  <2>3. QED
      BY <1>1, <2>1, <2>2 DEF TypeOK
<1>3. HeldAsOwned /\ PointersSet /\ ThreadHasAll
    BY <1>1 DEF HeldAsOwned, PointersSet, ThreadHasAll
<1>4. ScanProgress
    BY DEF ScanProgress, FallbackIsLast, Sources
<1>5. QED
    BY <1>2, <1>3, <1>4 DEF IInv

\* The invariant of the preparations and the exit, for every number of
\* addresses (main, aa_discover_head_unit, aa_transport_connect,
\* avcdec_create).
THEOREM StartupInvariant == Spec => []IInv
BY InitIInv, StepIInv, PTL DEF Spec

\* Addresses, labels and what is held stay in their sets.
THEOREM StartupTypes == Spec => []TypeOK
<1>1. IInv => TypeOK
    BY DEF IInv
<1>2. QED
    BY <1>1, StartupInvariant, PTL

\* Whichever of main's calls fails, the block at done: and the function that
\* fails give back what was acquired, once, and the probe's socket is closed
\* when the connection is tried.
THEOREM AllReleasedOnce == Spec => []ReleasedOnce
<1>1. IInv => ReleasedOnce
  <2> SUFFICES ASSUME IInv PROVE ReleasedOnce
      OBVIOUS
  <2>1. "probe" \notin Owned
      BY OwnedApart DEF IInv
  <2>2. QED
      BY <2>1 DEF IInv, HeldAsOwned, ReleasedOnce, Momentary
<1>2. QED
    BY <1>1, StartupInvariant, PTL

\* The default and the configured address are used only after every other
\* address was probed, or if the own one is unknown; a discovered phone is
\* the first that answers.
THEOREM ConfiguredIsLastResort == Spec => []FallbackIsLast
<1>1. IInv => FallbackIsLast
    BY DEF IInv, ScanProgress
<1>2. QED
    BY <1>1, StartupInvariant, PTL

\* While the decode thread and the main loop run, the decoder and both textures
\* are there.
THEOREM PipelineInPlace == Spec => []PipelineComplete
<1>1. IInv => PipelineComplete
    BY DEF IInv, HeldAsOwned, PointersSet, Owned, PipelineComplete
<1>2. QED
    BY <1>1, StartupInvariant, PTL
=============================================================================
