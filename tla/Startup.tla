------------------------------ MODULE Startup -------------------------------
(***************************************************************************)
(* The life of the Vita program outside its main loop                      *)
(* (src/src/vita/vita_video.c, main): find the phone on the local network  *)
(* (src/src/core/discover.c) or take the configured address, connect       *)
(* (src/src/core/transport.c), create decoder, textures, decode thread and *)
(* control channel, and on every way out give it all back.  Each step of   *)
(* the operating system may fail.                                          *)
(*                                                                         *)
(* held is what the program has acquired, by name; ptrs is what main's     *)
(* variables say it has, which is what the block at done: goes by.         *)
(***************************************************************************)
EXTENDS Integers, FiniteSets

CONSTANTS
    LastHost,     \* the last address of the local network, 254 in the code
    MaxAddrs      \* bound: addresses getaddrinfo returns for the host

ASSUME HostsAssumption == LastHost \in Nat \ {0} /\ MaxAddrs \in Nat \ {0}

VARIABLES
    pc,
    own,          \* own address on the local network
    next,         \* address to be probed next
    probed,       \* addresses probed so far (history)
    source,       \* of the host to connect to: none yet, or one of Sources
    host,         \* its address on the local network, if discovered
    addrs,        \* addresses of the host not tried yet
    held,         \* resources acquired and not released
    misused,      \* something was released that was not held, or got twice
    ptrs,         \* main's variables that are not NULL (fd: not -1)
    thread        \* does the decode thread run

discovery == <<own, next, probed>>
target == <<source, host>>
vars == <<pc, discovery, target, addrs, held, misused, ptrs, thread>>

Hosts == 1 .. LastHost
Sources == {"discovered", "default", "configured"}
System == {"net", "netctl", "touch", "vita2d"}
Decoder == {"avcdec", "library", "memblock", "hwdecoder"}
Pointers == {"pgf", "fd", "decoder", "tex0", "tex1", "control"}
Resources == System \cup Decoder \cup (Pointers \ {"decoder"})
             \cup {"udp", "probe", "addrinfo", "cfg", "tls"}

Swap(release, acquire) ==
    /\ held' = (held \ release) \cup acquire
    /\ misused' = (misused \/ ~(release \subseteq held) \/ acquire \cap held # {})
Acquire(r) == Swap({}, {r})
Release(r) == Swap({r}, {})
Keep == UNCHANGED <<held, misused>>

Goto(label) == pc' = label

Init ==
    /\ pc = "start"
    /\ own \in 0 .. LastHost + 1 /\ next = 1 /\ probed = {}
    /\ source = "none" /\ host = 0 /\ addrs = 0
    /\ held = {} /\ misused = FALSE /\ ptrs = {} /\ thread = FALSE

\* sceNetInit and the others are not asked for their result; the font may
\* be missing.
Start ==
    /\ pc = "start"
    /\ \E pgf \in {{}, {"pgf"}} : Swap({}, System \cup pgf) /\ ptrs' = pgf
    /\ Goto("local")
    /\ UNCHANGED <<discovery, target, addrs, thread>>

-----------------------------------------------------------------------------
(* aa_discover_head_unit.                                                  *)

\* get_local_ip: a UDP socket, connected and asked for its own address.
LocalSocket ==
    /\ pc = "local"
    /\ \/ Acquire("udp") /\ Goto("localname")
       \/ Keep /\ Goto("config")
    /\ UNCHANGED <<discovery, target, addrs, ptrs, thread>>

LocalName ==
    /\ pc = "localname"
    /\ Release("udp")
    /\ Goto("scan") \/ Goto("config")
    /\ UNCHANGED <<discovery, target, addrs, ptrs, thread>>

InRangeShort(h) == h < LastHost              \* fault: one address short
InRangeLong(h) == h <= LastHost + 1          \* fault: the broadcast address
InRange(h) == h <= LastHost
NextHostStuck == IF next = own THEN next ELSE next + 1   \* fault: continue
NextHost == next + 1

SkipOwn ==
    /\ pc = "scan"
    /\ InRange(next) /\ next = own
    /\ next' = NextHost
    /\ Keep
    /\ UNCHANGED <<pc, own, probed, target, addrs, ptrs, thread>>

ScanEnds ==
    /\ pc = "scan"
    /\ ~InRange(next)
    /\ Goto("config")
    /\ Keep
    /\ UNCHANGED <<discovery, target, addrs, ptrs, thread>>

\* aa_discover_probe; without a socket the address counts as not answering.
ProbeSocket ==
    /\ pc = "scan"
    /\ InRange(next) /\ next # own
    /\ probed' = probed \cup {next}
    /\ \/ Acquire("probe") /\ Goto("probe") /\ UNCHANGED next
       \/ Keep /\ next' = NextHost /\ UNCHANGED pc
    /\ UNCHANGED <<own, target, addrs, ptrs, thread>>

\* Connected in time, or refused, or no answer within the timeout.  After a
\* success main waits for the phone's server to notice the close.
ProbeAnswer ==
    /\ pc = "probe"
    /\ \E ok \in BOOLEAN :
          /\ Release("probe")
          /\ IF ok
             THEN source' = "discovered" /\ host' = next /\ Goto("connect") /\ UNCHANGED next
             ELSE next' = NextHost /\ Goto("scan") /\ UNCHANGED target
    /\ UNCHANGED <<own, probed, addrs, ptrs, thread>>

\* load_config: the default address unless the file says otherwise.
OpenConfig ==
    /\ pc = "config"
    /\ \/ Acquire("cfg") /\ Goto("readconfig") /\ UNCHANGED source
       \/ Keep /\ Goto("connect") /\ source' = "default"
    /\ UNCHANGED <<discovery, host, addrs, ptrs, thread>>

ReadConfig ==
    /\ pc = "readconfig"
    /\ Release("cfg")
    /\ source' \in {"default", "configured"}
    /\ Goto("connect")
    /\ UNCHANGED <<discovery, host, addrs, ptrs, thread>>

-----------------------------------------------------------------------------
(* aa_transport_connect: the addresses of the host in turn.                *)

Resolve ==
    /\ pc = "connect"
    /\ \/ Acquire("addrinfo") /\ addrs' \in 1 .. MaxAddrs /\ Goto("tryaddr")
       \/ Keep /\ Goto("done") /\ UNCHANGED addrs
    /\ UNCHANGED <<discovery, target, ptrs, thread>>

\* The socket of the next address; without one its turn is over.
AddrSocket ==
    /\ pc = "tryaddr" /\ addrs > 0
    /\ \/ Acquire("fd") /\ Goto("connecting")
       \/ Keep /\ UNCHANGED pc
    /\ addrs' = addrs - 1
    /\ UNCHANGED <<discovery, target, ptrs, thread>>

Connected ==
    /\ pc = "connecting"
    /\ Release("addrinfo")
    /\ ptrs' = ptrs \cup {"fd"}
    /\ Goto("create")
    /\ UNCHANGED <<discovery, target, addrs, thread>>

ConnectFails ==
    /\ pc = "connecting"
    /\ Release("fd")
    /\ Goto("tryaddr")
    /\ UNCHANGED <<discovery, target, addrs, ptrs, thread>>

AddrsExhausted ==
    /\ pc = "tryaddr" /\ addrs = 0
    /\ Release("addrinfo")
    /\ Goto("done")
    /\ UNCHANGED <<discovery, target, addrs, ptrs, thread>>

-----------------------------------------------------------------------------
(* avcdec_create and the rest of main's preparations.                      *)

\* The steps of avcdec_create: what each acquires when it succeeds, and what
\* the code gives back when it fails.
Steps == <<
    [pc |-> "create",  gets |-> {"avcdec"},    frees |-> {}],
    [pc |-> "query",   gets |-> {},            frees |-> {"avcdec"}],
    [pc |-> "library", gets |-> {"library"},   frees |-> {"avcdec"}],
    [pc |-> "alloc",   gets |-> {"memblock"},  frees |-> {"library", "avcdec"}],
    [pc |-> "base",    gets |-> {},            frees |-> {"memblock", "library", "avcdec"}],
    [pc |-> "decoder", gets |-> {"hwdecoder"}, frees |-> {"memblock", "library", "avcdec"}]>>
FreesShort(k) == Steps[k].frees \ {"library"}    \* fault: no TermLibrary
Frees(k) == Steps[k].frees

CreateStep(k) ==
    /\ pc = Steps[k].pc
    /\ Swap({}, Steps[k].gets)
    /\ IF k < 6 THEN Goto(Steps[k + 1].pc) /\ UNCHANGED ptrs
                ELSE Goto("textures") /\ ptrs' = ptrs \cup {"decoder"}
    /\ UNCHANGED <<discovery, target, addrs, thread>>

CreateFails(k) ==
    /\ pc = Steps[k].pc
    /\ Swap(Frees(k), {})
    /\ Goto("done")
    /\ UNCHANGED <<discovery, target, addrs, ptrs, thread>>

CreateDecoder == \E k \in DOMAIN Steps : CreateStep(k) \/ CreateFails(k)

NeedsOne(texs) == texs # {}                  \* fault: goes on with one
TexturesSuffice(texs) == texs = {"tex0", "tex1"}
CreateTextures ==
    /\ pc = "textures"
    /\ \E texs \in SUBSET {"tex0", "tex1"} :
          /\ Swap({}, texs)
          /\ ptrs' = ptrs \cup texs
          /\ Goto(IF TexturesSuffice(texs) THEN "thread" ELSE "done")
    /\ UNCHANGED <<discovery, target, addrs, thread>>

\* Nobody asks pthread_create for its result.
CreateThread ==
    /\ pc = "thread"
    /\ thread' \in BOOLEAN
    /\ Goto("control")
    /\ Keep
    /\ UNCHANGED <<discovery, target, addrs, ptrs>>

CreateControl ==
    /\ pc = "control"
    /\ \/ Acquire("control") /\ ptrs' = ptrs \cup {"control"} /\ Goto("loop")
       \/ Keep /\ Goto("done") /\ UNCHANGED ptrs
    /\ UNCHANGED <<discovery, target, addrs, thread>>

\* In the main loop VERSION_RESPONSE makes the control channel create a TLS
\* context; aa_tls_create takes itself apart when one of its steps fails.
CreateTls ==
    /\ pc = "loop" /\ "tls" \notin held
    /\ Acquire("tls")
    /\ UNCHANGED <<pc, discovery, target, addrs, ptrs, thread>>

\* START: aa_control_destroy with its session and TLS context.
Leave ==
    /\ pc = "loop"
    /\ Swap({"control"} \cup (held \cap {"tls"}), {})
    /\ ptrs' = ptrs \ {"control"}
    /\ Goto("done")
    /\ UNCHANGED <<discovery, target, addrs, thread>>

\* The block at done:, by main's variables.
Done ==
    /\ pc = "done"
    /\ Swap(System \cup (ptrs \ {"decoder"})
              \cup (IF "decoder" \in ptrs THEN Decoder ELSE {}), {})
    /\ ptrs' = {}
    /\ Goto("exited")
    /\ UNCHANGED <<discovery, target, addrs, thread>>

-----------------------------------------------------------------------------
Discover ==
    \/ LocalSocket \/ LocalName
    \/ SkipOwn \/ ScanEnds \/ ProbeSocket \/ ProbeAnswer
    \/ OpenConfig \/ ReadConfig
Connect == Resolve \/ AddrSocket \/ Connected \/ ConnectFails \/ AddrsExhausted
Prepare == CreateDecoder \/ CreateTextures \/ CreateThread \/ CreateControl

Next == Start \/ Discover \/ Connect \/ Prepare \/ CreateTls \/ Leave \/ Done

Spec == Init /\ [][Next]_vars

(* Every call of the preparations and of the block at done: returns, those  *)
(* that wait for the network by their timeouts.  START may never be pressed.*)
Fairness == WF_vars(Start \/ Discover \/ Connect \/ Prepare \/ Done)
FairSpec == Spec /\ Fairness

-----------------------------------------------------------------------------
(* Properties.                                                             *)

Labels == {"start", "local", "localname", "scan", "probe", "config", "readconfig",
           "connect", "tryaddr", "connecting", "textures", "thread", "control",
           "loop", "done", "exited"} \cup {Steps[k].pc : k \in DOMAIN Steps}

TypeOK ==
    /\ pc \in Labels
    /\ own \in 0 .. LastHost + 1 /\ next \in 1 .. LastHost + 1
    /\ probed \subseteq Hosts \ {own}
    /\ source \in {"none"} \cup Sources /\ host \in 0 .. LastHost
    /\ addrs \in 0 .. MaxAddrs
    /\ held \subseteq Resources /\ ptrs \subseteq Pointers
    /\ misused \in BOOLEAN /\ thread \in BOOLEAN

\* Whichever step fails, what was acquired is released, nothing twice, and the
\* probe's socket before the connection is tried: the phone serves one
\* connection (main, 306-308).
ReleasedOnce ==
    /\ ~misused
    /\ pc = "exited" => held = {}
    /\ pc \in {"connect", "tryaddr", "connecting", "loop"} => "probe" \notin held

\* The configured and the default address are for a network without a phone:
\* either the own address is unknown, or every other address was probed, and
\* one that is found is the lowest that answers.
FallbackIsLast ==
    /\ source \in {"default", "configured"} => next = 1 \/ probed = Hosts \ {own}
    /\ source = "discovered" => probed = {h \in Hosts : h <= host /\ h # own}

\* The decode thread starts with all it uses in place, and the main loop
\* runs with all that it draws.
PipelineComplete ==
    thread /\ pc \in {"control", "loop"} => Decoder \cup {"tex0", "tex1"} \subseteq held

\* The preparations come to an end: the main loop runs or the program exits.
StartupEnds == <>(pc \in {"loop", "exited"})
=============================================================================
