-------------------------- MODULE NegotiationProofs --------------------------
(***************************************************************************)
(* Proofs about Negotiation, for every set of kernels, of capabilities     *)
(* asked for and of arguments, and every number of calls. What is agreed   *)
(* on at the end depends on every call made on the KernelConfig before, so *)
(* the inductive invariant says of the requested capabilities what the     *)
(* properties say of the answer.                                           *)
(***************************************************************************)
EXTENDS Negotiation, TLAPS

(* The kernel answered is one of those assumed. *)
OfferInv ==
  /\ offer.major = 7
  /\ offer.minor < 23 => offer.flags \subseteq {"ASYNC_READ"}
  /\ offer.max_readahead \in 1 .. MaxReadahead

(* What add_capabilities and the setters keep of the KernelConfig. *)
ConfigInv ==
  /\ config.requested \ INIT_FLAGS \subseteq Capabilities \ UNSUPPORTED_CAPABILITIES
  /\ "ALLOW_IDMAP" \in config.requested =>
       acl = "All" /\ (permissions = "checked" \/ "POSIX_ACL" \in config.requested \cap Capabilities)
  /\ config.max_readahead \in 1 .. offer.max_readahead

NInv ==
  /\ TypeOK
  /\ phase \in {"init", "done"} => OfferInv /\ ConfigInv
  /\ phase = "done" => out = Reply /\ negotiated = Negotiated

USE DEF sessionVars

(* The constants of the code, as far as the arithmetic below needs them.    *)
LEMMA Sizes ==
  /\ MIN_WRITE_SIZE \in Nat /\ MAX_WRITE_SIZE \in Nat /\ MaxReadahead \in Nat
  /\ 1 <= MIN_WRITE_SIZE /\ MIN_WRITE_SIZE <= MAX_WRITE_SIZE /\ MAX_WRITE_SIZE <= MaxReadahead
  BY SMT DEF MIN_WRITE_SIZE, MAX_WRITE_SIZE, MaxReadahead

LEMMA Width ==
  ASSUME NEW x \in Int
  PROVE  x \in U16 <=> 0 <= x /\ x <= 65535
  BY SMT DEF U16

LEMMA WidthType ==
  ASSUME NEW x \in U16
  PROVE  x \in Int
  BY SMT DEF U16

(* A number of pages that a u16 can hold is not changed by the cast, and    *)
(* the pages cover what they were counted for.                              *)
LEMMA PagesCover ==
  ASSUME NEW n \in Int, 1 <= n, n <= MaxReadahead
  PROVE  /\ ((((n - 1) \div PageSize) % 65536) + 1) % 65536 = ((n - 1) \div PageSize) + 1
         /\ n <= (((n - 1) \div PageSize) + 1) * PageSize
<1> DEFINE pages == (n - 1) \div 4096
<1>1. pages \in Int /\ 0 <= pages /\ pages < 65535 /\ n <= (pages + 1) * 4096
  BY SMT DEF MaxReadahead
<1>2. ASSUME NEW x \in Int, 0 <= x, x < 65536 PROVE x % 65536 = x
  BY <1>2, SMT
<1>3. (pages % 65536) + 1 = pages + 1 /\ (pages + 1) % 65536 = pages + 1
  <2> HIDE DEF pages
  <2> QED
    BY <1>1, <1>2, SMT
<1> QED
  BY <1>1, <1>3, SMT DEF PageSize

(* KernelConfig::new makes a configuration of the right type. *)
LEMMA NewConfigType ==
  ASSUME NEW caps \in SUBSET Flags, NEW readahead \in Nat
  PROVE  NewConfig(caps, readahead) \in Configs
<1>1. INIT_FLAGS \cup (caps \cap {"MAX_PAGES"}) \subseteq Flags
  BY DEF Flags, Low, INIT_FLAGS
<1>2. 16 \in U16 \ {0} /\ Unset \in U16
  BY SMT DEF U16, Unset
<1>3. MAX_WRITE_SIZE \in MIN_WRITE_SIZE .. MAX_WRITE_SIZE
  BY Sizes, SMT
<1>4. 1 \in PowersOfTen /\ 0 \in 0 .. FILESYSTEM_MAX_STACK_DEPTH
  BY SMT DEF PowersOfTen, FILESYSTEM_MAX_STACK_DEPTH
<1> QED
  BY <1>1, <1>2, <1>3, <1>4 DEF NewConfig, Configs

(* The answer of Init::reply has the right type: none of its fields leaves  *)
(* its width.                                                               *)
LEMMA ReplyType ==
  ASSUME TypeOK
  PROVE  Reply \in fuse_init_out
<1>0. config \in Configs /\ offer \in fuse_init_in
  BY DEF TypeOK
<1>1. ReplyFlags \subseteq Flags
  BY <1>0 DEF ReplyFlags, Capabilities, fuse_init_in
<1>2. CongestionThreshold \in U16 /\ config.max_background \in U16
  <2>1. config.max_background \in U16 /\ config.congestion_threshold \in U16
    BY <1>0 DEF Configs
  <2> QED
    BY <2>1, Width, WidthType, SMT DEF CongestionThreshold, Unset
<1>3. config.max_write \in Nat /\ config.max_readahead \in Nat /\ config.max_write >= 1
  BY <1>0, Sizes, SMT DEF Configs
<1>4. MaxPages \in U16
  <2>1. ASSUME NEW x \in Int PROVE ((x % 65536) + 1) % 65536 \in Int
                                   /\ 0 <= ((x % 65536) + 1) % 65536
                                   /\ ((x % 65536) + 1) % 65536 <= 65535
    BY <2>1, SMT
  <2>2. ASSUME NEW x \in Int PROVE (x - 1) \div PageSize \in Int
    BY <2>2, SMT DEF PageSize
  <2> QED
    BY <1>3, <2>1, <2>2, Width, SMT DEF MaxPages
<1>5. config.max_stack_depth \in Nat
  BY <1>0 DEF Configs, FILESYSTEM_MAX_STACK_DEPTH
<1>6. 0 \in U16
  BY SMT DEF U16
<1> QED
  BY <1>1, <1>2, <1>3, <1>4, <1>5, <1>6 DEF Reply, fuse_init_out

(* A call on the KernelConfig that leaves a good one leaves the invariant.  *)
LEMMA ConfigCallKeeps ==
  ASSUME NInv, NEW new, ConfigCall(new),
         new \in Configs,
         new.requested = config.requested,
         new.max_readahead \in 1 .. offer.max_readahead
  PROVE  NInv'
<1> USE DEF NInv, ConfigCall
<1>1. TypeOK'
  BY NegotiationAssumption DEF TypeOK
<1>2. OfferInv' /\ ConfigInv'
  BY DEF OfferInv, ConfigInv, Capabilities
<1> QED
  BY <1>1, <1>2

(* What set_time_granularity leaves its caller with: a power of ten, and of *)
(* those up to the value the largest.                                       *)
LEMMA Granularity ==
  ASSUME NEW v \in Nat, NEW g, g = TimeGranFor(v)
  PROVE  /\ g \in PowersOfTen
         /\ v = 0 => g = 1
         /\ v >= Second => g = Second
         /\ v > 0 /\ v < Second => g <= v /\ v < 10 * g
<1>1. CASE v = 0 \/ v >= Second
  BY <1>1, SMT DEF TimeGranFor, PowersOfTen, Second
<1>2. CASE v > 0 /\ v < Second
  <2> DEFINE Below(p) == p <= v /\ v < 10 * p
  <2>1. \E p \in PowersOfTen \ {Second} : Below(p)
    BY <1>2, SMT DEF PowersOfTen, Second
  <2>2. g = CHOOSE p \in PowersOfTen \ {Second} : Below(p)
    BY <1>2, SMT DEF TimeGranFor, Second
  <2>3. g \in PowersOfTen \ {Second} /\ Below(g)
    BY <2>1, <2>2
  <2> QED
    BY <1>2, <2>3, SMT DEF Second
<1> QED
  BY <1>1, <1>2, SMT DEF Second

(* Every power of ten is accepted.                                          *)
LEMMA PowersAccepted ==
  ASSUME NEW v \in PowersOfTen
  PROVE  v \in Nat /\ TimeGranFor(v) = v
<1>1. v \in Nat /\ v > 0 /\ v <= Second
  BY SMT DEF PowersOfTen, Second
<1>2. PICK g : g = TimeGranFor(v)
  OBVIOUS
<1>3. /\ g \in PowersOfTen
      /\ v >= Second => g = Second
      /\ v > 0 /\ v < Second => g <= v /\ v < 10 * g
  BY <1>1, <1>2, Granularity
<1>4. g = v
  BY <1>1, <1>3, SMT DEF PowersOfTen, Second
<1> QED
  BY <1>1, <1>2, <1>4

(* An accepted value of set_time_granularity is a power of ten. *)
LEMMA GranularityAccepted ==
  ASSUME NEW v \in Nat, TimeGranFor(v) = v
  PROVE  v \in PowersOfTen
  BY Granularity

(* The setters of KernelConfig keep the invariant, whatever they are given. *)
LEMMA SettersKeep ==
  ASSUME NInv, NEW v \in Values, Setter(v)
  PROVE  NInv'
<1> USE NegotiationAssumption
<1>0. config \in Configs /\ phase = "init" /\ v \in Nat /\ OfferInv /\ ConfigInv
  BY DEF NInv, TypeOK, Setter, SetMaxStackDepth, SetTimeGranularity, SetMaxWrite,
         SetMaxReadahead, SetMaxBackground, SetCongestionThreshold, ConfigCall
<1>1. config.max_readahead \in 1 .. offer.max_readahead /\ offer.max_readahead \in Nat
  BY <1>0 DEF ConfigInv, NInv, TypeOK, fuse_init_in
<1>2. CASE SetMaxStackDepth(v)
  <2>1. StackDepthFor(v) = v => [config EXCEPT !.max_stack_depth = v] \in Configs
    BY <1>0 DEF StackDepthFor, Configs, FILESYSTEM_MAX_STACK_DEPTH
  <2> QED
    BY <1>0, <1>1, <1>2, <2>1, ConfigCallKeeps DEF SetMaxStackDepth, Configs
<1>3. CASE SetTimeGranularity(v)
  <2>1. TimeGranFor(v) = v => [config EXCEPT !.time_gran = v] \in Configs
    BY <1>0, GranularityAccepted DEF Configs
  <2> QED
    BY <1>0, <1>1, <1>3, <2>1, ConfigCallKeeps DEF SetTimeGranularity, Configs
<1>4. CASE SetMaxWrite(v)
  <2>1. MaxWriteFor(v) = v => [config EXCEPT !.max_write = v] \in Configs
    BY <1>0, Sizes, SMT DEF MaxWriteFor, Configs
  <2> QED
    BY <1>0, <1>1, <1>4, <2>1, ConfigCallKeeps DEF SetMaxWrite, Configs
<1>5. CASE SetMaxReadahead(v)
  <2>1. MaxReadaheadFor(v) = v =>
          /\ v \in 1 .. offer.max_readahead
          /\ [config EXCEPT !.max_readahead = v] \in Configs
    BY <1>0, <1>1 DEF MaxReadaheadFor, Configs
  <2> QED
    BY <1>0, <1>1, <1>5, <2>1, ConfigCallKeeps DEF SetMaxReadahead, Configs
<1>6. CASE SetMaxBackground(v)
  <2>1. AtLeastOne(v) = v /\ v \in U16 => [config EXCEPT !.max_background = v] \in Configs
    BY <1>0, SMT DEF AtLeastOne, Configs
  <2> QED
    BY <1>0, <1>1, <1>6, <2>1, ConfigCallKeeps DEF SetMaxBackground, Configs
<1>7. CASE SetCongestionThreshold(v)
  <2>1. v \in U16 => [config EXCEPT !.congestion_threshold = v] \in Configs
    BY <1>0 DEF Configs
  <2> QED
    BY <1>0, <1>1, <1>7, <2>1, ConfigCallKeeps DEF SetCongestionThreshold, Configs
<1> QED
  BY <1>2, <1>3, <1>4, <1>5, <1>6, <1>7 DEF Setter

(* So does add_capabilities: a refused call changes nothing, and what an    *)
(* accepted one adds is offered, supported and, for ALLOW_IDMAP, honoured.  *)
LEMMA AddCapabilitiesKeeps ==
  ASSUME NInv, NEW adding \in Requested, AddCapabilities(adding)
  PROVE  NInv'
<1> USE NegotiationAssumption
<1>0. config \in Configs /\ phase = "init" /\ adding \subseteq Flags /\ OfferInv /\ ConfigInv
  BY DEF NInv, TypeOK, AddCapabilities, ConfigCall
<1>1. CASE RefusedFlags(adding) # {}
  <2>1. config.max_readahead \in 1 .. offer.max_readahead
    BY <1>0 DEF ConfigInv
  <2> QED
    BY <1>0, <1>1, <2>1, ConfigCallKeeps DEF AddCapabilities
<1>2. CASE RefusedFlags(adding) = {}
  <2>1. config' = [config EXCEPT !.requested = @ \cup adding]
    BY <1>2 DEF AddCapabilities, ConfigCall
  <2>2. UNCHANGED <<phase, sessionVars, offer, negotiated, answer, out>> /\ calls' = calls + 1
        /\ calls < MaxCalls
    BY DEF AddCapabilities, ConfigCall
  <2>3. config' \in Configs
    BY <1>0, <2>1 DEF Configs
  <2>4. TypeOK'
    BY <2>2, <2>3 DEF NInv, TypeOK
  <2>5. config'.requested = config.requested \cup adding
        /\ config'.max_readahead = config.max_readahead
    BY <1>0, <2>1 DEF Configs
  <2>6. \A f \in adding : /\ f \in Capabilities
                          /\ f \notin UNSUPPORTED_CAPABILITIES
                          /\ f = "ALLOW_IDMAP" => IdmapAvailable(adding)
    BY <1>2 DEF RefusedFlags
  <2>7. ConfigInv'
    BY <1>0, <2>2, <2>5, <2>6 DEF ConfigInv, IdmapAvailable, Capabilities
  <2> QED
    BY <1>0, <2>2, <2>4, <2>7 DEF NInv, OfferInv
<1> QED
  BY <1>1, <1>2

(* NInv is inductive. *)
THEOREM NegotiationInvariance == Spec => []NInv
<1> USE NegotiationAssumption
<1>1. Init => NInv
  <2> SUFFICES ASSUME Init PROVE NInv
    OBVIOUS
  <2>1. config \in Configs
    BY NewConfigType DEF Init
  <2>2. offer \in fuse_init_in /\ out \in fuse_init_out
    BY SMT DEF Init, fuse_init_in, NoOut, fuse_init_out, U16
  <2> QED
    BY <2>1, <2>2 DEF Init, NInv, TypeOK
<1>2. NInv /\ [Next]_vars => NInv'
  <2> SUFFICES ASSUME NInv, [Next]_vars PROVE NInv'
    OBVIOUS
  <2>1. ASSUME NEW k \in Kernels, InitArrives(k) PROVE NInv'
    <3>1. offer' = k /\ k \in fuse_init_in /\ phase = "wait"
      BY <2>1 DEF InitArrives
    <3>2. Capabilities' \subseteq Flags
      BY <3>1 DEF Capabilities, fuse_init_in, Flags
    <3>3. config' = config \/ config' = NewConfig(Capabilities', k.max_readahead)
      BY <2>1 DEF InitArrives
    <3>4. config' \in Configs
      BY <3>1, <3>2, <3>3, NewConfigType DEF NInv, TypeOK, fuse_init_in
    <3>5. TypeOK'
      BY <2>1, <3>1, <3>4 DEF InitArrives, NInv, TypeOK
    <3>6. phase' # "done"
      BY <2>1, <3>1 DEF InitArrives
    <3>7. phase' = "init" => OfferInv' /\ ConfigInv'
      <4> SUFFICES ASSUME phase' = "init" PROVE OfferInv' /\ ConfigInv'
        OBVIOUS
      <4>1. config' = NewConfig(Capabilities', k.max_readahead) /\ k.major = 7
        BY <2>1, <3>1 DEF InitArrives, Newer, TooOld, fuse_init_in
      <4>2. OfferInv'
        BY <3>1, <4>1 DEF OfferInv
      <4>3. config'.requested = INIT_FLAGS \cup (Capabilities' \cap {"MAX_PAGES"})
            /\ config'.max_readahead = k.max_readahead
        BY <4>1 DEF NewConfig
      <4>4. k.max_readahead \in 1 .. k.max_readahead
        BY <3>1, Sizes, SMT DEF fuse_init_in
      <4>5. ConfigInv'
        BY <3>1, <4>3, <4>4 DEF ConfigInv, INIT_FLAGS, UNSUPPORTED_CAPABILITIES
      <4> QED
        BY <4>2, <4>5
    <3> QED
      BY <3>5, <3>6, <3>7 DEF NInv
  <2>2. CASE HandshakeFails
    BY <2>2 DEF HandshakeFails, NInv, TypeOK
  <2>3. ASSUME NEW adding \in Requested, AddCapabilities(adding) PROVE NInv'
    BY <2>3, AddCapabilitiesKeeps
  <2>4. ASSUME NEW v \in Values, Setter(v) PROVE NInv'
    BY <2>4, SettersKeep
  <2>5. CASE InitSucceeds
    <3>1. Reply \in fuse_init_out
      BY ReplyType DEF NInv
    <3>2. Negotiated \subseteq Flags
      BY DEF NInv, TypeOK, Configs, Negotiated
    <3>3. TypeOK'
      BY <2>5, <3>1, <3>2 DEF InitSucceeds, NInv, TypeOK
    <3>4. OfferInv' /\ ConfigInv'
      BY <2>5 DEF InitSucceeds, NInv, OfferInv, ConfigInv, Capabilities
    <3>5. Reply' = Reply /\ Negotiated' = Negotiated
      BY <2>5 DEF InitSucceeds, Reply, ReplyFlags, Negotiated, Capabilities, MaxPages,
                  CongestionThreshold
    <3> QED
      BY <2>5, <3>3, <3>4, <3>5 DEF InitSucceeds, NInv
  <2>6. CASE InitFails
    BY <2>6 DEF InitFails, NInv, TypeOK
  <2>7. CASE UNCHANGED vars
    <3>1. TypeOK' = TypeOK /\ OfferInv' = OfferInv /\ ConfigInv' = ConfigInv
      BY <2>7 DEF vars, TypeOK, OfferInv, ConfigInv, Capabilities
    <3>2. Reply' = Reply /\ Negotiated' = Negotiated
      BY <2>7 DEF vars, Reply, ReplyFlags, Negotiated, Capabilities, MaxPages,
                  CongestionThreshold
    <3> QED
      BY <2>7, <3>1, <3>2 DEF vars, NInv
  <2> QED
    BY <2>1, <2>2, <2>3, <2>4, <2>5, <2>6, <2>7 DEF Next, Over
<1> QED
  BY <1>1, <1>2, PTL DEF Spec

(* The session's state, the KernelConfig and the answer stay in their types. *)
THEOREM NegotiationTypeCorrect == Spec => []TypeOK
<1>1. NInv => TypeOK
  BY DEF NInv
<1> QED
  BY <1>1, NegotiationInvariance, PTL

(* What the kernel reads of the flags Init::reply sends: the requested ones *)
(* that it offered.                                                         *)
LEMMA KernelReads ==
  ASSUME NInv, phase = "done"
  PROVE  /\ KernelFlags \ {"INIT_EXT"} = Negotiated \ {"INIT_EXT"}
         /\ KernelFlags \subseteq Capabilities
<1>1. out.flags = IF offer.minor < 23 THEN ReplyFlags \cap Low ELSE ReplyFlags
  BY DEF NInv, Reply
<1>2. offer.flags \subseteq Low \cup High /\ config.requested \subseteq Low \cup High
  BY DEF NInv, TypeOK, fuse_init_in, Configs, Flags
<1>3. CASE offer.minor < 23
  <2>1. Capabilities \subseteq {"ASYNC_READ"}
    BY <1>3 DEF NInv, OfferInv, Capabilities
  <2>2. out.flags = Capabilities \cap config.requested
    BY <1>1, <1>3, <2>1 DEF ReplyFlags, Low
  <2>3. KernelFlags = out.flags
    BY <2>1, <2>2 DEF KernelFlags, Low
  <2> QED
    BY <2>2, <2>3 DEF Negotiated
<1>4. CASE ~(offer.minor < 23)
  <2>1. out.flags = (config.requested \cup {"INIT_EXT"}) \cap Capabilities
    BY <1>1, <1>4 DEF ReplyFlags
  <2>2. CASE "INIT_EXT" \in offer.flags
    BY <2>1, <2>2 DEF KernelFlags, Capabilities, Negotiated
  <2>3. CASE "INIT_EXT" \notin offer.flags
    BY <1>2, <2>1, <2>3 DEF KernelFlags, Capabilities, Negotiated
  <2> QED
    BY <2>2, <2>3
<1> QED
  BY <1>3, <1>4

(* After the handshake the event loops parse requests under the             *)
(* capabilities the kernel has read in the answer of Init::reply.           *)
THEOREM AgreementHolds == Spec => []Agreement
<1>1. NInv => Agreement
  BY KernelReads DEF NInv, Agreement
<1> QED
  BY <1>1, NegotiationInvariance, PTL

(* FUSE_ALLOW_IDMAP is agreed on only where it can be honoured, whatever    *)
(* sequence of add_capabilities calls asked for it.                         *)
THEOREM IdmapIsHonoured == Spec => []IdmapHonoured
<1>1. NInv => IdmapHonoured
  <2> SUFFICES ASSUME NInv, phase = "done", "ALLOW_IDMAP" \in KernelFlags
               PROVE  acl = "All" /\ (permissions = "checked" \/ "POSIX_ACL" \in KernelFlags)
    BY DEF IdmapHonoured
  <2>1. "ALLOW_IDMAP" \in config.requested
    BY KernelReads DEF Negotiated
  <2>2. "POSIX_ACL" \in config.requested \cap Capabilities => "POSIX_ACL" \in KernelFlags
    BY KernelReads DEF Negotiated
  <2> QED
    BY <2>1, <2>2 DEF NInv, ConfigInv
<1> QED
  BY <1>1, NegotiationInvariance, PTL

(* Init::reply answers with no capability that was not offered and none     *)
(* that fuser cannot provide.                                               *)
THEOREM OnlyProvidedHolds == Spec => []OnlyProvided
<1>1. NInv => OnlyProvided
  <2> SUFFICES ASSUME NInv, phase = "done", NEW f \in KernelFlags
               PROVE  f \in offer.flags /\ f \notin UNSUPPORTED_CAPABILITIES
    BY DEF OnlyProvided
  <2>1. f \in offer.flags
    BY KernelReads DEF Capabilities
  <2>2. f = "INIT_EXT" \/ f \in config.requested
    BY KernelReads DEF Negotiated
  <2> QED
    BY <2>1, <2>2 DEF NInv, ConfigInv, INIT_FLAGS, UNSUPPORTED_CAPABILITIES
<1> QED
  BY <1>1, NegotiationInvariance, PTL

(* The limits in the answer fit together, whichever setters were called.    *)
THEOREM LimitsFitTogether == Spec => []LimitsFit
<1>1. NInv => LimitsFit
  <2> SUFFICES ASSUME NInv, phase = "done" PROVE LimitsFit
    BY DEF LimitsFit
  <2>1. config \in Configs /\ out = Reply /\ offer \in fuse_init_in /\ OfferInv /\ ConfigInv
    BY DEF NInv, TypeOK
  <2>2. CongestionThreshold <= config.max_background
    <3>1. config.max_background \in U16 /\ config.congestion_threshold \in U16
      BY <2>1 DEF Configs
    <3> QED
      BY <3>1, Width, WidthType, SMT DEF CongestionThreshold, Unset
  <2>3. MaxPages * PageSize >= config.max_write
    <3> DEFINE larger == IF config.max_write >= config.max_readahead THEN config.max_write
                         ELSE config.max_readahead
    <3>1. larger \in Int /\ 1 <= larger /\ larger <= MaxReadahead /\ larger >= config.max_write
          /\ config.max_write \in Int
      BY <2>1, Sizes, SMT DEF Configs, OfferInv, ConfigInv
    <3>2. MaxPages = ((larger - 1) \div PageSize) + 1 /\ larger <= MaxPages * PageSize
      BY <3>1, PagesCover DEF MaxPages
    <3>3. MaxPages * PageSize \in Int
      BY <3>1, <3>2, SMT DEF PageSize
    <3> QED
      BY <3>1, <3>2, <3>3, SMT
  <2>4. "MAX_PAGES" \in KernelFlags => out.max_pages = MaxPages
    BY <2>1, KernelReads DEF Reply, OfferInv, Capabilities
  <2>5. out.max_stack_depth > 0 => "PASSTHROUGH" \in KernelFlags
    <3>1. out.max_stack_depth = IF offer.minor >= 23 /\ "PASSTHROUGH" \in ReplyFlags
                                  THEN config.max_stack_depth ELSE 0
      BY <2>1 DEF Reply
    <3> QED
      BY <3>1, KernelReads DEF ReplyFlags, Negotiated
  <2> QED
    BY <2>1, <2>2, <2>3, <2>4, <2>5 DEF LimitsFit, Reply, ConfigInv, Configs
<1> QED
  BY <1>1, NegotiationInvariance, PTL

(* Every setter suggests a value it accepts, the nearest one where it has   *)
(* refused a value beyond a limit, and for set_time_granularity one with no *)
(* valid granularity in between; for all values and every readahead that a  *)
(* kernel may offer.                                                        *)
THEOREM SuggestionsAreNearest == Spec => []SuggestionsNearest
<1>1. NInv => SuggestionsNearest
  <2> SUFFICES ASSUME NInv, phase = "init"
               PROVE  /\ Accepted(StackDepthFor) /\ Nearest(StackDepthFor)
                      /\ Accepted(MaxWriteFor) /\ Nearest(MaxWriteFor)
                      /\ Accepted(MaxReadaheadFor) /\ Nearest(MaxReadaheadFor)
                      /\ Accepted(AtLeastOne) /\ Nearest(AtLeastOne)
                      /\ Accepted(TimeGranFor) /\ NothingBetween(TimeGranFor)
    BY DEF SuggestionsNearest
  <2>1. \A v \in Values : v \in Nat
    BY NegotiationAssumption
  <2>2. offer.max_readahead \in Nat /\ offer.max_readahead >= 1
    <3>1. config.max_readahead \in 1 .. offer.max_readahead /\ offer.max_readahead \in Nat
      BY DEF NInv, ConfigInv, TypeOK, fuse_init_in
    <3> QED
      BY <3>1, SMT
  <2>3. Accepted(StackDepthFor) /\ Nearest(StackDepthFor)
    <3>1. ASSUME NEW v \in Nat, NEW u \in Nat
          PROVE  /\ StackDepthFor(StackDepthFor(v)) = StackDepthFor(v)
                 /\ StackDepthFor(u) = u => Distance(v, StackDepthFor(v)) <= Distance(v, u)
      BY SMT DEF StackDepthFor, Distance, FILESYSTEM_MAX_STACK_DEPTH
    <3> QED
      BY <2>1, <3>1 DEF Accepted, Nearest
  <2>4. Accepted(MaxWriteFor) /\ Nearest(MaxWriteFor)
    <3>1. ASSUME NEW v \in Nat, NEW u \in Nat
          PROVE  /\ MaxWriteFor(MaxWriteFor(v)) = MaxWriteFor(v)
                 /\ MaxWriteFor(u) = u => Distance(v, MaxWriteFor(v)) <= Distance(v, u)
      BY SMT DEF MaxWriteFor, Distance, MIN_WRITE_SIZE, MAX_WRITE_SIZE
    <3> QED
      BY <2>1, <3>1 DEF Accepted, Nearest
  <2>5. Accepted(MaxReadaheadFor) /\ Nearest(MaxReadaheadFor)
    <3>1. ASSUME NEW v \in Nat, NEW u \in Nat
          PROVE  /\ MaxReadaheadFor(MaxReadaheadFor(v)) = MaxReadaheadFor(v)
                 /\ MaxReadaheadFor(u) = u => Distance(v, MaxReadaheadFor(v)) <= Distance(v, u)
      BY <2>2, SMT DEF MaxReadaheadFor, Distance
    <3> QED
      BY <2>1, <3>1 DEF Accepted, Nearest
  <2>6. Accepted(AtLeastOne) /\ Nearest(AtLeastOne)
    <3>1. ASSUME NEW v \in Nat, NEW u \in Nat
          PROVE  /\ AtLeastOne(AtLeastOne(v)) = AtLeastOne(v)
                 /\ AtLeastOne(u) = u => Distance(v, AtLeastOne(v)) <= Distance(v, u)
      BY SMT DEF AtLeastOne, Distance
    <3> QED
      BY <2>1, <3>1 DEF Accepted, Nearest
  <2>7. Accepted(TimeGranFor)
    BY <2>1, Granularity, PowersAccepted DEF Accepted
  <2>8. NothingBetween(TimeGranFor)
    <3> SUFFICES ASSUME NEW v \in Values, NEW u \in Values, TimeGranFor(u) = u
                 PROVE  ~(TimeGranFor(v) < u /\ u < v) /\ ~(v < u /\ u < TimeGranFor(v))
      BY DEF NothingBetween
    <3>1. PICK g : g = TimeGranFor(v)
      OBVIOUS
    <3>2. /\ v \in Nat /\ g \in PowersOfTen /\ u \in PowersOfTen
          /\ v = 0 => g = 1
          /\ v >= Second => g = Second
          /\ v > 0 /\ v < Second => g <= v /\ v < 10 * g
      BY <2>1, <3>1, Granularity, GranularityAccepted
    <3>3. ~(g < u /\ u < v) /\ ~(v < u /\ u < g)
      BY <3>2, SMT DEF PowersOfTen, Second
    <3> QED
      BY <3>1, <3>3
  <2> QED
    BY <2>3, <2>4, <2>5, <2>6, <2>7, <2>8
<1> QED
  BY <1>1, NegotiationInvariance, PTL
==============================================================================
