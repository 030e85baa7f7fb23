----------------------------- MODULE Negotiation -----------------------------
(***************************************************************************)
(* The FUSE_INIT handshake: Session::handshake (src/src/session.rs), the   *)
(* KernelConfig that Filesystem::init may change (src/src/lib.rs) and the  *)
(* answer Init::reply makes of it (src/src/ll/request.rs), as on Linux.    *)
(* Session has the handshake as one step; this is what happens in it.      *)
(***************************************************************************)
EXTENDS Integers

(* The capabilities, told apart by what the code does with them: asked for  *)
(* by default, asked for if offered, forcing default_permissions, extending *)
(* the set to 64 bits; then, from bit 32 on, not supported by fuser, needed *)
(* for max_stack_depth, and accepted under conditions.                      *)
Low   == {"ASYNC_READ", "MAX_PAGES", "POSIX_ACL", "INIT_EXT"}
High  == {"SECURITY_CTX", "PASSTHROUGH", "ALLOW_IDMAP"}
Flags == Low \cup High

INIT_FLAGS               == {"ASYNC_READ"}
UNSUPPORTED_CAPABILITIES == {"SECURITY_CTX"}

CONSTANTS
  Kernels,     \* the INIT requests of the kernels: see fuse_init_in
  Requested,   \* the arguments of add_capabilities: sets of Flags
  Values,      \* the arguments of the setters of KernelConfig
  MaxCalls     \* bound on the calls Filesystem::init makes on it

fuse_init_in == [major : Nat, minor : Nat, flags : SUBSET Flags, max_readahead : Nat]

(* Kernels before 7.23 know none of the capabilities that came later, and   *)
(* every kernel offers some readahead, within what the u16 max_pages counts *)
(* (Linux offers 128 KiB, MaxReadahead is close to 256 MiB).                *)
MaxReadahead == 268431360   \* 65535 pages
ASSUME NegotiationAssumption ==
  /\ Kernels \subseteq fuse_init_in
  /\ \A k \in Kernels : k.max_readahead \in 1 .. MaxReadahead
  /\ \A k \in Kernels : k.major = 7 /\ k.minor < 23 => k.flags \subseteq {"ASYNC_READ"}
  /\ Requested \subseteq SUBSET Flags
  /\ Values \subseteq Nat
  /\ MaxCalls \in Nat

MIN_WRITE_SIZE             == 4096
MAX_WRITE_SIZE             == 16777216    \* 16 MiB
FILESYSTEM_MAX_STACK_DEPTH == 2
PageSize                   == 4096
U16                        == 0 .. 65535
Second                     == 1000000000  \* in nanoseconds
Unset                      == 0           \* congestion_threshold: None

VARIABLES
  phase,       \* "wait" for INIT, inside Filesystem::"init", "done", "failed"
  acl,         \* the session's ACL is SessionACL::All, or "restricted"
  permissions, \* the mount option default_permissions: "checked" or "unchecked"
  offer,       \* the last INIT request
  config,      \* KernelConfig
  calls,       \* the number of calls made on it
  negotiated,  \* Session::negotiated, under which requests are parsed
  answer,      \* the last answer to INIT: "none", "version", "error", "init"
  out          \* the fuse_init_out of the answer "init"

sessionVars == <<acl, permissions>>
vars == <<phase, acl, permissions, offer, config, calls, negotiated, answer, out>>

PowersOfTen ==
  {1, 10, 100, 1000, 10000, 100000, 1000000, 10000000, 100000000, Second}

Configs ==
  [requested : SUBSET Flags,
   max_readahead : Nat,
   max_background : U16 \ {0},
   congestion_threshold : U16,
   max_write : MIN_WRITE_SIZE .. MAX_WRITE_SIZE,
   time_gran : PowersOfTen,
   max_stack_depth : 0 .. FILESYSTEM_MAX_STACK_DEPTH]

fuse_init_out ==
  [flags : SUBSET Flags, max_readahead : Nat, max_background : U16, congestion_threshold : U16,
   max_write : Nat, max_pages : U16, max_stack_depth : Nat]

TypeOK ==
  /\ phase \in {"wait", "init", "done", "failed"}
  /\ acl \in {"All", "restricted"}
  /\ permissions \in {"checked", "unchecked"}
  /\ offer \in fuse_init_in
  /\ config \in Configs
  /\ calls \in 0 .. MaxCalls
  /\ negotiated \in SUBSET Flags
  /\ answer \in {"none", "version", "error", "init"}
  /\ out \in fuse_init_out

(* KernelConfig::new; max_max_readahead is offer.max_readahead throughout. *)
NewConfig(caps, readahead) ==
  [requested |-> INIT_FLAGS \cup (caps \cap {"MAX_PAGES"}),
   max_readahead |-> readahead, max_background |-> 16, congestion_threshold |-> Unset,
   max_write |-> MAX_WRITE_SIZE, time_gran |-> 1, max_stack_depth |-> 0]

NoOut == [flags |-> {}, max_readahead |-> 0, max_background |-> 0, congestion_threshold |-> 0,
          max_write |-> 0, max_pages |-> 0, max_stack_depth |-> 0]

Init ==
  /\ phase = "wait"
  /\ acl \in {"All", "restricted"} /\ permissions \in {"checked", "unchecked"}
  /\ offer = [major |-> 0, minor |-> 0, flags |-> {}, max_readahead |-> 0]
  /\ config = NewConfig({}, 0) /\ calls = 0
  /\ negotiated = {} /\ answer = "none" /\ out = NoOut

-----------------------------------------------------------------------------
(* The INIT request.                                                       *)

\* Mutant of Capabilities: the upper half is read whether or not it was sent.
CapabilitiesUnchecked == offer.flags

(* Init::capabilities: flags2 counts only under FUSE_INIT_EXT. *)
Capabilities == IF "INIT_EXT" \in offer.flags THEN offer.flags ELSE offer.flags \cap Low

(* A newer major version is answered with ours, and the next INIT awaited; *)
(* versions before 7.6 are refused.                                        *)
Newer(k)  == k.major > 7
TooOld(k) == k.major < 7 \/ (k.major = 7 /\ k.minor < 6)

InitArrives(k) ==
  /\ phase = "wait"
  /\ offer' = k
  /\ \/ Newer(k) /\ answer' = "version" /\ UNCHANGED <<phase, config>>
     \/ TooOld(k) /\ answer' = "error" /\ phase' = "failed" /\ UNCHANGED config
     \/ /\ ~Newer(k) /\ ~TooOld(k)
        /\ phase' = "init"
        /\ config' = NewConfig(Capabilities', k.max_readahead)
        /\ UNCHANGED answer
  /\ UNCHANGED <<sessionVars, calls, negotiated, out>>

(* Another request is answered with an error; one that does not parse, or  *)
(* the end of the connection, leaves the last answer as it is.             *)
HandshakeFails ==
  /\ phase = "wait"
  /\ phase' = "failed"
  /\ answer' \in {"error", answer}
  /\ UNCHANGED <<sessionVars, offer, config, calls, negotiated, out>>

-----------------------------------------------------------------------------
(* What Filesystem::init does with the KernelConfig.                       *)

ConfigCall(new) ==
  /\ phase = "init" /\ calls < MaxCalls
  /\ config' = new
  /\ calls' = calls + 1
  /\ UNCHANGED <<phase, sessionVars, offer, negotiated, answer, out>>

\* Mutant of IdmapAvailable: POSIX ACLs count when they are offered, asked for or not.
IdmapAvailableIfOffered(adding) ==
  acl = "All" /\ (permissions = "checked" \/ "POSIX_ACL" \in Capabilities)

(* KernelConfig::idmap_available. *)
IdmapAvailable(adding) ==
  /\ acl = "All"
  /\ permissions = "checked" \/ "POSIX_ACL" \in (config.requested \cup adding) \cap Capabilities

\* Mutant of RefusedFlags: what the kernel offers is what can be had.
RefusedFlagsOffered(adding) ==
  {f \in adding : f \notin Capabilities \/ (f = "ALLOW_IDMAP" /\ ~IdmapAvailable(adding))}

(* KernelConfig::add_capabilities: all are added, or none. *)
RefusedFlags(adding) ==
  {f \in adding : \/ f \notin Capabilities
                  \/ f \in UNSUPPORTED_CAPABILITIES
                  \/ f = "ALLOW_IDMAP" /\ ~IdmapAvailable(adding)}

AddCapabilities(adding) ==
  ConfigCall(IF RefusedFlags(adding) = {}
               THEN [config EXCEPT !.requested = @ \cup adding]
               ELSE config)

(* The setters. Each one accepts a value, or refuses it and suggests        *)
(* another: the operator gives what the caller is left with.                *)
StackDepthFor(v) == IF v > FILESYSTEM_MAX_STACK_DEPTH THEN FILESYSTEM_MAX_STACK_DEPTH ELSE v

TimeGranFor(v) ==
  IF v = 0 THEN 1
  ELSE IF v >= Second THEN Second
  ELSE CHOOSE p \in PowersOfTen \ {Second} : p <= v /\ v < 10 * p

\* Mutant of MaxWriteFor: values too small are answered with the upper bound.
MaxWriteForSwapped(v) == IF v < MIN_WRITE_SIZE \/ v > MAX_WRITE_SIZE THEN MAX_WRITE_SIZE ELSE v

MaxWriteFor(v) ==
  IF v < MIN_WRITE_SIZE THEN MIN_WRITE_SIZE
  ELSE IF v > MAX_WRITE_SIZE THEN MAX_WRITE_SIZE
  ELSE v

MaxReadaheadFor(v) ==
  IF v = 0 THEN 1
  ELSE IF v > offer.max_readahead THEN offer.max_readahead
  ELSE v

AtLeastOne(v) == IF v = 0 THEN 1 ELSE v    \* set_max_background, set_congestion_threshold

SetMaxStackDepth(v) ==
  ConfigCall(IF StackDepthFor(v) = v THEN [config EXCEPT !.max_stack_depth = v] ELSE config)

SetTimeGranularity(v) ==
  ConfigCall(IF TimeGranFor(v) = v THEN [config EXCEPT !.time_gran = v] ELSE config)

SetMaxWrite(v) ==
  ConfigCall(IF MaxWriteFor(v) = v THEN [config EXCEPT !.max_write = v] ELSE config)

SetMaxReadahead(v) ==
  ConfigCall(IF MaxReadaheadFor(v) = v THEN [config EXCEPT !.max_readahead = v] ELSE config)

SetMaxBackground(v) ==
  v \in U16 /\ ConfigCall(IF AtLeastOne(v) = v THEN [config EXCEPT !.max_background = v] ELSE config)

SetCongestionThreshold(v) ==
  v \in U16 /\ ConfigCall(IF AtLeastOne(v) = v THEN [config EXCEPT !.congestion_threshold = v] ELSE config)

-----------------------------------------------------------------------------
(* The answer.                                                             *)

\* Mutant of CongestionThreshold: what was set is sent, whatever max_background became.
CongestionThresholdAsSet ==
  IF config.congestion_threshold = Unset THEN (config.max_background * 3) \div 4
  ELSE config.congestion_threshold

(* KernelConfig::congestion_threshold. *)
CongestionThreshold ==
  IF config.congestion_threshold = Unset THEN (config.max_background * 3) \div 4
  ELSE IF config.congestion_threshold <= config.max_background THEN config.congestion_threshold
  ELSE config.max_background

(* KernelConfig::max_pages, a u16. *)
MaxPages ==
  LET larger == IF config.max_write >= config.max_readahead THEN config.max_write
                ELSE config.max_readahead
  IN  ((((larger - 1) \div PageSize) % 65536) + 1) % 65536

(* Init::reply: capabilities that are not offered are left out, and for     *)
(* kernels before 7.23 everything after max_write is cut off.               *)
ReplyFlags == (config.requested \cup {"INIT_EXT"}) \cap Capabilities

Reply ==
  [flags |-> IF offer.minor < 23 THEN ReplyFlags \cap Low ELSE ReplyFlags,
   max_readahead |-> config.max_readahead,
   max_background |-> config.max_background,
   congestion_threshold |-> CongestionThreshold,
   max_write |-> config.max_write,
   max_pages |-> IF offer.minor < 23 THEN 0 ELSE MaxPages,
   max_stack_depth |-> IF offer.minor >= 23 /\ "PASSTHROUGH" \in ReplyFlags
                         THEN config.max_stack_depth ELSE 0]

(* What the event loops will parse requests under. *)
Negotiated == Capabilities \cap config.requested

InitSucceeds ==
  /\ phase = "init"
  /\ phase' = "done"
  /\ negotiated' = Negotiated
  /\ answer' = "init" /\ out' = Reply
  /\ UNCHANGED <<sessionVars, offer, config, calls>>

InitFails ==
  /\ phase = "init"
  /\ phase' = "failed" /\ answer' = "error"
  /\ UNCHANGED <<sessionVars, offer, config, calls, negotiated, out>>

-----------------------------------------------------------------------------
Over == phase \in {"done", "failed"} /\ UNCHANGED vars

Setter(v) ==
  \/ SetMaxStackDepth(v) \/ SetTimeGranularity(v) \/ SetMaxWrite(v)
  \/ SetMaxReadahead(v) \/ SetMaxBackground(v) \/ SetCongestionThreshold(v)

Next ==
  \/ \E k \in Kernels : InitArrives(k)
  \/ HandshakeFails
  \/ \E adding \in Requested : AddCapabilities(adding)
  \/ \E v \in Values : Setter(v)
  \/ InitSucceeds \/ InitFails
  \/ Over

Spec == Init /\ [][Next]_vars

-----------------------------------------------------------------------------
(* The capabilities the kernel reads from the answer: the upper half only   *)
(* under FUSE_INIT_EXT.                                                     *)
KernelFlags == IF "INIT_EXT" \in out.flags THEN out.flags ELSE out.flags \cap Low

(* After the handshake both sides speak the same protocol: the event loops  *)
(* parse requests under the capabilities the kernel has read in the answer. *)
Agreement == phase = "done" => negotiated \ {"INIT_EXT"} = KernelFlags \ {"INIT_EXT"}

(* FUSE_ALLOW_IDMAP is agreed on only where it can be honoured, in whatever *)
(* calls it was asked for: default_permissions is in force, by the mount    *)
(* option or because the same answer has FUSE_POSIX_ACL, and the ACL needs  *)
(* no uids. Anything else makes the kernel refuse the connection.           *)
IdmapHonoured ==
  phase = "done" /\ "ALLOW_IDMAP" \in KernelFlags =>
    acl = "All" /\ (permissions = "checked" \/ "POSIX_ACL" \in KernelFlags)

(* The answer has no capability that was not offered, and none that fuser   *)
(* cannot provide.                                                          *)
OnlyProvided ==
  phase = "done" => KernelFlags \subseteq offer.flags \ UNSUPPORTED_CAPABILITIES

(* The limits in the answer fit together, whichever setters were called in  *)
(* which order: the congestion threshold is within max_background, and the  *)
(* largest write fits the pages of a request and fuser's read buffer.       *)
LimitsFit ==
  phase = "done" =>
    /\ out.congestion_threshold <= out.max_background
    /\ "MAX_PAGES" \in KernelFlags => out.max_pages * PageSize >= out.max_write
    /\ out.max_write \in MIN_WRITE_SIZE .. MAX_WRITE_SIZE
    /\ out.max_readahead <= offer.max_readahead
    /\ out.max_stack_depth > 0 => "PASSTHROUGH" \in KernelFlags

Distance(a, b) == IF a >= b THEN a - b ELSE b - a

(* suggestion(v) is a value that the setter accepts.                        *)
Accepted(suggestion(_)) == \A v \in Values : suggestion(suggestion(v)) = suggestion(v)

(* No value that the setter accepts is nearer to v than suggestion(v).      *)
Nearest(suggestion(_)) ==
  \A v, u \in Values : suggestion(u) = u => Distance(v, suggestion(v)) <= Distance(v, u)

(* No value that the setter accepts lies between v and suggestion(v).       *)
NothingBetween(suggestion(_)) ==
  \A v, u \in Values : suggestion(u) = u => ~(suggestion(v) < u /\ u < v) /\ ~(v < u /\ u < suggestion(v))

(* A setter that refuses a value answers with one it accepts. For the       *)
(* five setters that refuse values beyond a limit it is "the nearest value  *)
(* which will succeed", as their documentation says. set_time_granularity,  *)
(* documented alike, is held to less here: no valid granularity lies        *)
(* between the value and the suggestion. GranularityNearest is its promise. *)
SuggestionsNearest ==
  phase = "init" =>
    /\ Accepted(StackDepthFor)   /\ Nearest(StackDepthFor)
    /\ Accepted(MaxWriteFor)     /\ Nearest(MaxWriteFor)
    /\ Accepted(MaxReadaheadFor) /\ Nearest(MaxReadaheadFor)
    /\ Accepted(AtLeastOne)      /\ Nearest(AtLeastOne)
    /\ Accepted(TimeGranFor)     /\ NothingBetween(TimeGranFor)

(* What the documentation of set_time_granularity says (src/src/lib.rs:488) *)
(* of a value that is no power of ten: it "returns the nearest value which  *)
(* will succeed". The code rounds down: 9 is answered with 1, not with 10.  *)
GranularityNearest == phase = "init" => Nearest(TimeGranFor)
==============================================================================
