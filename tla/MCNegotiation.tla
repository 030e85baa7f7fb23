---------------------------- MODULE MCNegotiation ----------------------------
(* Negotiation for TLC: kernels of every kind the code tells apart, with    *)
(* and without FUSE_INIT_EXT and each capability; values on both sides of   *)
(* every bound of KernelConfig.                                             *)
EXTENDS Negotiation

MCOffers ==
  {{}, {"ASYNC_READ", "ALLOW_IDMAP", "PASSTHROUGH"}, Low, Flags}
    \cup {Flags \ {f} : f \in Flags}

Kernel(version, flags, readahead) ==
  [major |-> version[1], minor |-> version[2], flags |-> flags, max_readahead |-> readahead]

MCKernels ==
  {Kernel(v, {"ASYNC_READ"}, 131072) : v \in {<<6, 40>>, <<7, 5>>, <<7, 6>>, <<7, 22>>, <<8, 0>>}}
    \cup {Kernel(<<7, 40>>, flags, 131072) : flags \in MCOffers}
    \cup {Kernel(<<7, 40>>, Flags, 1), Kernel(<<7, 40>>, Low, 134217728)}

MCRequested ==
  {{f} : f \in Flags \ {"INIT_EXT"}}
    \cup {{"POSIX_ACL", "ALLOW_IDMAP"}, {"POSIX_ACL", "SECURITY_CTX"}}

MCValues ==
  {0, 1, 2, 3, 9, 10, 16, 4095, 4096, 4097, 65535, 65536, 131072, 131073, 16777216, 16777217,
   1000000000, 1500000000}
==============================================================================
