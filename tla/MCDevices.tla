----------------------------- MODULE MCDevices -----------------------------
(* An instance of Devices: two event loops, a file to pass through, two    *)
(* ids and three handles; two files to poll and two clients; kernels on    *)
(* both sides of the version that knows epochs.                            *)
EXTENDS Devices

MCLoops == {0, 1}
MCInodes == {1}
MCClients == {"a", "b"}
MCKernelMinors == {43, 44, 45}
MCLookups == {1, 2}

=============================================================================
