----------------------------- MODULE MCPipeline -----------------------------
(***************************************************************************)
(* TLC instance of Pipeline: the configuration that is shipped, a host with *)
(* an old musl that cannot be written, and other formats with a prefix of   *)
(* their own.                                                               *)
(***************************************************************************)
EXTENDS Pipeline

Config(enabled, format, glibc, prefix, shipped) ==
    [enabled |-> enabled, format |-> format, glibc |-> glibc, prefix |-> prefix, shipped |-> shipped]

SomeConfigs ==
    {Config(TRUE, "native", TRUE, "build", None), Config(TRUE, "native", FALSE, "readonly", "old"),
     Config(TRUE, "genext2fs", TRUE, "opt", None), Config(TRUE, "mke2fs", FALSE, "readonly", "good"),
     Config(FALSE, "native", TRUE, "build", None)}
=============================================================================
