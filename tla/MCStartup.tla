------------------------------ MODULE MCStartup ------------------------------
(* The instance of Startup that TLC checks: an image build or run.sh, and  *)
(* two campaigns.                                                          *)
EXTENDS Startup

CONSTANTS patcher, cli1, cli2

MCPatcher == {patcher}
MCCli == {cli1, cli2}
=============================================================================
