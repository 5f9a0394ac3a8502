------------------------------- MODULE Stages -------------------------------
(***************************************************************************)
(* The checkpoints of `cgdevxcli setup`, by their place in the list        *)
(* available_checkpoints of commands/setup.py.                             *)
(***************************************************************************)
EXTENDS Naturals

Preflight == 1
Dependencies == 2
OneTimeSetup == 3
RepoPrep == 4
VcsTf == 5
K8sTf == 6
GitopsVcs == 7
K8sDelivery == 8
SecretsManagement == 9
SecretsTf == 10
UsersTf == 11
CoreServicesTf == 12
TfStoreHardening == 13

Stage == Preflight..TfStoreHardening
=============================================================================
