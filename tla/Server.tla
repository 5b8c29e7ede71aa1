------------------------------- MODULE Server -------------------------------
(***************************************************************************)
(* The API process: accounts, the login limiters and the loaded model.     *)
(* They are kept by different modules of the program and share no state,   *)
(* so a step of the process is a step of one of them.                      *)
(***************************************************************************)
EXTENDS Accounts, RateLimits, ModelCache

serverVars == <<accountVars, limitVars, cacheVars>>

ServerInit == AccountsInit /\ LimitsInit /\ CacheInit

InAccounts == AccountsNext /\ UNCHANGED <<limitVars, cacheVars>>
InLimits == LimitsNext /\ UNCHANGED <<accountVars, cacheVars>>
InCache == CacheNext /\ UNCHANGED <<accountVars, limitVars>>

ServerNext == InAccounts \/ InLimits \/ InCache

ServerSpec == ServerInit /\ [][ServerNext]_serverVars

(* Types, in every part.                                                   *)
ServerTypeOK == AccountsTypeOK /\ LimitsTypeOK /\ CacheTypeOK
=============================================================================
