----------------------------- MODULE TokenPart ------------------------------
(***************************************************************************)
(* Keys on a token as a part of a larger composition: the constants and    *)
(* variables have names of their own here.                                 *)
(***************************************************************************)
EXTENDS Integers

CONSTANTS
    TokenKeys, NoTokenKey, TokenMaxFaults, TokenMaxCrashes

VARIABLES
    hSession, hToken, hKnown, hHeld, hOp, hDestroyed, hLast, hFaults, hCrashes

hsmVars == <<hSession, hToken, hKnown, hHeld, hOp, hDestroyed, hLast, hFaults,
             hCrashes>>

Hsm == INSTANCE Pkcs11 WITH
    Keys <- TokenKeys, NoKey <- NoTokenKey, MaxFaults <- TokenMaxFaults,
    MaxCrashes <- TokenMaxCrashes,
    session <- hSession, token <- hToken, known <- hKnown, held <- hHeld,
    op <- hOp, destroyed <- hDestroyed, last <- hLast, faults <- hFaults,
    crashes <- hCrashes

-----------------------------------------------------------------------------
(* Properties                                                              *)

\* Keys on a token keep the promises of a key store (Pkcs11).
ImplementsKeyStore == Hsm!ImplementsKeyStore

=============================================================================
