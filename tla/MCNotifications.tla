--------------------------- MODULE MCNotifications ---------------------------
(***************************************************************************)
(* Two workers, a business and a recipient, three keys, two channels that  *)
(* both have a template.                                                   *)
(***************************************************************************)
EXTENDS Notifications

CONSTANTS w1, w2, k1, k2, k3, email, inApp

const_Workers == {w1, w2}
const_Keys == {k1, k2, k3}
const_Channels == {email, inApp}
const_Choices == {{}, {email, inApp}}
===============================================================================
