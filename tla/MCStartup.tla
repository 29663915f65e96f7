----------------------------- MODULE MCStartup -----------------------------
(***************************************************************************)
(* Small instances of Startup: SEED_ADMIN_EMAIL may differ between servers *)
(* and SEED_ADMIN_USERNAME keeps its default.                              *)
(***************************************************************************)
EXTENDS Startup

CONSTANTS Default,    \* the default email and username of the admin
          Overridden, \* the servers with an email of their own
          OwnEmail

Admin == [s \in Servers |->
            [email |-> IF s \in Overridden THEN OwnEmail ELSE Default, name |-> Default]]
=============================================================================
