-------------------------------- MODULE Send --------------------------------
(***************************************************************************)
(* The program that registers, logs in and posts one message               *)
(* (deno-client/send.ts; grunt send makes the same calls and opens a       *)
(* stream before the last), run again and again with the same flags,       *)
(* against the server of module Registration.                              *)
(*                                                                         *)
(* Each run makes three calls and ends at the first that is refused.  Any  *)
(* of them may fail on the way, also after the server has done its part.   *)
(***************************************************************************)
EXTENDS Registration

CONSTANTS
    Name,       \* the user of GRUNT_LOGIN
    Invite      \* --invite-code

ASSUME FlagsAssumption == Name \in Users /\ Invite \in Codes

VARIABLES
    program,    \* what the run is about to do, or "off"
    mine,       \* the registration request of the last run
    token,      \* number of the server process its token is from
    posted,     \* messages posted by all runs
    made        \* history: the user has been registered with the invite

programVars == <<program, mine, token, posted>>
sendVars    == <<vars, programVars, made>>

(* The runs of the program are the API's clients here; everybody else      *)
(* registers on the page.                                                  *)
SendInit ==
    /\ Init
    /\ program = "off"
    /\ mine \in Requests
    /\ token = 0
    /\ posted = 0
    /\ made = FALSE

(* register: the request arrives and its transaction begins.               *)
Register(r) ==
    /\ program = "off"
    /\ TxSelect(r, Name, Invite, FALSE)
    /\ program' = "registering"
    /\ mine'    = r
    /\ UNCHANGED <<token, posted, made>>

(* A bug this program could have: the status is not looked at.  It is no   *)
(* part of the specification (see RerunIsRefused in PROJECT.json).         *)
Registered_AnyAnswer ==
    /\ program = "registering"
    /\ pc[mine] \in Answered
    /\ program' = "login"
    /\ UNCHANGED <<vars, mine, token, posted, made>>

(* Its answer: 201 and 409, for a name that exists, let the program go on. *)
Registered ==
    /\ program = "registering"
    /\ pc[mine] \in {"created", "conflict"}
    /\ program' = "login"
    /\ UNCHANGED <<vars, mine, token, posted, made>>

(* login: with the right password; others end in Fails.                    *)
Login ==
    /\ program = "login"
    /\ LoginUser(Name)
    /\ program' = "sendMessage"
    /\ token'   = crashes
    /\ UNCHANGED <<mine, posted, made>>

(* sendMessage, and the program ends, whatever it learns of it.            *)
SendMessage ==
    /\ program = "sendMessage"
    /\ server = "up" /\ token = crashes
    /\ posted'  = posted + 1
    /\ program' = "off"
    /\ UNCHANGED <<vars, mine, token, made>>

(* A call is refused or fails, or the program is killed.                   *)
Fails ==
    /\ program # "off"
    /\ program' = "off"
    /\ UNCHANGED <<vars, mine, token, posted, made>>

(* Everything else the server does, for this program or for others.        *)
ServerStep ==
    \/ Start \/ Crash
    \/ \E c \in Codes : Expire(c)
    \/ \E r \in Requests :
         \/ \E u \in Users, c \in Codes : TxSelect(r, u, c, TRUE)
         \/ RequestStep(r) \/ TxFail(r) \/ GrantFails(r)
    \/ \E u \in Users : LoginUser(u)
    \/ \E u \in Users, c \in Codes : GetInvite(u, c)
    \/ \E a, u \in Users : AdminCreateUser(a, u)

Commits(r) == pc[r] = "inserted" /\ pc'[r] = "committed"

SendNext ==
    \/ \E r \in Requests : Register(r)
    \/ Registered \/ Login \/ SendMessage \/ Fails
    \/ /\ ServerStep
       /\ made' = (made \/ \E r \in Requests :
                              Commits(r) /\ user[r] = Name /\ code[r] = Invite)
       /\ UNCHANGED programVars

SendSpec == SendInit /\ [][SendNext]_sendVars
                     /\ \A r \in Requests : WF_vars(RequestStep(r))

-----------------------------------------------------------------------------
(* Once the user has been registered with the invite, no further run gets  *)
(* past the registration: it is refused with 401 for the used invite, not  *)
(* with 409 for the name, whatever became of the first run.  So the        *)
(* message is posted once at most, and not at all when that run missed its *)
(* answer.                                                                 *)
RerunIsRefused ==
    made => /\ posted <= 1
            /\ program \in {"login", "sendMessage"} => pc[mine] = "created"
=============================================================================
