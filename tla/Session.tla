------------------------------ MODULE Session ------------------------------
(***************************************************************************)
(* Who is at the console: the login prompt and the session of              *)
(* src/init/session.c, and the commands that change them (sudo, exit,      *)
(* logout, passwd).  Keys are handled one at a time by the main loop; at   *)
(* the login prompt and in passwd every key is a step, in the shell a      *)
(* command line is one step, the password sudo asks for included.          *)
(*                                                                         *)
(* The users are those of the /etc/passwd fs_init.c writes, which belongs  *)
(* to user 0.  It is read from KVXFS, where none of these commands writes: *)
(* passwd writes the copy in memory (see module Vfs).                      *)
(***************************************************************************)
EXTENDS Integers, Sequences, SequencesExt

CONSTANTS
  Keys,      \* the keys that give a character
  Users,     \* the lines of /etc/passwd: name |-> [pw, uid, gecos, home]
  RootName, DefaultName, \* the names "root" and "anil"
  BufSize,   \* login_user_buf and the other input buffers hold BufSize - 1
  Homes,     \* home directories, of users and any other
  Dirs,      \* those of them that are directories
  RootHome, DefaultHome,
  NoHome,    \* the empty path
  Garbage    \* a home that is not one

Names == DOMAIN Users
Texts == UNION {[1..n -> Keys] : n \in 0..(BufSize - 1)}

ASSUME SessionAssumption ==
  /\ BufSize \in Nat \ {0}
  /\ RootName \in Names /\ Users[RootName].uid = 0
  /\ Names \subseteq Texts
  /\ Dirs \subseteq Homes
  /\ {RootHome, DefaultHome, NoHome, Garbage} \subseteq Homes
  /\ NoHome \notin Dirs /\ Garbage \notin Dirs

VARIABLES
  m,      \* the static variables of the code
  typed,  \* history: what was typed at the login prompts since the last "login:"
  held    \* history: the identities the session has had since then

vars == <<m, typed, held>>

NoName == <<>>
Id(ses) == <<ses.name, ses.uid>>
Nobody  == [name |-> NoName, uid |-> 0, home |-> NoHome]
NoPrev  == [has |-> FALSE, who |-> Nobody]
NoCopy  == [name |-> NoName, pw |-> <<>>]

-----------------------------------------------------------------------------
(* What the handlers do to the variables, as functions of them.            *)

\* vfs_set_cwd; the empty path is the directory one is in.
SetCwd(x, h) == [x EXCEPT !.cwd = IF h \in Dirs THEN h ELSE @]

\* The session is given to a user, with the shell's name and directory.
Become(x, who) ==
  SetCwd([x EXCEPT !.session = who, !.shell = who.name], who.home)

\* vfs_read_all refuses a root-owned /etc/passwd to everyone but the superuser.
PasswdReadable(x) == x.session.uid = 0

\* check_user_exists: the name of a line that is no comment.
UserExists(x, name) == PasswdReadable(x) /\ name \in Names

Accepts(x, name, pw) ==
  /\ UserExists(x, name)
  /\ x.requirePassword => Users[name].pw = pw

\* authenticate_user of a line with all its fields: the array that holds them is
\* one short, and the home read past its end is empty unless the compiler put
\* something else there.
Authenticated(x, name, home) ==
  Become(x, [name |-> name, uid |-> Users[name].uid, home |-> home])

HomesRead == {NoHome, Garbage}

\* Mutant: the saved identity outlives the session.
LoggedOutKeepingPrevious(x) ==
  [x EXCEPT !.loggedIn = FALSE, !.session = Nobody,
            !.step = 0, !.user = <<>>, !.pass = <<>>]

\* Mutant: the login prompt runs as the user who left.
LoggedOutKeepingUid(x) ==
  [x EXCEPT !.prev.has = FALSE, !.loggedIn = FALSE, !.session.name = NoName,
            !.step = 0, !.user = <<>>, !.pass = <<>>]

\* session_logout.
LoggedOut(x) ==
  [x EXCEPT !.prev.has = FALSE, !.loggedIn = FALSE, !.session = Nobody,
            !.step = 0, !.user = <<>>, !.pass = <<>>]

\* cmd_exit.
Exited(x) ==
  IF x.prev.has THEN [Become(x, x.prev.who) EXCEPT !.prev.has = FALSE] ELSE x

\* cmd_passwd_start; the session of a user has a name.
PasswdStarted(x) ==
  IF x.session.name = NoName THEN x
  ELSE [x EXCEPT !.passwd = "old", !.old = <<>>, !.new = <<>>]

\* cmd_sudo with "su": the caller is saved as he was before the password.
SudoedSu(x, pw, home) ==
  IF ~Accepts(x, RootName, pw) THEN x
  ELSE LET r == Authenticated(x, RootName, home)
       IN  Become([r EXCEPT !.prev = [has |-> TRUE, who |-> x.session]],
                  [name |-> RootName, uid |-> 0, home |-> RootHome])

\* The commands a line may name, the one that changes nothing here standing for all
\* others, for no command at all and for a name that is none.  sudo looks them up the
\* same way; its own password is then asked for again.
Commands == {"other", "exit", "logout", "passwd", "su"}

Ran(x, cmd, pw, home) ==
  CASE cmd = "exit"   -> Exited(x)
    [] cmd = "logout" -> LoggedOut(x)
    [] cmd = "passwd" -> PasswdStarted(x)
    [] cmd = "su"     -> SudoedSu(x, pw, home)
    [] OTHER          -> x

\* cmd_sudo with a command: old_uid is read when root is already authenticated.
SudoRan(x, pw, cmd, home) ==
  IF ~Accepts(x, RootName, pw) THEN x
  ELSE LET r == Authenticated(x, RootName, home)
           c == Ran([r EXCEPT !.session.uid = 0], cmd, pw, home)
       IN  [c EXCEPT !.session.uid = r.session.uid]

-----------------------------------------------------------------------------
(* The steps: a key at the login prompt, ...                               *)

\* Mutant: a handler for the password prompt that keeps what was typed before.
PromptKeepingPassword(x) == [x EXCEPT !.step = 0, !.user = <<>>]

\* A failed attempt starts over.
Prompt(x) == [x EXCEPT !.step = 0, !.user = <<>>, !.pass = <<>>]

Typed(buf, k) == IF Len(buf) < BufSize - 1 THEN Append(buf, k) ELSE buf
Erased(buf)   == IF buf = <<>> THEN buf ELSE Front(buf)

Fresh == [user |-> <<>>, pass |-> <<>>]
AtPrompt == ~m.loggedIn

History(x) == held' = IF ~x.loggedIn THEN {} ELSE held \cup {Id(x.session)}

Step(x) == m' = x /\ History(x)

PromptKey(k) ==
  /\ AtPrompt
  /\ IF m.step = 0
     THEN /\ Step([m EXCEPT !.user = Typed(@, k)])
          /\ typed' = [typed EXCEPT !.user = Typed(@, k)]
     ELSE /\ Step([m EXCEPT !.pass = Typed(@, k)])
          /\ typed' = [typed EXCEPT !.pass = Typed(@, k)]

PromptBackspace ==
  /\ AtPrompt
  /\ IF m.step = 0
     THEN /\ Step([m EXCEPT !.user = Erased(@)])
          /\ typed' = [typed EXCEPT !.user = Erased(@)]
     ELSE /\ Step([m EXCEPT !.pass = Erased(@)])
          /\ typed' = [typed EXCEPT !.pass = Erased(@)]

LoginSucceeds(pw) ==
  /\ Accepts(m, m.user, pw)
  /\ \E h \in HomesRead :
       Step([Authenticated(m, m.user, h) EXCEPT !.loggedIn = TRUE])
  /\ UNCHANGED typed

LoginFails(pw) ==
  /\ ~Accepts(m, m.user, pw)
  /\ Step(Prompt(m))
  /\ typed' = Fresh

\* The name is complete: without passwords that is the login.
NameEntered ==
  /\ AtPrompt /\ m.step = 0
  /\ \/ /\ ~UserExists(m, m.user)
        /\ Step([m EXCEPT !.step = 0, !.user = <<>>])
        /\ typed' = Fresh
     \/ /\ UserExists(m, m.user)
        /\ m.requirePassword
        /\ Step([m EXCEPT !.step = 1])
        /\ UNCHANGED typed
     \/ /\ ~m.requirePassword
        /\ UserExists(m, m.user)
        /\ LoginSucceeds(<<>>)

PasswordEntered ==
  /\ AtPrompt /\ m.step = 1
  /\ LoginSucceeds(m.pass) \/ LoginFails(m.pass)

\* F1 logs the user of the machine in, at either prompt.
F1 ==
  /\ AtPrompt
  /\ Step([Become(m, [name |-> DefaultName, uid |-> 0, home |-> DefaultHome])
             EXCEPT !.loggedIn = TRUE])
  /\ UNCHANGED typed

-----------------------------------------------------------------------------
(* ... a key while passwd asks for passwords, ...                          *)

\* Mutant: the shell takes its keys before passwd does.
AtShellAlways == m.loggedIn

InPasswd == m.loggedIn /\ m.passwd # "off"
AtShell  == m.loggedIn /\ m.passwd = "off"

PasswdKey(k) ==
  /\ InPasswd
  /\ IF m.passwd = "old" THEN Step([m EXCEPT !.old = Typed(@, k)])
                         ELSE Step([m EXCEPT !.new = Typed(@, k)])
  /\ UNCHANGED typed

PasswdBackspace ==
  /\ InPasswd
  /\ IF m.passwd = "old" THEN Step([m EXCEPT !.old = Erased(@)])
                         ELSE Step([m EXCEPT !.new = Erased(@)])
  /\ UNCHANGED typed

\* The old password is compared with the fifth field of the line.
OldEntered ==
  /\ InPasswd /\ m.passwd = "old"
  /\ LET n == m.session.name
     IN  Step([m EXCEPT !.passwd =
                 IF PasswdReadable(m) /\ n \in Names /\ Users[n].gecos = m.old
                 THEN "new" ELSE "off"])
  /\ UNCHANGED typed

\* The new password replaces everything from the fifth field on, in the copy of
\* the file in memory, if vfs_write_all lets the user write it.
NewEntered ==
  /\ InPasswd /\ m.passwd = "new"
  /\ IF PasswdReadable(m) /\ m.session.name \in Names
     THEN Step([m EXCEPT !.passwd = "off",
                         !.copy = [name |-> m.session.name, pw |-> m.new]])
     ELSE Step([m EXCEPT !.passwd = "off"])
  /\ UNCHANGED typed

-----------------------------------------------------------------------------
(* ... a command line in the shell.                                        *)

\* The login prompt that follows a logout is a fresh one.
Command(x) ==
  /\ AtShell
  /\ Step(x)
  /\ typed' = IF x.loggedIn THEN typed ELSE Fresh

Exit   == Command(Exited(m))
Logout == Command(LoggedOut(m))
Passwd == Command(PasswdStarted(m))
SudoSu(pw)    == \E h \in HomesRead : Command(SudoedSu(m, pw, h))
Sudo(pw, cmd) == \E h \in HomesRead : Command(SudoRan(m, pw, cmd, h))

-----------------------------------------------------------------------------
\* After kernel_main and session_init; session.cfg may turn passwords off.
Start(require) ==
  [session |-> Nobody, loggedIn |-> FALSE, requirePassword |-> require,
   prev |-> NoPrev, step |-> 0, user |-> <<>>, pass |-> <<>>,
   passwd |-> "off", old |-> <<>>, new |-> <<>>, copy |-> NoCopy,
   shell |-> DefaultName, cwd |-> DefaultHome]

Init ==
  /\ \E require \in BOOLEAN : m = Start(require)
  /\ typed = Fresh
  /\ held = {}

Next ==
  \/ \E k \in Keys : PromptKey(k) \/ PasswdKey(k)
  \/ PromptBackspace \/ PasswdBackspace
  \/ NameEntered \/ PasswordEntered \/ F1
  \/ OldEntered \/ NewEntered
  \/ Exit \/ Logout \/ Passwd
  \/ \E pw \in Texts : SudoSu(pw) \/ \E cmd \in Commands : Sudo(pw, cmd)

Spec == Init /\ [][Next]_vars

-----------------------------------------------------------------------------
(* Properties.                                                             *)

\* A login by name and password is decided by what was typed at this prompt, not
\* by what an earlier attempt or an earlier user left in the buffers: it succeeds
\* only as the user typed, with that user's id, and with his password typed.
LoginByTypedKeys ==
  [][~m.loggedIn /\ m'.loggedIn /\ m'.session # [name |-> DefaultName, uid |-> 0, home |-> DefaultHome]
     => /\ m'.session.name = typed.user
        /\ typed.user \in Names
        /\ m'.session.uid = Users[typed.user].uid
        /\ m.requirePassword => typed.pass = Users[typed.user].pw]_vars

\* exit never brings back an identity of an earlier login: what is saved is one
\* the session has had since its user logged in, and at the prompt nothing is.
PreviousIsFromThisLogin == m.prev.has => Id(m.prev.who) \in held

\* The login prompt always runs as the superuser: for anyone else /etc/passwd is
\* unreadable and no one could log in again.
PromptCanReadPasswd == ~m.loggedIn => PasswdReadable(m)

\* While passwd asks for passwords nobody else becomes the session's user: the
\* password changed is that of the user who asked for it.
PasswdKeepsUser ==
  [][m.passwd # "off" => Id(m'.session) = Id(m.session) /\ m'.loggedIn]_vars

=============================================================================
