---------------------------- MODULE ShellProofs ----------------------------
(***************************************************************************)
(* What the shell works with, for any constants: the login prompt and the  *)
(* session (Session), and the tree of files its commands see (Vfs).  The   *)
(* two share no variable; each part below proves its own theorems.         *)
(***************************************************************************)
EXTENDS Session, Vfs, SequenceTheorems, FiniteSetTheorems, WellFoundedInduction, TLAPS

-----------------------------------------------------------------------------
(***************************************************************************)
(* Login and session: the module Session, for every /etc/passwd, every set *)
(* of keys and every size of the buffers.                                  *)
(*                                                                         *)
(* The invariant says what the static variables of session.c and of the    *)
(* commands have to do with each other: at the prompt the buffers hold     *)
(* what was typed, nothing is saved, passwd is off and the session is the  *)
(* superuser's; while someone is logged in his identity is one the session *)
(* has had.                                                                *)
(***************************************************************************)

-----------------------------------------------------------------------------
(* The type of the variables.                                              *)

Identities   == {Users[n].uid : n \in Names} \cup {0}
Person == [name : Names \cup {NoName, DefaultName}, uid : Identities, home : Homes]

State ==
  [session : Person, loggedIn : BOOLEAN, requirePassword : BOOLEAN,
   prev : [has : BOOLEAN, who : Person],
   step : {0, 1}, user : Texts, pass : Texts,
   passwd : {"off", "old", "new"}, old : Texts, new : Texts,
   copy : [name : Names \cup {NoName, DefaultName}, pw : Texts],
   shell : Names \cup {NoName, DefaultName}, cwd : Homes]

\* Two states differ at most in who the user is, and where.
SameLogin(x, y) ==
  /\ y.loggedIn = x.loggedIn /\ y.requirePassword = x.requirePassword
  /\ y.prev = x.prev /\ y.step = x.step /\ y.user = x.user /\ y.pass = x.pass
  /\ y.passwd = x.passwd

-----------------------------------------------------------------------------
(* The handlers, one by one.                                               *)

LEMMA TextsHold ==
  ASSUME NEW t \in Texts
  PROVE  t \in Seq(Keys) /\ Len(t) \in Nat /\ Len(t) < BufSize
  <1>1. PICK n \in 0..(BufSize - 1) : t \in [1..n -> Keys]
    BY DEF Texts
  <1> QED  BY <1>1, SessionAssumption

LEMMA TextsAre ==
  ASSUME NEW t \in Seq(Keys), Len(t) < BufSize
  PROVE  t \in Texts
  <1>1. Len(t) \in 0..(BufSize - 1) /\ t \in [1..Len(t) -> Keys]
    BY SessionAssumption
  <1> QED  BY <1>1 DEF Texts

\* No key makes a buffer too long.
LEMMA BuffersHold ==
  /\ <<>> \in Texts
  /\ \A t \in Texts, k \in Keys : Typed(t, k) \in Texts
  /\ \A t \in Texts : Erased(t) \in Texts
  <1>0. BufSize \in Nat /\ 0 < BufSize
    BY SessionAssumption
  <1>1. <<>> \in Texts
    <2>1. <<>> \in Seq(Keys) /\ Len(<<>>) < BufSize
      BY <1>0
    <2> QED  BY <2>1, TextsAre
  <1>2. ASSUME NEW t \in Texts, NEW k \in Keys PROVE Typed(t, k) \in Texts
    <2>1. t \in Seq(Keys) /\ Len(t) \in Nat
      BY TextsHold
    <2>2. Append(t, k) \in Seq(Keys) /\ Len(Append(t, k)) = Len(t) + 1
      BY <2>1
    <2>3. ASSUME Len(t) < BufSize - 1 PROVE Append(t, k) \in Texts
      <3>1. Len(Append(t, k)) < BufSize
        BY <1>0, <2>1, <2>2, <2>3
      <3> QED  BY <2>2, <3>1, TextsAre
    <2> QED  BY <2>3 DEF Typed
  <1>3. ASSUME NEW t \in Texts, t # <<>> PROVE Erased(t) \in Texts
    <2>1. t \in Seq(Keys) /\ Len(t) \in Nat \ {0} /\ Len(t) < BufSize
      BY <1>3, TextsHold
    <2>2. PICK n \in Nat : n = Len(t) - 1
      BY <2>1
    <2>3. n < BufSize /\ \A i \in 1..n : t[i] \in Keys
      BY <1>0, <2>1, <2>2
    <2>4. SubSeq(t, 1, n) \in Seq(Keys) /\ Len(SubSeq(t, 1, n)) = IF 1 <= n THEN n - 1 + 1 ELSE 0
      BY <2>2, <2>3, SubSeqProperties
    <2>5. SubSeq(t, 1, n) \in Texts
      <3>1. Len(SubSeq(t, 1, n)) < BufSize
        BY <2>2, <2>3, <2>4
      <3> QED  BY <2>4, <3>1, TextsAre
    <2> QED  BY <1>3, <2>2, <2>5 DEF Erased, Front
  <1> QED  BY <1>1, <1>2, <1>3 DEF Erased

LEMMA People ==
  /\ Nobody \in Person
  /\ \A n \in Names, h \in Homes : [name |-> n, uid |-> Users[n].uid, home |-> h] \in Person
  /\ \A h \in Homes : [name |-> RootName, uid |-> 0, home |-> h] \in Person
  /\ \A h \in Homes : [name |-> DefaultName, uid |-> 0, home |-> h] \in Person
  /\ HomesRead \subseteq Homes
  BY SessionAssumption DEF Person, Nobody, Identities, HomesRead

LEMMA BecomeMeans ==
  ASSUME NEW x \in State, NEW who \in Person
  PROVE  /\ Become(x, who) \in State
         /\ Become(x, who).session = who
         /\ SameLogin(x, Become(x, who))
  <1> DEFINE y == [x EXCEPT !.session = who, !.shell = who.name]
  <1>1. y \in State /\ y.session = who /\ SameLogin(x, y)
    BY DEF State, Person, SameLogin
  <1>2. Become(x, who) = [y EXCEPT !.cwd = IF who.home \in Dirs THEN who.home ELSE y.cwd]
    BY DEF Become, SetCwd
  <1>3. (IF who.home \in Dirs THEN who.home ELSE y.cwd) \in Homes
    BY <1>1, SessionAssumption DEF State
  <1> HIDE DEF y
  <1> QED  BY <1>1, <1>2, <1>3 DEF State, SameLogin

LEMMA AuthenticatedMeans ==
  ASSUME NEW x \in State, NEW n \in Names, NEW h \in HomesRead
  PROVE  /\ Authenticated(x, n, h) \in State
         /\ Authenticated(x, n, h).session.name = n
         /\ Authenticated(x, n, h).session.uid = Users[n].uid
         /\ SameLogin(x, Authenticated(x, n, h))
  <1> DEFINE who == [name |-> n, uid |-> Users[n].uid, home |-> h]
  <1>1. who \in Person /\ who.name = n /\ who.uid = Users[n].uid
    BY People
  <1>2. Authenticated(x, n, h) = Become(x, who)
    BY DEF Authenticated
  <1> HIDE DEF who
  <1> QED  BY <1>1, <1>2, BecomeMeans

LEMMA LoggedOutMeans ==
  ASSUME NEW x \in State
  PROVE  /\ LoggedOut(x) \in State
         /\ ~LoggedOut(x).loggedIn /\ ~LoggedOut(x).prev.has
         /\ LoggedOut(x).session = Nobody
         /\ LoggedOut(x).step = 0 /\ LoggedOut(x).user = <<>> /\ LoggedOut(x).pass = <<>>
         /\ LoggedOut(x).passwd = x.passwd
  BY People, BuffersHold DEF LoggedOut, State

\* exit gives the session back to the user who is saved, or changes nothing.
LEMMA ExitedMeans ==
  ASSUME NEW x \in State
  PROVE  /\ Exited(x) \in State
         /\ Exited(x).loggedIn = x.loggedIn /\ Exited(x).passwd = x.passwd
         /\ ~Exited(x).prev.has
         /\ x.prev.has => Exited(x).session = x.prev.who
         /\ ~x.prev.has => Exited(x) = x
  <1>1. CASE x.prev.has
    <2> DEFINE y == Become(x, x.prev.who)
    <2>1. x.prev.who \in Person
      BY DEF State
    <2>2. y \in State /\ y.session = x.prev.who /\ SameLogin(x, y)
      BY <2>1, BecomeMeans
    <2>3. Exited(x) = [y EXCEPT !.prev.has = FALSE]
      BY <1>1 DEF Exited
    <2> HIDE DEF y
    <2>4. [y.prev EXCEPT !.has = FALSE] \in [has : BOOLEAN, who : Person]
          /\ ~[y.prev EXCEPT !.has = FALSE].has
      BY <2>2 DEF State
    <2>5. /\ Exited(x) \in State /\ Exited(x).prev = [y.prev EXCEPT !.has = FALSE]
          /\ Exited(x).loggedIn = y.loggedIn /\ Exited(x).passwd = y.passwd
          /\ Exited(x).session = y.session
      BY <2>2, <2>3, <2>4, ZenonT(60) DEF State
    <2> QED  BY <1>1, <2>2, <2>4, <2>5 DEF SameLogin
  <1>2. CASE ~x.prev.has
    BY <1>2 DEF Exited
  <1> QED  BY <1>1, <1>2

LEMMA PasswdStartedMeans ==
  ASSUME NEW x \in State
  PROVE  /\ PasswdStarted(x) \in State
         /\ PasswdStarted(x).session = x.session /\ PasswdStarted(x).prev = x.prev
         /\ PasswdStarted(x).loggedIn = x.loggedIn
  BY BuffersHold, ZenonT(60) DEF PasswdStarted, State

LEMMA SudoedSuMeans ==
  ASSUME NEW x \in State, NEW pw, NEW h \in HomesRead
  PROVE  /\ SudoedSu(x, pw, h) \in State
         /\ SudoedSu(x, pw, h).loggedIn = x.loggedIn
         /\ \/ SudoedSu(x, pw, h) = x
            \/ /\ SudoedSu(x, pw, h).prev.who = x.session
               /\ SudoedSu(x, pw, h).session.name = RootName
               /\ SudoedSu(x, pw, h).session.uid = 0
  <1>1. CASE ~Accepts(x, RootName, pw)
    BY <1>1 DEF SudoedSu
  <1>2. CASE Accepts(x, RootName, pw)
    <2> DEFINE r == Authenticated(x, RootName, h)
               s == [r EXCEPT !.prev = [has |-> TRUE, who |-> x.session]]
               w == [name |-> RootName, uid |-> 0, home |-> RootHome]
    <2>1. r \in State /\ SameLogin(x, r)
      BY AuthenticatedMeans, SessionAssumption
    <2>2. w \in Person /\ w.name = RootName /\ w.uid = 0
      BY People, SessionAssumption
    <2>3. SudoedSu(x, pw, h) = Become(s, w)
      BY <1>2 DEF SudoedSu
    <2> HIDE DEF r, w
    <2>4. s \in State /\ s.prev.who = x.session /\ s.loggedIn = x.loggedIn
      BY <2>1 DEF State, SameLogin
    <2> HIDE DEF s
    <2> QED  BY <2>2, <2>3, <2>4, BecomeMeans DEF SameLogin
  <1> QED  BY <1>1, <1>2

-----------------------------------------------------------------------------
(* A command line.                                                         *)

RootId == <<RootName, 0>>

\* What a command that someone runs with identity me leaves: ids are the identities
\* of his login.
Left(y, ids, me) ==
  /\ y \in State
  /\ y.prev.has => /\ y.loggedIn
                   /\ \/ Id(y.prev.who) \in ids
                      \/ Id(y.prev.who) = me /\ Id(y.session) = RootId
  /\ ~y.loggedIn => /\ y.session.uid = 0 /\ y.passwd = "off"
                    /\ y.step = 0 /\ y.user = <<>> /\ y.pass = <<>>

LEMMA RanMeans ==
  ASSUME NEW x \in State, x.loggedIn, x.passwd = "off", NEW ids,
         x.prev.has => Id(x.prev.who) \in ids,
         NEW cmd, NEW pw, NEW h \in HomesRead
  PROVE  Left(Ran(x, cmd, pw, h), ids, Id(x.session))
  <1> SUFFICES ASSUME NEW y, y = Ran(x, cmd, pw, h)
               PROVE  Left(y, ids, Id(x.session))
    OBVIOUS
  <1>1. CASE cmd = "exit"
    <2>1. y = Exited(x)
      BY <1>1 DEF Ran
    <2> QED  BY <2>1, ExitedMeans DEF Left
  <1>2. CASE cmd = "logout"
    <2>1. y = LoggedOut(x)
      BY <1>2 DEF Ran
    <2>2. y.session.uid = 0
      BY <2>1, LoggedOutMeans DEF Nobody
    <2> QED  BY <2>1, <2>2, LoggedOutMeans DEF Left
  <1>3. CASE cmd = "passwd"
    <2>1. y = PasswdStarted(x)
      BY <1>3 DEF Ran
    <2> QED  BY <2>1, PasswdStartedMeans DEF Left
  <1>4. CASE cmd = "su"
    <2>1. y = SudoedSu(x, pw, h)
      BY <1>4 DEF Ran
    <2>2. CASE y = x
      BY <2>2 DEF Left
    <2>3. CASE y.prev.who = x.session /\ y.session.name = RootName /\ y.session.uid = 0
      <3>1. Id(y.prev.who) = Id(x.session) /\ Id(y.session) = RootId
        BY <2>3 DEF Id, RootId
      <3> QED  BY <2>1, <3>1, SudoedSuMeans DEF Left
    <2> QED  BY <2>1, <2>2, <2>3, SudoedSuMeans
  <1>5. CASE cmd \notin {"exit", "logout", "passwd", "su"}
    <2>1. y = x
      BY <1>5 DEF Ran
    <2> QED  BY <2>1 DEF Left
  <1> QED  BY <1>1, <1>2, <1>3, <1>4, <1>5

LEMMA SudoRanMeans ==
  ASSUME NEW x \in State, x.loggedIn, x.passwd = "off", NEW ids,
         x.prev.has => Id(x.prev.who) \in ids,
         NEW cmd, NEW pw, NEW h \in HomesRead
  PROVE  Left(SudoRan(x, pw, cmd, h), ids, RootId)
  <1>1. CASE ~Accepts(x, RootName, pw)
    BY <1>1 DEF SudoRan, Left
  <1>2. CASE Accepts(x, RootName, pw)
    <2> DEFINE r == Authenticated(x, RootName, h)
               s == [r EXCEPT !.session.uid = 0]
               c == Ran(s, cmd, pw, h)
               y == [c EXCEPT !.session.uid = r.session.uid]
    <2>1. /\ r \in State /\ r.session.name = RootName /\ r.session.uid = 0
          /\ SameLogin(x, r)
      BY AuthenticatedMeans, SessionAssumption
    <2>2. SudoRan(x, pw, cmd, h) = y
      BY <1>2 DEF SudoRan
    <2> HIDE DEF r
    <2>3. /\ s \in State /\ Id(s.session) = RootId /\ SameLogin(x, s)
      <3>1. s.session = [r.session EXCEPT !.uid = 0] /\ r.session \in Person
        BY <2>1 DEF State
      <3>2. s.session \in Person /\ s.session.name = RootName /\ s.session.uid = 0
        BY <2>1, <3>1 DEF Person, Identities
      <3>3. s = [r EXCEPT !.session = s.session]
        BY <2>1, <3>1 DEF State
      <3> HIDE DEF s
      <3> QED  BY <2>1, <3>2, <3>3, ZenonT(60) DEF State, SameLogin, Id, RootId
    <2> HIDE DEF s
    <2>4. Left(c, ids, RootId)
      BY <2>3, RanMeans DEF SameLogin
    <2> HIDE DEF c
    <2>5. /\ y.session \in Person /\ y.session.uid = 0
          /\ y.session.name = c.session.name
      <3>1. c.session \in Person /\ y.session = [c.session EXCEPT !.uid = 0]
        BY <2>1, <2>4 DEF Left, State
      <3> HIDE DEF y
      <3> QED  BY <3>1 DEF Person, Identities
    <2>6. y = [c EXCEPT !.session = y.session]
      BY <2>4 DEF Left, State
    <2> HIDE DEF y
    <2>7. /\ y \in State /\ y.prev = c.prev /\ y.loggedIn = c.loggedIn
          /\ y.passwd = c.passwd /\ y.step = c.step /\ y.user = c.user /\ y.pass = c.pass
      BY <2>4, <2>5, <2>6 DEF Left, State
    <2>8. Id(c.session) = RootId => Id(y.session) = RootId
      BY <2>5 DEF Id, RootId
    <2>9. Left(y, ids, RootId)
      BY <2>4, <2>5, <2>7, <2>8 DEF Left
    <2> QED  BY <2>2, <2>9
  <1> QED  BY <1>1, <1>2

-----------------------------------------------------------------------------
(* The inductive invariant.                                                *)

\* At the prompt the session is the superuser's, and what is in the buffers was typed.
Waiting ==
  /\ m.session.uid = 0
  /\ m.passwd = "off"
  /\ typed.user = m.user /\ typed.pass = m.pass
  /\ m.step = 0 => m.pass = <<>>

IInv ==
  /\ m \in State
  /\ typed \in [user : Texts, pass : Texts]
  /\ m.loggedIn => Id(m.session) \in held
  /\ m.prev.has => m.loggedIn /\ Id(m.prev.who) \in held
  /\ ~m.loggedIn => Waiting

LEMMA FreshIs == Fresh \in [user : Texts, pass : Texts] /\ Fresh.user = <<>> /\ Fresh.pass = <<>>
  BY BuffersHold DEF Fresh

LEMMA InitIInv == Init => IInv
  <1> SUFFICES ASSUME Init PROVE IInv
    OBVIOUS
  <1>1. PICK require \in BOOLEAN : m = Start(require)
    BY DEF Init
  <1>2. DefaultHome \in Homes /\ NoHome \in Homes /\ <<>> \in Texts
    BY SessionAssumption, BuffersHold
  <1>3. NoPrev \in [has : BOOLEAN, who : Person] /\ ~NoPrev.has
    BY People DEF NoPrev
  <1>4. /\ NoCopy \in [name : Names \cup {NoName, DefaultName}, pw : Texts]
        /\ Nobody.uid = 0
    BY <1>2 DEF NoCopy, Nobody
  <1>5. /\ m \in State /\ ~m.loggedIn /\ m.prev = NoPrev /\ m.session = Nobody
        /\ m.passwd = "off" /\ m.user = <<>> /\ m.pass = <<>>
    BY <1>1, <1>2, <1>3, <1>4, People DEF Start, State
  <1>6. typed = Fresh
    BY DEF Init
  <1> QED  BY <1>3, <1>4, <1>5, <1>6, FreshIs DEF IInv, Waiting

\* A step at the prompt that logs nobody in: only the buffers change.
LEMMA PromptStep ==
  ASSUME IInv, ~m.loggedIn, m' \in State, m'.session = m.session, ~m'.loggedIn,
         m'.prev = m.prev, m'.passwd = m.passwd, m'.step = 0 => m'.pass = <<>>,
         typed' \in [user : Texts, pass : Texts],
         typed'.user = m'.user, typed'.pass = m'.pass
  PROVE  IInv'
  BY DEF IInv, Waiting

LEMMA KeysAtPrompt ==
  ASSUME IInv, (\E k \in Keys : PromptKey(k)) \/ PromptBackspace
  PROVE  IInv' /\ ~m'.loggedIn
  <1>1. /\ m \in State /\ m.user \in Texts /\ m.pass \in Texts /\ m.step \in {0, 1}
        /\ typed \in [user : Texts, pass : Texts] /\ ~m.loggedIn
        /\ typed.user = m.user /\ typed.pass = m.pass
        /\ m.step = 0 => m.pass = <<>>
    BY DEF IInv, State, Waiting, PromptKey, PromptBackspace, AtPrompt
  <1>2. PICK t \in Texts :
          \/ /\ m.step = 0 /\ m' = [m EXCEPT !.user = t]
             /\ typed' = [typed EXCEPT !.user = t]
          \/ /\ m.step # 0 /\ m' = [m EXCEPT !.pass = t]
             /\ typed' = [typed EXCEPT !.pass = t]
    BY <1>1, BuffersHold DEF PromptKey, PromptBackspace, Step
  <1>3. /\ m' \in State /\ m'.session = m.session /\ m'.loggedIn = m.loggedIn
        /\ m'.prev = m.prev /\ m'.passwd = m.passwd /\ (m'.step = 0 => m'.pass = <<>>)
    BY <1>1, <1>2 DEF State
  <1>4. /\ typed' \in [user : Texts, pass : Texts]
        /\ typed'.user = m'.user /\ typed'.pass = m'.pass
    BY <1>1, <1>2 DEF State
  <1> QED  BY <1>1, <1>3, <1>4, PromptStep

\* The name or the password is entered and nobody is logged in.
LEMMA NoLogin ==
  ASSUME IInv, ~m.loggedIn,
         \/ /\ m.step = 0
            /\ m' = [m EXCEPT !.step = 0, !.user = <<>>] /\ typed' = Fresh
         \/ m' = [m EXCEPT !.step = 1] /\ typed' = typed
         \/ m' = Prompt(m) /\ typed' = Fresh
  PROVE  IInv' /\ ~m'.loggedIn
  <1>1. /\ m \in State /\ typed \in [user : Texts, pass : Texts]
        /\ typed.user = m.user /\ typed.pass = m.pass
        /\ m.step = 0 => m.pass = <<>>
    BY DEF IInv, Waiting
  <1>2. /\ m' \in State /\ m'.session = m.session /\ m'.loggedIn = m.loggedIn
        /\ m'.prev = m.prev /\ m'.passwd = m.passwd /\ (m'.step = 0 => m'.pass = <<>>)
    <2>1. CASE m.step = 0 /\ m' = [m EXCEPT !.step = 0, !.user = <<>>]
      BY <1>1, <2>1, BuffersHold DEF State
    <2>2. CASE m' = [m EXCEPT !.step = 1]
      BY <1>1, <2>2 DEF State
    <2>3. CASE m' = Prompt(m)
      BY <1>1, <2>3, BuffersHold DEF State, Prompt
    <2> QED  BY <2>1, <2>2, <2>3
  <1>3. typed'.user = m'.user /\ typed'.pass = m'.pass
    BY <1>1, FreshIs, ZenonT(60) DEF State, Prompt
  <1> QED  BY <1>1, <1>2, <1>3, FreshIs, PromptStep

\* A step of someone who is logged in, or logs in, and saves nobody.
LEMMA SessionStep ==
  ASSUME IInv, m' \in State, m'.loggedIn, m'.prev = m.prev,
         held' = held \cup {Id(m'.session)}, typed' = typed
  PROVE  IInv'
  BY DEF IInv

LEMMA LoginStep ==
  ASSUME IInv, ~m.loggedIn, NEW pw, LoginSucceeds(pw)
  PROVE  /\ IInv'
         /\ m'.session.name = m.user /\ m.user \in Names
         /\ m'.session.uid = Users[m.user].uid
         /\ m.requirePassword => Users[m.user].pw = pw
  <1>1. /\ m.user \in Names
        /\ m.requirePassword => Users[m.user].pw = pw
    BY DEF LoginSucceeds, Accepts, UserExists
  <1>2. PICK h \in HomesRead : Step([Authenticated(m, m.user, h) EXCEPT !.loggedIn = TRUE])
    BY DEF LoginSucceeds
  <1> DEFINE a == Authenticated(m, m.user, h)
             x == [a EXCEPT !.loggedIn = TRUE]
  <1>3. /\ a \in State /\ a.session.name = m.user
        /\ a.session.uid = Users[m.user].uid /\ SameLogin(m, a)
    BY <1>1, AuthenticatedMeans DEF IInv
  <1>4. m' = x /\ History(x) /\ typed' = typed
    BY <1>2 DEF Step, LoginSucceeds
  <1> HIDE DEF a
  <1>5. /\ x \in State /\ x.loggedIn /\ x.session = a.session /\ x.prev = m.prev
    BY <1>3 DEF State, SameLogin
  <1> HIDE DEF x
  <1>6. held' = held \cup {Id(m'.session)}
    BY <1>4, <1>5 DEF History
  <1>7. IInv'
    BY <1>4, <1>5, <1>6, SessionStep
  <1> QED  BY <1>1, <1>3, <1>4, <1>5, <1>7

LEMMA F1Step ==
  ASSUME IInv, F1
  PROVE  IInv' /\ m'.session = [name |-> DefaultName, uid |-> 0, home |-> DefaultHome]
  <1> DEFINE who == [name |-> DefaultName, uid |-> 0, home |-> DefaultHome]
             a   == Become(m, who)
             x   == [a EXCEPT !.loggedIn = TRUE]
  <1>1. who \in Person
    BY People, SessionAssumption
  <1>2. m' = x /\ History(x) /\ typed' = typed
    BY DEF Step, F1
  <1> HIDE DEF who
  <1>3. a \in State /\ a.session = who /\ SameLogin(m, a)
    BY <1>1, BecomeMeans DEF IInv
  <1> HIDE DEF a
  <1>4. /\ x \in State /\ x.loggedIn /\ x.session = who /\ x.prev = m.prev
    BY <1>3 DEF State, SameLogin
  <1> HIDE DEF x
  <1>5. held' = held \cup {Id(m'.session)}
    BY <1>2, <1>4 DEF History
  <1> QED  BY <1>2, <1>4, <1>5, SessionStep DEF who

\* The keys and the lines passwd asks for.
LEMMA PasswdSteps ==
  ASSUME IInv, InPasswd,
         (\E k \in Keys : PasswdKey(k)) \/ PasswdBackspace \/ OldEntered \/ NewEntered
  PROVE  IInv' /\ m'.session = m.session /\ m'.loggedIn
  <1>1. /\ m \in State /\ m.loggedIn /\ m.old \in Texts /\ m.new \in Texts
        /\ m.session.name \in Names \cup {NoName, DefaultName}
    BY DEF IInv, State, InPasswd, Person
  <1>2. typed' = typed
    BY DEF PasswdKey, PasswdBackspace, OldEntered, NewEntered
  <1>3. \/ \E t \in Texts : m' = [m EXCEPT !.old = t] \/ m' = [m EXCEPT !.new = t]
        \/ \E s \in {"new", "off"} : m' = [m EXCEPT !.passwd = s]
        \/ m' = [m EXCEPT !.passwd = "off",
                          !.copy = [name |-> m.session.name, pw |-> m.new]]
    <2>1. ASSUME NEW k \in Keys, PasswdKey(k)
          PROVE  m' = [m EXCEPT !.old = Typed(m.old, k)] \/ m' = [m EXCEPT !.new = Typed(m.new, k)]
      BY <2>1 DEF PasswdKey, Step
    <2>2. ASSUME PasswdBackspace
          PROVE  m' = [m EXCEPT !.old = Erased(m.old)] \/ m' = [m EXCEPT !.new = Erased(m.new)]
      BY <2>2 DEF PasswdBackspace, Step
    <2>3. ASSUME OldEntered PROVE \E s \in {"new", "off"} : m' = [m EXCEPT !.passwd = s]
      BY <2>3 DEF OldEntered, Step
    <2>4. ASSUME NewEntered
          PROVE  \/ m' = [m EXCEPT !.passwd = "off"]
                 \/ m' = [m EXCEPT !.passwd = "off",
                                   !.copy = [name |-> m.session.name, pw |-> m.new]]
      BY <2>4 DEF NewEntered, Step
    <2> QED  BY <1>1, <2>1, <2>2, <2>3, <2>4, BuffersHold
  <1>4. [name |-> m.session.name, pw |-> m.new]
          \in [name : Names \cup {NoName, DefaultName}, pw : Texts]
    BY <1>1
  <1>5. /\ m' \in State /\ m'.session = m.session /\ m'.prev = m.prev
        /\ m'.loggedIn = m.loggedIn
    <2>1. ASSUME NEW t \in Texts, m' = [m EXCEPT !.old = t]
          PROVE  /\ m' \in State /\ m'.session = m.session /\ m'.prev = m.prev
                 /\ m'.loggedIn = m.loggedIn
      BY <1>1, <2>1 DEF State
    <2>2. ASSUME NEW t \in Texts, m' = [m EXCEPT !.new = t]
          PROVE  /\ m' \in State /\ m'.session = m.session /\ m'.prev = m.prev
                 /\ m'.loggedIn = m.loggedIn
      BY <1>1, <2>2 DEF State
    <2>3. ASSUME NEW s \in {"new", "off"}, m' = [m EXCEPT !.passwd = s]
          PROVE  /\ m' \in State /\ m'.session = m.session /\ m'.prev = m.prev
                 /\ m'.loggedIn = m.loggedIn
      BY <1>1, <2>3 DEF State
    <2>4. CASE m' = [m EXCEPT !.passwd = "off",
                              !.copy = [name |-> m.session.name, pw |-> m.new]]
      BY <1>1, <1>4, <2>4 DEF State
    <2> QED  BY <1>3, <2>1, <2>2, <2>3, <2>4
  <1>6. held' = held \cup {Id(m'.session)}
    BY <1>1, <1>5 DEF PasswdKey, PasswdBackspace, OldEntered, NewEntered, Step, History
  <1> QED  BY <1>1, <1>2, <1>5, <1>6, SessionStep

LEMMA CommandStep ==
  ASSUME IInv, NEW x, NEW me, Command(x), Left(x, held, me), me \in held \cup {RootId}
  PROVE  IInv'
  <1>1. m' = x /\ History(x) /\ typed' = IF x.loggedIn THEN typed ELSE Fresh
    BY DEF Command, Step
  <1>2. CASE x.loggedIn
    <2>1. held' = held \cup {Id(x.session)} /\ typed' = typed
      BY <1>1, <1>2 DEF History
    <2> QED  BY <1>1, <1>2, <2>1 DEF IInv, Left
  <1>3. CASE ~x.loggedIn
    BY <1>1, <1>3, FreshIs DEF IInv, Left, Waiting
  <1> QED  BY <1>2, <1>3

LEMMA ShellSteps ==
  ASSUME IInv, NEW pw, NEW cmd,
         Exit \/ Logout \/ Passwd \/ SudoSu(pw) \/ Sudo(pw, cmd)
  PROVE  IInv'
  <1>1. m \in State /\ m.loggedIn /\ m.passwd = "off" /\ Id(m.session) \in held
        /\ (m.prev.has => Id(m.prev.who) \in held)
    BY DEF IInv, Exit, Logout, Passwd, SudoSu, Sudo, Command, AtShell
  <1>2. NoHome \in HomesRead
    BY DEF HomesRead
  <1>3. \A c, p : \A h \in HomesRead : Left(Ran(m, c, p, h), held, Id(m.session))
    BY <1>1, RanMeans
  <1>4. ASSUME NEW c, NEW h \in HomesRead, Command(Ran(m, c, pw, h)) PROVE IInv'
    BY <1>1, <1>3, <1>4, CommandStep
  <1>5. Exit => Command(Ran(m, "exit", pw, NoHome))
    BY DEF Exit, Ran
  <1>6. Logout => Command(Ran(m, "logout", pw, NoHome))
    BY DEF Logout, Ran
  <1>7. Passwd => Command(Ran(m, "passwd", pw, NoHome))
    BY DEF Passwd, Ran
  <1>8. SudoSu(pw) => \E h \in HomesRead : Command(Ran(m, "su", pw, h))
    BY DEF SudoSu, Ran
  <1>9. ASSUME Sudo(pw, cmd) PROVE IInv'
    <2>1. PICK h \in HomesRead : Command(SudoRan(m, pw, cmd, h))
      BY <1>9 DEF Sudo
    <2>2. Left(SudoRan(m, pw, cmd, h), held, RootId)
      BY <1>1, SudoRanMeans
    <2> QED  BY <2>1, <2>2, CommandStep
  <1> QED  BY <1>2, <1>4, <1>5, <1>6, <1>7, <1>8, <1>9

-----------------------------------------------------------------------------
(* The theorems.                                                           *)

LEMMA NameOrPassword ==
  ASSUME IInv, NameEntered \/ PasswordEntered
  PROVE  /\ ~m.loggedIn
         /\ \/ IInv' /\ ~m'.loggedIn
            \/ \E pw : /\ LoginSucceeds(pw)
                       /\ m.requirePassword => pw = m.pass
  <1>1. ~m.loggedIn
    BY DEF NameEntered, PasswordEntered, AtPrompt
  <1>2. CASE NameEntered
    <2>1. m.step = 0
      BY <1>2 DEF NameEntered
    <2>2. ASSUME Step([m EXCEPT !.step = 0, !.user = <<>>]), typed' = Fresh
          PROVE  IInv' /\ ~m'.loggedIn
      BY <1>1, <2>1, <2>2, NoLogin DEF Step
    <2>3. ASSUME Step([m EXCEPT !.step = 1]), typed' = typed
          PROVE  IInv' /\ ~m'.loggedIn
      BY <1>1, <2>3, NoLogin DEF Step
    <2> QED  BY <1>1, <1>2, <2>2, <2>3 DEF NameEntered
  <1>3. CASE PasswordEntered
    <2>1. ASSUME LoginFails(m.pass) PROVE IInv' /\ ~m'.loggedIn
      BY <1>1, <2>1, NoLogin DEF LoginFails, Step
    <2> QED  BY <1>1, <1>3, <2>1 DEF PasswordEntered
  <1> QED  BY <1>2, <1>3

\* What a step of the session may do: the step keeps the invariant, a login is
\* decided by what was typed, and passwd keeps the user.
LoginIsTyped ==
  ~m.loggedIn /\ m'.loggedIn /\ m'.session # [name |-> DefaultName, uid |-> 0, home |-> DefaultHome]
  => /\ m'.session.name = typed.user
     /\ typed.user \in Names
     /\ m'.session.uid = Users[typed.user].uid
     /\ m.requirePassword => typed.pass = Users[typed.user].pw

UserIsKept == m.passwd # "off" => Id(m'.session) = Id(m.session) /\ m'.loggedIn

LEMMA StepMeans ==
  ASSUME IInv, [Next]_vars
  PROVE  IInv' /\ LoginIsTyped /\ UserIsKept
  <1>1. m.passwd # "off" => m.loggedIn
    BY DEF IInv, Waiting
  <1>2. CASE (\E k \in Keys : PromptKey(k)) \/ PromptBackspace
    <2>1. ~m.loggedIn
      BY <1>2 DEF PromptKey, PromptBackspace, AtPrompt
    <2> QED  BY <1>1, <1>2, <2>1, KeysAtPrompt DEF LoginIsTyped, UserIsKept
  <1>3. CASE NameEntered \/ PasswordEntered
    <2>1. ~m.loggedIn /\ typed.user = m.user /\ typed.pass = m.pass
      BY <1>3, NameOrPassword DEF IInv, Waiting
    <2>2. CASE IInv' /\ ~m'.loggedIn
      BY <1>1, <2>1, <2>2 DEF LoginIsTyped, UserIsKept
    <2>3. ASSUME NEW pw, LoginSucceeds(pw), m.requirePassword => pw = m.pass
          PROVE  IInv' /\ LoginIsTyped /\ UserIsKept
      BY <1>1, <2>1, <2>3, LoginStep DEF LoginIsTyped, UserIsKept
    <2> QED  BY <1>3, <2>2, <2>3, NameOrPassword
  <1>4. CASE F1
    <2>1. ~m.loggedIn
      BY <1>4 DEF F1, AtPrompt
    <2> QED  BY <1>1, <1>4, <2>1, F1Step DEF LoginIsTyped, UserIsKept
  <1>5. CASE (\E k \in Keys : PasswdKey(k)) \/ PasswdBackspace \/ OldEntered \/ NewEntered
    <2>1. InPasswd /\ m.loggedIn
      BY <1>5 DEF PasswdKey, PasswdBackspace, OldEntered, NewEntered, InPasswd
    <2> QED  BY <1>5, <2>1, PasswdSteps DEF LoginIsTyped, UserIsKept
  <1>6. ASSUME NEW pw, NEW cmd, Exit \/ Logout \/ Passwd \/ SudoSu(pw) \/ Sudo(pw, cmd)
        PROVE  IInv' /\ LoginIsTyped /\ UserIsKept
    <2>1. m.loggedIn /\ m.passwd = "off"
      BY <1>6 DEF Exit, Logout, Passwd, SudoSu, Sudo, Command, AtShell
    <2> QED  BY <1>6, <2>1, ShellSteps DEF LoginIsTyped, UserIsKept
  <1>7. CASE UNCHANGED vars
    BY <1>1, <1>7 DEF vars, IInv, Waiting, LoginIsTyped, UserIsKept
  <1> QED  BY <1>2, <1>3, <1>4, <1>5, <1>6, <1>7 DEF Next

LEMMA IInvAlways == Spec => []IInv
  <1>1. IInv /\ [Next]_vars => IInv'
    BY StepMeans
  <1> QED  BY InitIInv, <1>1, PTL DEF Spec

\* No buffer of a prompt ever holds more than it has room for, and the session is
\* always a user of the machine.
THEOREM StateCorrect == Spec => [](m \in State)
  <1>1. IInv => m \in State
    BY DEF IInv
  <1> QED  BY IInvAlways, <1>1, PTL

\* exit never brings back an identity of an earlier login.
THEOREM PreviousCorrect == Spec => []PreviousIsFromThisLogin
  <1>1. IInv => PreviousIsFromThisLogin
    BY DEF IInv, PreviousIsFromThisLogin
  <1> QED  BY IInvAlways, <1>1, PTL

\* The login prompt can always read /etc/passwd.
THEOREM PromptCorrect == Spec => []PromptCanReadPasswd
  <1>1. IInv => PromptCanReadPasswd
    BY DEF IInv, Waiting, PromptCanReadPasswd, PasswdReadable
  <1> QED  BY IInvAlways, <1>1, PTL

\* Who logs in is who was typed at this prompt, with his password.
THEOREM LoginCorrect == Spec => LoginByTypedKeys
  <1>1. IInv /\ [Next]_vars => [LoginIsTyped]_vars
    BY StepMeans
  <1>2. Spec => [][LoginIsTyped]_vars
    BY IInvAlways, <1>1, PTL DEF Spec
  <1> QED  BY <1>2 DEF LoginByTypedKeys, LoginIsTyped

\* passwd changes the password of the user who asked for it.
THEOREM PasswdCorrect == Spec => PasswdKeepsUser
  <1>1. IInv /\ [Next]_vars => [UserIsKept]_vars
    BY StepMeans
  <1>2. Spec => [][UserIsKept]_vars
    BY IInvAlways, <1>1, PTL DEF Spec
  <1> QED  BY <1>2 DEF PasswdKeepsUser, UserIsKept

-----------------------------------------------------------------------------
(***************************************************************************)
(* The tree of files: the module Vfs, for all sets of paths, users, disks  *)
(* and images, and tables of any size.                                     *)
(*                                                                         *)
(* The invariant says where a text is that was reported stored: in the     *)
(* slot that is found for its path, in memory or in the table of KVXFS and *)
(* on its disk; a disk that is not there keeps what it had.  Every command *)
(* but a restart is of one kind, Done(S): it changes what is stored at no  *)
(* path but those of S, and says of these only what is so.                 *)
(***************************************************************************)
-----------------------------------------------------------------------------
(* The type of the variables.                                              *)

\* What texts are made of; the provers do not know that a literal is a string.
Words == STRING \cup {"no text"}
VfsTexts == Seq(Words)
SomePath == Paths \cup {Root}
Node  == [used : BOOLEAN, path : SomePath, dir : BOOLEAN, text : VfsTexts]
OwnerBytes == 0 .. 255
Entry == [used : BOOLEAN, path : SomePath, dir : BOOLEAN, text : VfsTexts, owner : OwnerBytes,
          others : BOOLEAN]

\* Without a disk the table of KVXFS has no entries.
EntriesOf(d) == IF d = NoDisk THEN {} ELSE KvxSlots

VfsTypes ==
  /\ root \in Roots \cup {NoDisk}
  /\ ram \in [RamSlots -> Node]
  /\ kvx \in [EntriesOf(root) -> Entry]
  /\ saved \in [Roots -> [KvxSlots -> Entry]]
  /\ toy \in Images
  /\ uid \in Uids
  /\ said \in [Claims -> VfsTexts]

-----------------------------------------------------------------------------
(* What is stored.                                                         *)

\* Slot i of a table holds the path p.
Of(table, i, p) == table[i].used /\ table[i].path = p

\* The slot that is found for p has the text t, and is a file where that matters.
Stored(table, p, t) ==
  \E i \in Find(table, p) : table[i].text = t /\ (Persist(p) => ~table[i].dir)

\* The texts reported stored are: in memory, on every disk, and on the one that is there
\* in the table in memory, too, which a rename may have taken ahead of the disk.
SaidIsStored ==
  \A p \in OneBackend :
    /\ ~Persist(p) /\ said[<<p, "memory">>] # NoText => Stored(ram, p, said[<<p, "memory">>])
    /\ \A d \in Roots :
         Persist(p) /\ said[<<p, d>>] # NoText =>
           /\ Stored(saved[d], p, said[<<p, d>>])
           /\ d = root => Stored(kvx, p, said[<<p, d>>])

VfsInv == VfsTypes /\ SaidIsStored

-----------------------------------------------------------------------------
(* Texts.                                                                  *)

LEMMA MoreWords ==
  ASSUME NEW A, NEW B, A \subseteq B, NEW s \in Seq(A)
  PROVE  s \in Seq(B)
  OBVIOUS

LEMMA OneWord ==
  ASSUME NEW A, NEW x \in A
  PROVE  <<x>> \in Seq(A) /\ <<>> \in Seq(A)
  OBVIOUS

LEMMA WrittenAre ==
  /\ NoText \in VfsTexts /\ <<>> \in VfsTexts
  /\ ToyText \in VfsTexts /\ PasswdText \in VfsTexts
  /\ \A x \in Pieces : <<x>> \in VfsTexts
  <1>1. "no text" \in Words /\ STRING \subseteq Words /\ Pieces \subseteq Words
    BY VfsAssumption, Zenon DEF Words
  <1>2. ToyText \in Seq(STRING) /\ PasswdText \in Seq(STRING)
    BY VfsAssumption, Zenon
  <1>3. ToyText \in Seq(Words) /\ PasswdText \in Seq(Words)
    BY <1>1, <1>2, MoreWords, Zenon
  <1>4. \A x \in Words : <<x>> \in Seq(Words) /\ <<>> \in Seq(Words)
    BY OneWord, Zenon
  <1> QED  BY <1>1, <1>3, <1>4, Zenon DEF NoText, VfsTexts

-----------------------------------------------------------------------------
(* Tables: what find_ent and alloc_ent find.                               *)

LEMMA LeastOf ==
  ASSUME NEW S, S \subseteq Nat, S # {}
  PROVE  \E i \in S : \A j \in S : i <= j
  <1>1. PICK i \in S : \A j \in S : ~(<<j, i>> \in OpToRel(<, Nat))
    BY NatLessThanWellFounded, WFMin, Zenon
  <1>2. ASSUME NEW j \in S, j < i PROVE FALSE
    <2>1. j \in Nat /\ i \in Nat
      OBVIOUS
    <2>2. <<j, i>> \in OpToRel(<, Nat)
      BY <1>2, <2>1, Zenon DEF OpToRel
    <2> QED  BY <1>1, <2>2, Zenon
  <1> QED  BY <1>2

LEMMA LowestIs ==
  ASSUME NEW S, S \subseteq Nat
  PROVE  /\ Lowest(S) \subseteq S /\ (S # {} => Lowest(S) # {})
         /\ \A i, j \in Lowest(S) : i = j
  <1>1. S # {} => Lowest(S) # {}
    BY LeastOf, Zenon DEF Lowest
  <1>2. ASSUME NEW i \in Lowest(S), NEW j \in Lowest(S) PROVE i = j
    <2>1. i \in Nat /\ j \in Nat /\ i <= j /\ j <= i
      BY DEF Lowest
    <2> QED  BY <2>1
  <1> QED  BY <1>1, <1>2, Zenon DEF Lowest

\* The slots a path has.
Slots(table, p) == {i \in DOMAIN table : Of(table, i, p)}

LEMMA FindIs ==
  ASSUME NEW table, DOMAIN table \subseteq Nat, NEW p
  PROVE  /\ Find(table, p) = Lowest(Slots(table, p))
         /\ \A i \in Find(table, p) : i \in DOMAIN table /\ Of(table, i, p)
         /\ \A i, j \in Find(table, p) : i = j
         /\ In(table, p) <=> Find(table, p) # {}
         /\ In(table, p) <=> \E i \in DOMAIN table : Of(table, i, p)
  <1>1. Slots(table, p) = {i \in DOMAIN table : table[i].used /\ table[i].path = p}
    BY Zenon DEF Slots, Of
  <1>2. Find(table, p) = Lowest(Slots(table, p))
    BY <1>1, Zenon DEF Find
  <1>3. Slots(table, p) \subseteq Nat
    BY Zenon DEF Slots
  <1>4. In(table, p) <=> Slots(table, p) # {}
    BY Zenon DEF In, Slots, Of
  <1>5. In(table, p) <=> \E i \in DOMAIN table : Of(table, i, p)
    BY Zenon DEF In, Of
  <1>6. /\ Lowest(Slots(table, p)) \subseteq Slots(table, p)
        /\ Slots(table, p) # {} => Lowest(Slots(table, p)) # {}
        /\ \A i, j \in Lowest(Slots(table, p)) : i = j
    BY <1>3, LowestIs
  <1>7. \A i \in Find(table, p) : i \in DOMAIN table /\ Of(table, i, p)
    BY <1>2, <1>6, Zenon DEF Slots
  <1>8. Lowest(Slots(table, p)) # {} => Slots(table, p) # {}
    BY <1>6, Zenon
  <1>9. \A i, j \in Find(table, p) : i = j
    BY <1>2, <1>6, Zenon
  <1>10. In(table, p) <=> Find(table, p) # {}
    BY <1>2, <1>4, <1>6, <1>8, Zenon
  <1> QED  BY <1>2, <1>5, <1>7, <1>9, <1>10, Zenon

LEMMA FreeIs ==
  ASSUME NEW table, DOMAIN table \subseteq Nat
  PROVE  /\ \A i \in FreeIn(table) : i \in DOMAIN table /\ ~table[i].used
         /\ (\E i \in DOMAIN table : ~table[i].used) => FreeIn(table) # {}
  <1> DEFINE S == {i \in DOMAIN table : ~table[i].used}
  <1>1. FreeIn(table) = Lowest(S)
    BY Zenon DEF FreeIn
  <1>2. S \subseteq Nat
    OBVIOUS
  <1>3. (\E i \in DOMAIN table : ~table[i].used) => S # {}
    OBVIOUS
  <1>4. \A i \in S : i \in DOMAIN table /\ ~table[i].used
    OBVIOUS
  <1> HIDE DEF S
  <1>5. Lowest(S) \subseteq S /\ (S # {} => Lowest(S) # {})
    BY <1>2, LowestIs
  <1> QED  BY <1>1, <1>3, <1>4, <1>5, Zenon

\* The slots of p are the same in both tables, and hold the same.
Kept(t, u, p) ==
  /\ DOMAIN u = DOMAIN t
  /\ \A i \in DOMAIN t :
       /\ Of(t, i, p) <=> Of(u, i, p)
       /\ Of(t, i, p) => u[i].text = t[i].text /\ u[i].dir = t[i].dir

LEMMA KeptStored ==
  ASSUME NEW t, DOMAIN t \subseteq Nat, NEW u, NEW p, Kept(t, u, p)
  PROVE  /\ \A x : Stored(t, p, x) => Stored(u, p, x)
         /\ In(t, p) <=> In(u, p)
  <1>1. DOMAIN u \subseteq Nat /\ Slots(t, p) = Slots(u, p)
    BY Zenon DEF Kept, Slots
  <1>2. Find(t, p) = Find(u, p)
    BY <1>1, FindIs, Zenon
  <1>3. \A i \in Find(t, p) : i \in DOMAIN t /\ Of(t, i, p)
    BY FindIs, Zenon
  <1>4. \A i \in Find(t, p) : u[i].text = t[i].text /\ u[i].dir = t[i].dir
    BY <1>3, Zenon DEF Kept
  <1>5. In(t, p) <=> In(u, p)
    BY <1>1, <1>2, FindIs, Zenon
  <1> QED  BY <1>2, <1>4, <1>5, Zenon DEF Stored

\* A slot that did not hold q changes, and does not hold it then.
LEMMA OtherKept ==
  ASSUME NEW t, NEW i \in DOMAIN t, NEW r, NEW q,
         Of(t, i, q) <=> r.used /\ r.path = q,
         Of(t, i, q) => r.text = t[i].text /\ r.dir = t[i].dir
  PROVE  Kept(t, [t EXCEPT ![i] = r], q)
  <1> DEFINE u == [t EXCEPT ![i] = r]
  <1>1. DOMAIN u = DOMAIN t /\ u[i] = r /\ \A j \in DOMAIN t : j # i => u[j] = t[j]
    OBVIOUS
  <1> HIDE DEF u
  <1>2. \A j \in DOMAIN t : j # i => (Of(t, j, q) <=> Of(u, j, q))
    BY <1>1, Zenon DEF Of
  <1>3. Of(t, i, q) <=> Of(u, i, q)
    BY <1>1, Zenon DEF Of
  <1>4. Kept(t, u, q)
    BY <1>1, <1>2, <1>3, Zenon DEF Kept
  <1> QED  BY <1>4 DEF u

\* What a slot found, or a free one when none is found, is filled with, is stored.
LEMMA FilledStored ==
  ASSUME NEW t, DOMAIN t \subseteq Nat, NEW p, NEW i \in DOMAIN t,
         i \in Find(t, p) \/ ~In(t, p),
         NEW r, r.used, r.path = p, Persist(p) => ~r.dir
  PROVE  Stored([t EXCEPT ![i] = r], p, r.text) /\ In([t EXCEPT ![i] = r], p)
  <1> DEFINE u == [t EXCEPT ![i] = r]
  <1>1. DOMAIN u = DOMAIN t /\ u[i] = r /\ \A j \in DOMAIN t : j # i => u[j] = t[j]
    OBVIOUS
  <1> HIDE DEF u
  <1>2. Of(u, i, p) /\ \A j \in DOMAIN t : j # i => (Of(t, j, p) <=> Of(u, j, p))
    BY <1>1, Zenon DEF Of
  <1>3. i \in Find(u, p)
    <2>1. Find(u, p) = Lowest(Slots(u, p)) /\ Find(t, p) = Lowest(Slots(t, p)) /\ i \in Slots(u, p)
      <3>1. DOMAIN u \subseteq Nat
        BY <1>1, Zenon
      <3>2. Find(u, p) = Lowest(Slots(u, p))
        BY <3>1, FindIs, Zenon
      <3>3. Find(t, p) = Lowest(Slots(t, p))
        BY FindIs, Zenon
      <3>4. i \in Slots(u, p)
        BY <1>1, <1>2, Zenon DEF Slots
      <3> QED  BY <3>2, <3>3, <3>4
    <2>2. CASE i \in Find(t, p)
      <3>1. Slots(t, p) = Slots(u, p)
        <4>1. Of(t, i, p)
          BY <2>2, FindIs, Zenon
        <4> QED  BY <1>1, <1>2, <4>1, Zenon DEF Slots
      <3> QED  BY <2>1, <2>2, <3>1, Zenon
    <2>3. CASE ~In(t, p)
      <3>1. \A j \in DOMAIN t : ~Of(t, j, p)
        BY <2>3, FindIs, Zenon
      <3>2. Slots(u, p) = {i}
        BY <1>1, <1>2, <3>1, Zenon DEF Slots
      <3>3. i <= i
        OBVIOUS
      <3>4. Lowest({i}) = {i}
        BY <3>3, Zenon DEF Lowest
      <3> QED  BY <2>1, <3>2, <3>4, Zenon
    <2> QED  BY <2>2, <2>3
  <1>4. Stored(u, p, r.text)
    BY <1>1, <1>3, Zenon DEF Stored
  <1>5. In(u, p)
    BY <1>1, <1>2, FindIs, Zenon
  <1> QED  BY <1>4, <1>5 DEF u

-----------------------------------------------------------------------------
(* Changing a table.                                                       *)

KvxLike(t) == DOMAIN t \subseteq Nat /\ t \in [DOMAIN t -> Entry]
RamLike(t) == DOMAIN t \subseteq Nat /\ t \in [DOMAIN t -> Node]

LEMMA FreeTyped == FreeNode \in Node /\ FreeEnt \in Entry
  <1>1. Root \in SomePath /\ <<>> \in VfsTexts /\ 0 \in OwnerBytes
    BY VfsAssumption DEF SomePath, VfsTexts, OwnerBytes
  <1> QED  BY <1>1 DEF FreeNode, FreeEnt, Node, Entry

\* Entries made and changed.
WithText(e, t)       == [e EXCEPT !.text = t, !.dir = FALSE]
NewEntry(p, t, b, o) == [FreeEnt EXCEPT !.used = TRUE, !.path = p, !.text = t, !.owner = b, !.others = o]
NewKvxDir(p)         == [FreeEnt EXCEPT !.used = TRUE, !.path = p, !.dir = TRUE]

LEMMA WithTextIs ==
  ASSUME NEW e \in Entry, NEW t \in VfsTexts
  PROVE  /\ WithText(e, t) \in Entry /\ WithText(e, t).used = e.used /\ WithText(e, t).path = e.path
         /\ WithText(e, t).text = t /\ ~WithText(e, t).dir
  BY DEF Entry, WithText

LEMMA NewEntriesAre ==
  ASSUME NEW p \in SomePath, NEW t \in VfsTexts, NEW b \in OwnerBytes, NEW o \in BOOLEAN
  PROVE  /\ NewEntry(p, t, b, o) \in Entry /\ NewEntry(p, t, b, o).used
         /\ NewEntry(p, t, b, o).path = p /\ NewEntry(p, t, b, o).text = t /\ ~NewEntry(p, t, b, o).dir
         /\ NewKvxDir(p) \in Entry /\ NewKvxDir(p).used /\ NewKvxDir(p).path = p
  <1>1. FreeEnt \in Entry /\ FreeEnt.dir = FALSE
    BY FreeTyped DEF FreeEnt
  <1>2. /\ NewEntry(p, t, b, o) \in Entry /\ NewEntry(p, t, b, o).used
        /\ NewEntry(p, t, b, o).path = p /\ NewEntry(p, t, b, o).text = t /\ ~NewEntry(p, t, b, o).dir
    BY <1>1 DEF Entry, NewEntry
  <1>3. NewKvxDir(p) \in Entry /\ NewKvxDir(p).used /\ NewKvxDir(p).path = p
    BY <1>1 DEF Entry, NewKvxDir
  <1> QED  BY <1>2, <1>3

NewNode(p, t)  == [FreeNode EXCEPT !.used = TRUE, !.path = p, !.text = t]
NewRamDir(p)   == [FreeNode EXCEPT !.used = TRUE, !.path = p, !.dir = TRUE]

LEMMA NodesAre ==
  ASSUME NEW e \in Node, NEW p \in SomePath, NEW t \in VfsTexts
  PROVE  /\ [e EXCEPT !.text = t] \in Node /\ [e EXCEPT !.text = t].used = e.used
         /\ [e EXCEPT !.text = t].path = e.path /\ [e EXCEPT !.text = t].text = t
         /\ /\ [e EXCEPT !.path = p] \in Node /\ [e EXCEPT !.path = p].used = e.used
            /\ [e EXCEPT !.path = p].path = p
  BY DEF Node

LEMMA NewNodesAre ==
  ASSUME NEW p \in SomePath, NEW t \in VfsTexts
  PROVE  /\ NewNode(p, t) \in Node /\ NewNode(p, t).used /\ NewNode(p, t).path = p /\ NewNode(p, t).text = t
         /\ NewRamDir(p) \in Node /\ NewRamDir(p).used /\ NewRamDir(p).path = p
  <1>1. FreeNode \in Node
    BY FreeTyped
  <1>2. NewNode(p, t) \in Node /\ NewNode(p, t).used /\ NewNode(p, t).path = p /\ NewNode(p, t).text = t
    BY <1>1 DEF Node, NewNode
  <1>3. NewRamDir(p) \in Node /\ NewRamDir(p).used /\ NewRamDir(p).path = p
    BY <1>1 DEF Node, NewRamDir
  <1> QED  BY <1>2, <1>3

LEMMA KvxPut ==
  ASSUME NEW t, KvxLike(t), NEW i \in DOMAIN t, NEW r \in Entry
  PROVE  KvxLike([t EXCEPT ![i] = r]) /\ DOMAIN [t EXCEPT ![i] = r] = DOMAIN t
  BY DEF KvxLike

LEMMA RamPut ==
  ASSUME NEW t, RamLike(t), NEW i \in DOMAIN t, NEW r \in Node
  PROVE  RamLike([t EXCEPT ![i] = r]) /\ DOMAIN [t EXCEPT ![i] = r] = DOMAIN t
  BY DEF RamLike

LEMMA OneSlotChanges ==
  ASSUME NEW k, NEW i \in DOMAIN k, NEW t, NEW p, NEW o
  PROVE  /\ [k EXCEPT ![i].text = t, ![i].dir = FALSE] = [k EXCEPT ![i] = WithText(k[i], t)]
         /\ [k EXCEPT ![i].text = t] = [k EXCEPT ![i] = [k[i] EXCEPT !.text = t]]
         /\ [k EXCEPT ![i].path = p] = [k EXCEPT ![i] = [k[i] EXCEPT !.path = p]]
         /\ [k EXCEPT ![i].others = o] = [k EXCEPT ![i] = [k[i] EXCEPT !.others = o]]
  <1>1. [k EXCEPT ![i].text = t, ![i].dir = FALSE] = [k EXCEPT ![i] = WithText(k[i], t)]
    BY DEF WithText
  <1>2. [k EXCEPT ![i].text = t] = [k EXCEPT ![i] = [k[i] EXCEPT !.text = t]]
    OBVIOUS
  <1>3. [k EXCEPT ![i].path = p] = [k EXCEPT ![i] = [k[i] EXCEPT !.path = p]]
    OBVIOUS
  <1>4. [k EXCEPT ![i].others = o] = [k EXCEPT ![i] = [k[i] EXCEPT !.others = o]]
    OBVIOUS
  <1> QED  BY <1>1, <1>2, <1>3, <1>4

\* kvxfs_write_all.
LEMMA KvxWriteIs ==
  ASSUME NEW k, KvxLike(k), NEW p \in SomePath, NEW t \in VfsTexts, NEW u \in Uids,
         NEW n \in KvxWrite(k, p, t, u)
  PROVE  /\ KvxLike(n) /\ DOMAIN n = DOMAIN k
         /\ Stored(n, p, t) /\ In(n, p)
         /\ \A q : q # p => Kept(k, n, q)
  <1>0. DOMAIN k \subseteq Nat /\ \A i \in DOMAIN k : k[i] \in Entry
    BY Zenon DEF KvxLike
  <1> DEFINE new == NewEntry(p, t, OwnerByte(u), Top(p) = "etc")
  <1>1. PICK i : \/ i \in Find(k, p) /\ n = [k EXCEPT ![i].text = t, ![i].dir = FALSE]
                 \/ ~In(k, p) /\ i \in FreeIn(k) /\ n = [k EXCEPT ![i] = new]
    BY Zenon DEF KvxWrite, NewEntry
  <1>2. PICK r \in Entry : /\ r.used /\ r.path = p /\ r.text = t /\ ~r.dir
                           /\ n = [k EXCEPT ![i] = r]
                           /\ i \in DOMAIN k /\ (i \in Find(k, p) \/ ~In(k, p))
                           /\ k[i].used => k[i].path = p
    <2>1. CASE i \in Find(k, p) /\ n = [k EXCEPT ![i].text = t, ![i].dir = FALSE]
      <3>1. i \in DOMAIN k /\ k[i].used /\ k[i].path = p
        BY <1>0, <2>1, FindIs, Zenon DEF Of
      <3>2. n = [k EXCEPT ![i] = WithText(k[i], t)]
        BY <2>1, <3>1, OneSlotChanges, Zenon
      <3>3. LET r == WithText(k[i], t) IN r \in Entry /\ r.used /\ r.path = p /\ r.text = t /\ ~r.dir
        <4>1. k[i] \in Entry
          BY <1>0, <3>1
        <4>2. \A e \in Entry : LET r == WithText(e, t) IN
                 r \in Entry /\ r.used = e.used /\ r.path = e.path /\ r.text = t /\ ~r.dir
          BY WithTextIs, Zenon
        <4> QED  BY <3>1, <4>1, <4>2
      <3> QED  BY <2>1, <3>1, <3>2, <3>3, Zenon
    <2>2. CASE ~In(k, p) /\ i \in FreeIn(k) /\ n = [k EXCEPT ![i] = new]
      <3>1. i \in DOMAIN k /\ ~k[i].used
        BY <1>0, <2>2, FreeIs, Zenon
      <3>2. new \in Entry /\ new.used /\ new.path = p /\ new.text = t /\ ~new.dir
        <4>1. (Top(p) = "etc") \in BOOLEAN
          OBVIOUS
        <4>2. OwnerByte(u) \in OwnerBytes
          BY VfsAssumption DEF OwnerByte, OwnerBytes
        <4>3. \A b \in OwnerBytes : \A o \in BOOLEAN : LET r == NewEntry(p, t, b, o) IN
                 r \in Entry /\ r.used /\ r.path = p /\ r.text = t /\ ~r.dir
          BY NewEntriesAre
        <4> QED  BY <4>1, <4>2, <4>3
      <3> QED  BY <2>2, <3>1, <3>2, Zenon
    <2> QED  BY <1>1, <2>1, <2>2, Zenon
  <1>3. KvxLike(n) /\ DOMAIN n = DOMAIN k
    BY <1>2, KvxPut
  <1>4. Stored(n, p, t) /\ In(n, p)
    BY <1>0, <1>2, FilledStored, Zenon
  <1>5. ASSUME NEW q, q # p PROVE Kept(k, n, q)
    BY <1>2, <1>5, OtherKept, Zenon DEF Of
  <1> QED  BY <1>3, <1>4, <1>5, Zenon

\* ramfs_write_all.
LEMMA RamWriteIs ==
  ASSUME NEW k, RamLike(k), NEW p \in SomePath, NEW t \in VfsTexts, NEW n \in RamWrite(k, p, t)
  PROVE  /\ RamLike(n) /\ DOMAIN n = DOMAIN k
         /\ ~Persist(p) => Stored(n, p, t)
         /\ \A q : q # p => Kept(k, n, q)
  <1>0. DOMAIN k \subseteq Nat /\ \A i \in DOMAIN k : k[i] \in Node
    BY Zenon DEF RamLike
  <1> DEFINE new == NewNode(p, t)
  <1>1. PICK i : \/ i \in Find(k, p) /\ n = [k EXCEPT ![i].text = t]
                 \/ ~In(k, p) /\ i \in FreeIn(k) /\ n = [k EXCEPT ![i] = new]
    BY Zenon DEF RamWrite, NewNode
  <1>2. PICK r \in Node : /\ r.used /\ r.path = p /\ r.text = t
                          /\ n = [k EXCEPT ![i] = r]
                          /\ i \in DOMAIN k /\ (i \in Find(k, p) \/ ~In(k, p))
                          /\ k[i].used => k[i].path = p
    <2>1. CASE i \in Find(k, p) /\ n = [k EXCEPT ![i].text = t]
      <3>1. i \in DOMAIN k /\ k[i].used /\ k[i].path = p
        BY <1>0, <2>1, FindIs, Zenon DEF Of
      <3>2. n = [k EXCEPT ![i] = [k[i] EXCEPT !.text = t]]
        BY <2>1, <3>1, OneSlotChanges, Zenon
      <3>3. LET r == [k[i] EXCEPT !.text = t] IN r \in Node /\ r.used /\ r.path = p /\ r.text = t
        <4>1. k[i] \in Node
          BY <1>0, <3>1
        <4>2. \A e \in Node : LET r == [e EXCEPT !.text = t] IN
                 r \in Node /\ r.used = e.used /\ r.path = e.path /\ r.text = t
          BY NodesAre
        <4> QED  BY <3>1, <4>1, <4>2
      <3> QED  BY <2>1, <3>1, <3>2, <3>3, Zenon
    <2>2. CASE ~In(k, p) /\ i \in FreeIn(k) /\ n = [k EXCEPT ![i] = new]
      <3>1. i \in DOMAIN k /\ ~k[i].used
        BY <1>0, <2>2, FreeIs, Zenon
      <3>2. new \in Node /\ new.used /\ new.path = p /\ new.text = t
        BY NewNodesAre, Zenon
      <3> QED  BY <2>2, <3>1, <3>2, Zenon
    <2> QED  BY <1>1, <2>1, <2>2, Zenon
  <1>3. RamLike(n) /\ DOMAIN n = DOMAIN k
    BY <1>2, RamPut
  <1>4. ~Persist(p) => Stored(n, p, t)
    BY <1>0, <1>2, FilledStored, Zenon
  <1>5. ASSUME NEW q, q # p PROVE Kept(k, n, q)
    BY <1>2, <1>5, OtherKept, Zenon DEF Of
  <1> QED  BY <1>3, <1>4, <1>5, Zenon

\* kvxfs_mkdir and ramfs_mkdir.
LEMMA KvxMkdirIs ==
  ASSUME NEW k, KvxLike(k), NEW p \in SomePath, NEW n \in KvxMkdir(k, p)
  PROVE  /\ KvxLike(n) /\ DOMAIN n = DOMAIN k
         /\ ~In(k, p) /\ In(n, p)
         /\ \A q : q # p => Kept(k, n, q)
  <1>0. DOMAIN k \subseteq Nat /\ \A i \in DOMAIN k : k[i] \in Entry
    BY Zenon DEF KvxLike
  <1> DEFINE new == NewKvxDir(p)
  <1>1. PICK i : ~In(k, p) /\ i \in FreeIn(k) /\ n = [k EXCEPT ![i] = new]
    BY Zenon DEF KvxMkdir, NewKvxDir
  <1>2. i \in DOMAIN k /\ ~k[i].used
    BY <1>0, <1>1, FreeIs, Zenon
  <1>3. new \in Entry /\ new.used /\ new.path = p
    <2>1. <<>> \in VfsTexts /\ 0 \in OwnerBytes /\ TRUE \in BOOLEAN
      BY VfsAssumption DEF VfsTexts, OwnerBytes
    <2> QED  BY <2>1, NewEntriesAre, Zenon
  <1> HIDE DEF new
  <1>4. KvxLike(n) /\ DOMAIN n = DOMAIN k
    BY <1>1, <1>2, <1>3, KvxPut
  <1>5. In(n, p)
    <2>1. n[i] = new
      BY <1>1, <1>2
    <2> QED  BY <1>2, <1>3, <1>4, <2>1, Zenon DEF In
  <1>6. ASSUME NEW q, q # p PROVE Kept(k, n, q)
    BY <1>1, <1>2, <1>3, <1>6, OtherKept, Zenon DEF Of
  <1> QED  BY <1>1, <1>4, <1>5, <1>6, Zenon

LEMMA RamMkdirIs ==
  ASSUME NEW k, RamLike(k), NEW p \in SomePath, NEW n \in RamMkdir(k, p)
  PROVE  /\ RamLike(n) /\ DOMAIN n = DOMAIN k
         /\ ~In(k, p) /\ In(n, p)
         /\ \A q : q # p => Kept(k, n, q)
         /\ \E i \in DOMAIN k : \A j \in DOMAIN k : n[j].used => k[j].used \/ j = i
  <1>0. DOMAIN k \subseteq Nat /\ \A i \in DOMAIN k : k[i] \in Node
    BY Zenon DEF RamLike
  <1> DEFINE new == NewRamDir(p)
  <1>1. PICK i : ~In(k, p) /\ i \in FreeIn(k) /\ n = [k EXCEPT ![i] = new]
    BY Zenon DEF RamMkdir, NewRamDir
  <1>2. i \in DOMAIN k /\ ~k[i].used
    BY <1>0, <1>1, FreeIs, Zenon
  <1>3. new \in Node /\ new.used /\ new.path = p
    <2>1. <<>> \in VfsTexts
      BY DEF VfsTexts
    <2> QED  BY <2>1, NewNodesAre, Zenon
  <1> HIDE DEF new
  <1>4. RamLike(n) /\ DOMAIN n = DOMAIN k
    BY <1>1, <1>2, <1>3, RamPut
  <1>5. n[i] = new /\ \A j \in DOMAIN k : j # i => n[j] = k[j]
    BY <1>1, <1>2
  <1>6. In(n, p)
    BY <1>2, <1>3, <1>4, <1>5, Zenon DEF In
  <1>7. ASSUME NEW q, q # p PROVE Kept(k, n, q)
    BY <1>1, <1>2, <1>3, <1>7, OtherKept, Zenon DEF Of
  <1>8. \E h \in DOMAIN k : \A j \in DOMAIN k : n[j].used => k[j].used \/ j = h
    BY <1>2, <1>5, Zenon
  <1> QED  BY <1>1, <1>4, <1>6, <1>7, <1>8, Zenon

-----------------------------------------------------------------------------
(* The layout.                                                             *)

TwoTables(t, D) ==
  /\ t = [ram |-> t.ram, kvx |-> t.kvx]
  /\ RamLike(t.ram) /\ DOMAIN t.ram = RamSlots
  /\ KvxLike(t.kvx) /\ DOMAIN t.kvx = D

UsedIn(table) == {i \in DOMAIN table : table[i].used}

LEMMA KeptItself == \A t, p : Kept(t, t, p)
  BY Zenon DEF Kept

\* vfs_mkdir: what there is stays, and the directory is there then, unless the nodes have
\* run out.
LEMMA MkdirInIs ==
  ASSUME NEW D, NEW t, TwoTables(t, D), NEW p \in SomePath, NEW r, r = MkdirIn(t, p)
  PROVE  /\ TwoTables(r, D)
         /\ r.kvx = t.kvx \/ r.kvx \in KvxMkdir(t.kvx, p)
         /\ r.ram = t.ram \/ r.ram \in RamMkdir(t.ram, p)
         /\ \A q : In(t.kvx, q) => Kept(t.kvx, r.kvx, q)
         /\ \A q : In(t.ram, q) => Kept(t.ram, r.ram, q)
         /\ FreeIn(t.ram) # {} => In(r.kvx, p) \/ In(r.ram, p)
         /\ \E i : UsedIn(r.ram) \subseteq UsedIn(t.ram) \cup {i}
  <1> DEFINE onDisk == IF Top(p) = "removable" THEN {} ELSE KvxMkdir(t.kvx, p)
             inRam  == RamMkdir(t.ram, p)
             k == CHOOSE x \in onDisk : TRUE
             n == CHOOSE x \in inRam : TRUE
  <1>1. r = IF onDisk # {} THEN [t EXCEPT !.kvx = k]
            ELSE IF inRam # {} THEN [t EXCEPT !.ram = n] ELSE t
    BY Zenon DEF MkdirIn
  <1>2. onDisk \subseteq KvxMkdir(t.kvx, p)
    OBVIOUS
  <1>3. onDisk # {} => k \in onDisk
    OBVIOUS
  <1>4. inRam # {} => n \in inRam
    OBVIOUS
  <1>5. FreeIn(t.ram) # {} /\ ~In(t.ram, p) => inRam # {}
    <2> HIDE DEF onDisk, k, n
    <2>1. ASSUME NEW i \in FreeIn(t.ram), ~In(t.ram, p) PROVE inRam # {}
      BY <2>1, Zenon DEF RamMkdir
    <2> QED  BY <2>1, Zenon
  <1> HIDE DEF onDisk, inRam, k, n
  <1>6. CASE onDisk # {}
    <2>1. r = [ram |-> t.ram, kvx |-> k] /\ r.kvx = k /\ r.ram = t.ram
      BY <1>1, <1>6 DEF TwoTables
    <2>2. k \in KvxMkdir(t.kvx, p)
      BY <1>2, <1>3, <1>6, Zenon
    <2>3. KvxLike(k) /\ DOMAIN k = DOMAIN t.kvx /\ ~In(t.kvx, p) /\ In(k, p) /\ \A q : q # p => Kept(t.kvx, k, q)
      BY <2>2, KvxMkdirIs, Zenon DEF TwoTables
    <2>4. TwoTables(r, D)
      BY <2>1, <2>3, Zenon DEF TwoTables
    <2> QED  BY <2>1, <2>2, <2>3, <2>4, KeptItself, Zenon
  <1>7. CASE onDisk = {} /\ inRam # {}
    <2>1. r = [ram |-> n, kvx |-> t.kvx] /\ r.kvx = t.kvx /\ r.ram = n
      BY <1>1, <1>7 DEF TwoTables
    <2>2. n \in RamMkdir(t.ram, p)
      BY <1>4, <1>7, Zenon DEF inRam
    <2>3. /\ RamLike(n) /\ DOMAIN n = DOMAIN t.ram /\ ~In(t.ram, p) /\ In(n, p)
          /\ \A q : q # p => Kept(t.ram, n, q)
          /\ \E i \in DOMAIN t.ram : \A j \in DOMAIN t.ram : n[j].used => t.ram[j].used \/ j = i
      BY <2>2, RamMkdirIs, Zenon DEF TwoTables
    <2>4. TwoTables(r, D)
      BY <2>1, <2>3, Zenon DEF TwoTables
    <2>5. \E i : UsedIn(n) \subseteq UsedIn(t.ram) \cup {i}
      BY <2>3, Zenon DEF UsedIn
    <2> QED  BY <2>1, <2>2, <2>3, <2>4, <2>5, KeptItself, Zenon
  <1>8. CASE onDisk = {} /\ inRam = {}
    <2>1. r = t
      BY <1>1, <1>8, Zenon
    <2>2. FreeIn(t.ram) # {} => In(t.ram, p)
      BY <1>5, <1>8, Zenon
    <2> QED  BY <2>1, <2>2, KeptItself, Zenon
  <1> QED  BY <1>6, <1>7, <1>8, Zenon

\* The tables of Made follow from each other.
MadeFrom(f, disk, n) ==
  f = [i \in 0 .. n |-> IF i = 0 THEN [ram |-> EmptyRam, kvx |-> disk] ELSE MkdirIn(f[i - 1], Layout[i])]

LEMMA MadeIsDefined ==
  ASSUME NEW disk, NEW N \in Nat
  PROVE  \E f : MadeFrom(f, disk, N)
  <1> DEFINE open == {n \in Nat : ~\E f : MadeFrom(f, disk, n)}
  <1>1. 0 \notin open
    <2> DEFINE one == [i \in 0 .. 0 |-> [ram |-> EmptyRam, kvx |-> disk]]
    <2>1. one = [i \in 0 .. 0 |-> IF i = 0 THEN [ram |-> EmptyRam, kvx |-> disk] ELSE MkdirIn(one[i - 1], Layout[i])]
      <3>1. \A i \in 0 .. 0 : i = 0
        OBVIOUS
      <3> QED  BY <3>1, Zenon
    <2> QED  BY <2>1, Zenon DEF MadeFrom
  <1>2. ASSUME NEW n \in Nat, n + 1 \in open PROVE n \in open
    <2> SUFFICES ASSUME NEW g, MadeFrom(g, disk, n) PROVE FALSE
      BY Zenon
    <2> DEFINE h == [i \in 0 .. n + 1 |-> IF i = 0 THEN [ram |-> EmptyRam, kvx |-> disk] ELSE MkdirIn(g[i - 1], Layout[i])]
    <2>1. \A i \in 0 .. n : i \in 0 .. n + 1 /\ h[i] = g[i]
      <3>1. \A i \in 0 .. n : i \in 0 .. n + 1
        OBVIOUS
      <3> QED  BY <3>1, Zenon DEF MadeFrom
    <2>2. \A i \in 0 .. n + 1 : i # 0 => h[i - 1] = g[i - 1]
      <3>1. \A i \in 0 .. n + 1 : i # 0 => i - 1 \in 0 .. n
        OBVIOUS
      <3> QED  BY <2>1, <3>1, Zenon
    <2>3. h = [i \in 0 .. n + 1 |-> IF i = 0 THEN [ram |-> EmptyRam, kvx |-> disk] ELSE MkdirIn(h[i - 1], Layout[i])]
      BY <2>2, Zenon
    <2>4. MadeFrom(h, disk, n + 1)
      BY <2>3, Zenon DEF MadeFrom
    <2> QED  BY <1>2, <2>4, Zenon
  <1>3. open \subseteq Nat
    OBVIOUS
  <1>4. \A n \in Nat : n \notin open => \E f : MadeFrom(f, disk, n)
    BY Zenon
  <1> HIDE DEF open
  <1>5. ASSUME open # {} PROVE FALSE
    <2>1. PICK n \in open : \A j \in open : n <= j
      BY <1>3, <1>5, LeastOf, Zenon
    <2>2. n # 0 /\ n \in Nat
      BY <1>1, <1>3, <2>1, Zenon
    <2>3. n - 1 \in Nat /\ n = (n - 1) + 1 /\ ~(n <= n - 1)
      BY <2>2
    <2>4. n - 1 \in open
      BY <1>2, <2>1, <2>3
    <2> QED  BY <2>1, <2>3, <2>4, Zenon
  <1> QED  BY <1>4, <1>5, Zenon

LEMMA MadeIs ==
  ASSUME NEW disk
  PROVE  /\ Len(Layout) \in Nat
         /\ Made(disk)[0] = [ram |-> EmptyRam, kvx |-> disk]
         /\ \A n \in 1 .. Len(Layout) : Made(disk)[n] = MkdirIn(Made(disk)[n - 1], Layout[n])
  <1>1. Len(Layout) \in Nat
    BY VfsAssumption
  <1>2. \E f : MadeFrom(f, disk, Len(Layout))
    BY <1>1, MadeIsDefined, Zenon
  <1>3. Made(disk) = CHOOSE f : f = [i \in 0 .. Len(Layout) |->
                         IF i = 0 THEN [ram |-> EmptyRam, kvx |-> disk] ELSE MkdirIn(f[i - 1], Layout[i])]
    BY DEF Made
  <1>4. MadeFrom(Made(disk), disk, Len(Layout))
    BY <1>2, <1>3, Zenon DEF MadeFrom
  <1>5. 0 \in 0 .. Len(Layout) /\ \A n \in 1 .. Len(Layout) : n \in 0 .. Len(Layout) /\ n # 0
    BY <1>1
  <1>6. \A n \in 0 .. Len(Layout) : Made(disk)[n] =
          IF n = 0 THEN [ram |-> EmptyRam, kvx |-> disk] ELSE MkdirIn(Made(disk)[n - 1], Layout[n])
    BY <1>4, Zenon DEF MadeFrom
  <1> QED  BY <1>1, <1>5, <1>6, Zenon

\* After n directories of the layout.
MadeOk(disk, n) ==
  LET t == Made(disk)[n] IN
    /\ TwoTables(t, DOMAIN disk)
    /\ \A q, x : Stored(disk, q, x) => Stored(t.kvx, q, x)
    /\ IsFiniteSet(UsedIn(t.ram)) /\ Cardinality(UsedIn(t.ram)) <= n
    /\ Len(Layout) <= Cardinality(RamSlots) => \A i \in 1 .. n : In(t.ram, Layout[i]) \/ In(t.kvx, Layout[i])

LEMMA StoredIsIn ==
  ASSUME NEW t, DOMAIN t \subseteq Nat, NEW q, NEW x, Stored(t, q, x)
  PROVE  In(t, q)
  BY FindIs, Zenon DEF Stored

\* A node is free as long as fewer are used than there are.
LEMMA SomeFree ==
  ASSUME NEW t, DOMAIN t = RamSlots, IsFiniteSet(UsedIn(t)), Cardinality(UsedIn(t)) < Cardinality(RamSlots)
  PROVE  FreeIn(t) # {}
  <1>1. DOMAIN t \subseteq Nat
    BY VfsAssumption, Zenon
  <1>2. CASE \E i \in DOMAIN t : ~t[i].used
    BY <1>1, <1>2, FreeIs, Zenon
  <1>3. CASE \A i \in DOMAIN t : t[i].used
    <2>1. UsedIn(t) = RamSlots
      BY <1>3, Zenon DEF UsedIn
    <2>2. Cardinality(RamSlots) \in Nat
      BY VfsAssumption, FS_CardinalityType
    <2>3. ~(Cardinality(RamSlots) < Cardinality(RamSlots))
      BY <2>2
    <2> QED  BY <2>1, <2>3, Zenon
  <1> QED  BY <1>2, <1>3, Zenon

LEMMA MadeFirst ==
  ASSUME NEW disk, KvxLike(disk)
  PROVE  MadeOk(disk, 0)
  <1> DEFINE t == [ram |-> EmptyRam, kvx |-> disk]
  <1>1. Made(disk)[0] = t
    BY MadeIs
  <1>2. t.ram = EmptyRam /\ t.kvx = disk
    OBVIOUS
  <1>3. DOMAIN EmptyRam = RamSlots /\ EmptyRam \in [RamSlots -> Node] /\ \A i \in RamSlots : EmptyRam[i] = FreeNode
    BY FreeTyped, Zenon DEF EmptyRam
  <1>4. TwoTables(t, DOMAIN disk)
    BY <1>2, <1>3, VfsAssumption, Zenon DEF TwoTables, RamLike
  <1>5. UsedIn(EmptyRam) = {}
    <2>1. \A i \in RamSlots : ~EmptyRam[i].used
      BY <1>3 DEF FreeNode
    <2> QED  BY <1>3, <2>1, Zenon DEF UsedIn
  <1>6. IsFiniteSet({}) /\ Cardinality({}) <= 0
    BY FS_EmptySet
  <1>7. \A i : i \notin 1 .. 0
    OBVIOUS
  <1> QED  BY <1>1, <1>2, <1>4, <1>5, <1>6, <1>7, Zenon DEF MadeOk

LEMMA MadeNext ==
  ASSUME NEW disk, KvxLike(disk), NEW n \in 1 .. Len(Layout), MadeOk(disk, n - 1)
  PROVE  MadeOk(disk, n)
  <1> DEFINE D == DOMAIN disk
             t == Made(disk)[n - 1]
             r == Made(disk)[n]
             p == Layout[n]
  <1>1. r = MkdirIn(t, p) /\ p \in SomePath /\ n \in Nat /\ Len(Layout) \in Nat /\ n <= Len(Layout)
    <2>1. p \in Paths
      BY VfsAssumption
    <2>2. Len(Layout) \in Nat
      BY MadeIs
    <2>3. n \in Nat /\ n <= Len(Layout)
      BY <2>2
    <2>4. r = MkdirIn(t, p)
      BY MadeIs, Zenon
    <2> QED  BY <2>1, <2>2, <2>3, <2>4, Zenon DEF SomePath
  <1>2. /\ TwoTables(t, D)
        /\ \A q, x : Stored(disk, q, x) => Stored(t.kvx, q, x)
        /\ IsFiniteSet(UsedIn(t.ram)) /\ Cardinality(UsedIn(t.ram)) <= n - 1
        /\ Len(Layout) <= Cardinality(RamSlots) =>
             \A i \in 1 .. n - 1 : In(t.ram, Layout[i]) \/ In(t.kvx, Layout[i])
    BY Zenon DEF MadeOk
  <1> HIDE DEF t, r, p
  <1>3. /\ TwoTables(r, D)
        /\ \A q : In(t.kvx, q) => Kept(t.kvx, r.kvx, q)
        /\ \A q : In(t.ram, q) => Kept(t.ram, r.ram, q)
        /\ FreeIn(t.ram) # {} => In(r.kvx, p) \/ In(r.ram, p)
        /\ \E i : UsedIn(r.ram) \subseteq UsedIn(t.ram) \cup {i}
    BY <1>1, <1>2, MkdirInIs, Zenon
  <1>4. DOMAIN t.kvx \subseteq Nat /\ DOMAIN t.ram \subseteq Nat /\ DOMAIN t.ram = RamSlots
    BY <1>2, Zenon DEF TwoTables, KvxLike, RamLike
  <1>5. ASSUME NEW q, NEW x, Stored(disk, q, x) PROVE Stored(r.kvx, q, x)
    <2>1. Stored(t.kvx, q, x) /\ In(t.kvx, q)
      BY <1>2, <1>4, <1>5, StoredIsIn, Zenon
    <2> QED  BY <1>3, <1>4, <2>1, KeptStored, Zenon
  <1>6. IsFiniteSet(UsedIn(r.ram)) /\ Cardinality(UsedIn(r.ram)) <= n
    <2>1. PICK i : UsedIn(r.ram) \subseteq UsedIn(t.ram) \cup {i}
      BY <1>3
    <2> DEFINE S == UsedIn(t.ram)
               U == S \cup {i}
    <2>2. IsFiniteSet(S) /\ Cardinality(S) \in Nat /\ Cardinality(S) <= n - 1
      BY <1>2, FS_CardinalityType
    <2>3. IsFiniteSet(U) /\ (Cardinality(U) = Cardinality(S) \/ Cardinality(U) = Cardinality(S) + 1)
      BY <2>2, FS_AddElement
    <2>4. UsedIn(r.ram) \subseteq U
      BY <2>1
    <2> HIDE DEF S, U
    <2>5. IsFiniteSet(UsedIn(r.ram)) /\ Cardinality(UsedIn(r.ram)) <= Cardinality(U)
      BY <2>3, <2>4, FS_Subset
    <2>6. Cardinality(UsedIn(r.ram)) \in Nat
      BY <2>5, FS_CardinalityType
    <2> QED  BY <1>1, <2>2, <2>3, <2>5, <2>6
  <1>7. ASSUME Len(Layout) <= Cardinality(RamSlots), NEW i \in 1 .. n
        PROVE  In(r.ram, Layout[i]) \/ In(r.kvx, Layout[i])
    <2>1. CASE i = n
      <3>1. Cardinality(UsedIn(t.ram)) \in Nat /\ Cardinality(RamSlots) \in Nat
        BY <1>2, VfsAssumption, FS_CardinalityType
      <3>2. Cardinality(UsedIn(t.ram)) < Cardinality(RamSlots)
        BY <1>1, <1>2, <1>7, <3>1
      <3>3. FreeIn(t.ram) # {}
        BY <1>2, <1>4, <3>2, SomeFree, Zenon
      <3> QED  BY <1>3, <2>1, <3>3, Zenon DEF p
    <2>2. CASE i # n
      <3>1. i \in 1 .. n - 1
        BY <1>1, <2>2
      <3>2. In(t.ram, Layout[i]) \/ In(t.kvx, Layout[i])
        BY <1>2, <1>7, <3>1, Zenon
      <3> QED  BY <1>3, <1>4, <3>2, KeptStored, Zenon
    <2> QED  BY <2>1, <2>2
  <1> QED  BY <1>3, <1>5, <1>6, <1>7, Zenon DEF MadeOk, r

LEMMA LaidIs ==
  ASSUME NEW disk, KvxLike(disk)
  PROVE  MadeOk(disk, Len(Layout))
  <1> DEFINE bad == {n \in 0 .. Len(Layout) : ~MadeOk(disk, n)}
  <1>0. Len(Layout) \in Nat
    BY MadeIs
  <1>1. bad \subseteq Nat
    OBVIOUS
  <1>2. ASSUME bad # {} PROVE FALSE
    <2>1. PICK n \in bad : \A j \in bad : n <= j
      BY <1>1, <1>2, LeastOf, Zenon
    <2>2. n # 0
      BY <2>1, MadeFirst
    <2>3. n \in 1 .. Len(Layout) /\ n - 1 \in 0 .. Len(Layout) /\ ~(n <= n - 1)
      BY <1>0, <2>2
    <2>4. MadeOk(disk, n - 1)
      BY <2>1, <2>3, Zenon
    <2>5. MadeOk(disk, n)
      BY <2>3, <2>4, MadeNext, Zenon
    <2> QED  BY <2>1, <2>5, Zenon
  <1>3. Len(Layout) \in 0 .. Len(Layout)
    BY <1>0
  <1> QED  BY <1>2, <1>3, Zenon

\* After fs_prepare_user_layout what the disk had is there, and so are the directories.
LEMMA PreparedIs ==
  ASSUME NEW disk, KvxLike(disk)
  PROVE  LET t == Prepared(disk) IN
           /\ TwoTables(t, DOMAIN disk)
           /\ \A q, x : Stored(disk, q, x) => Stored(t.kvx, q, x)
           /\ Len(Layout) <= Cardinality(RamSlots) =>
                \A p \in ToSet(Layout) : In(t.ram, p) \/ In(t.kvx, p)
  <1> DEFINE t == Laid(disk)
             w == KvxWrite(t.kvx, PasswdFile, PasswdText, 0)
             k == CHOOSE x \in w : TRUE
             r == Prepared(disk)
  <1>1. r = IF PasswdFile \in Paths /\ ~In(t.kvx, PasswdFile) /\ ~InToy(PasswdFile) /\ w # {}
            THEN [t EXCEPT !.kvx = k] ELSE t
    BY Zenon DEF Prepared
  <1>2. /\ TwoTables(t, DOMAIN disk)
        /\ \A q, x : Stored(disk, q, x) => Stored(t.kvx, q, x)
        /\ Len(Layout) <= Cardinality(RamSlots) =>
             \A i \in 1 .. Len(Layout) : In(t.ram, Layout[i]) \/ In(t.kvx, Layout[i])
    BY LaidIs, Zenon DEF MadeOk, Laid
  <1>3. \A p \in ToSet(Layout) : \E i \in 1 .. Len(Layout) : p = Layout[i]
    <2>1. Layout \in Seq(Paths)
      BY VfsAssumption, Zenon
    <2> QED  BY <2>1 DEF ToSet
  <1>4. Len(Layout) <= Cardinality(RamSlots) => \A p \in ToSet(Layout) : In(t.ram, p) \/ In(t.kvx, p)
    BY <1>2, <1>3, Zenon
  <1>5. w # {} => k \in w
    OBVIOUS
  <1> HIDE DEF t, k, r
  <1>6. CASE r = t
    BY <1>2, <1>4, <1>6, Zenon DEF r
  <1>7. CASE PasswdFile \in Paths /\ ~In(t.kvx, PasswdFile) /\ w # {} /\ r = [t EXCEPT !.kvx = k]
    <2>1. r = [ram |-> t.ram, kvx |-> k] /\ r.kvx = k /\ r.ram = t.ram
      BY <1>2, <1>7 DEF TwoTables
    <2>2. k \in KvxWrite(t.kvx, PasswdFile, PasswdText, 0)
      BY <1>5, <1>7, Zenon
    <2>3. PasswdFile \in SomePath /\ PasswdText \in VfsTexts /\ 0 \in Uids
      BY <1>7, WrittenAre, VfsAssumption, Zenon DEF SomePath
    <2>4. KvxLike(k) /\ DOMAIN k = DOMAIN t.kvx /\ In(k, PasswdFile) /\ \A q : q # PasswdFile => Kept(t.kvx, k, q)
      <3>1. KvxLike(t.kvx)
        BY <1>2, Zenon DEF TwoTables
      <3>2. \A n \in KvxWrite(t.kvx, PasswdFile, PasswdText, 0) :
               KvxLike(n) /\ DOMAIN n = DOMAIN t.kvx /\ In(n, PasswdFile) /\ \A q : q # PasswdFile => Kept(t.kvx, n, q)
        BY <2>3, <3>1, KvxWriteIs
      <3> QED  BY <2>2, <3>2, Zenon
    <2>5. TwoTables(r, DOMAIN disk)
      BY <1>2, <2>1, <2>4, Zenon DEF TwoTables
    <2>6. DOMAIN t.kvx \subseteq Nat
      BY <1>2, Zenon DEF TwoTables, KvxLike
    <2>7. ASSUME NEW q, In(t.kvx, q) PROVE Kept(t.kvx, k, q)
      BY <1>7, <2>4, <2>7, Zenon
    <2>8. ASSUME NEW q, NEW x, Stored(disk, q, x) PROVE Stored(k, q, x)
      <3>1. Stored(t.kvx, q, x) /\ In(t.kvx, q)
        BY <1>2, <2>6, <2>8, StoredIsIn, Zenon
      <3> QED  BY <2>6, <2>7, <3>1, KeptStored, Zenon
    <2>9. \A q : In(t.kvx, q) => In(k, q)
      BY <2>6, <2>7, KeptStored, Zenon
    <2> QED  BY <1>4, <2>1, <2>5, <2>8, <2>9, Zenon DEF r
  <1> QED  BY <1>1, <1>6, <1>7, Zenon

-----------------------------------------------------------------------------
(* A command.                                                              *)

LEMMA TablesAre ==
  ASSUME VfsTypes
  PROVE  /\ RamLike(ram) /\ DOMAIN ram = RamSlots
         /\ KvxLike(kvx) /\ DOMAIN kvx = EntriesOf(root)
         /\ DOMAIN kvx # {} => root \in Roots
         /\ DOMAIN kvx \subseteq Nat /\ DOMAIN ram \subseteq Nat
         /\ TwoTables([ram |-> ram, kvx |-> kvx], EntriesOf(root))
  <1>1. ram \in [RamSlots -> Node] /\ kvx \in [EntriesOf(root) -> Entry] /\ root \in Roots \cup {NoDisk}
    BY Zenon DEF VfsTypes
  <1>2. RamSlots \subseteq Nat /\ EntriesOf(root) \subseteq Nat
    BY VfsAssumption, Zenon DEF EntriesOf
  <1>3. RamLike(ram) /\ DOMAIN ram = RamSlots /\ DOMAIN ram \subseteq Nat
    BY <1>1, <1>2, Zenon DEF RamLike
  <1>4. KvxLike(kvx) /\ DOMAIN kvx = EntriesOf(root) /\ DOMAIN kvx \subseteq Nat
    BY <1>1, <1>2, Zenon DEF KvxLike
  <1>5. DOMAIN kvx # {} => root \in Roots
    BY <1>1, <1>4, Zenon DEF EntriesOf
  <1>6. TwoTables([ram |-> ram, kvx |-> kvx], EntriesOf(root))
    <2> DEFINE t == [ram |-> ram, kvx |-> kvx]
    <2>1. t.ram = ram /\ t.kvx = kvx
      OBVIOUS
    <2> QED  BY <1>3, <1>4, <2>1, Zenon DEF TwoTables
  <1> QED  BY <1>3, <1>4, <1>5, <1>6, Zenon

Saves == root \in Roots /\ saved' = [saved EXCEPT ![root] = kvx']

\* A command that writes, moves or removes no path but those of S: the tables stay tables,
\* a path not in S has what it had, one in S is reported stored only if it is.
Done(S) ==
  /\ RamLike(ram') /\ DOMAIN ram' = DOMAIN ram
  /\ KvxLike(kvx') /\ DOMAIN kvx' = DOMAIN kvx
  /\ saved' = saved \/ Saves
  /\ uid' \in Uids /\ root' = root /\ toy' = toy
  /\ said' \in [Claims -> VfsTexts]
  /\ \A q : q \notin S => /\ \A x : Stored(ram, q, x) => Stored(ram', q, x)
                          /\ \A x : Stored(kvx, q, x) => Stored(kvx', q, x)
  /\ \A k \in Claims : k \notin {Key(p) : p \in S} => said'[k] = said[k]
  /\ \A p \in S : Key(p) \in Claims /\ said'[Key(p)] # NoText =>
       IF Persist(p) THEN Saves /\ Stored(kvx', p, said'[Key(p)]) ELSE Stored(ram', p, said'[Key(p)])

LEMMA ClaimsAre ==
  /\ \A p \in OneBackend : p \in Paths
  /\ \A p \in OneBackend : ~Persist(p) => <<p, "memory">> \in Claims
  /\ \A p \in OneBackend, d \in Roots : Persist(p) => <<p, d>> \in Claims
  /\ \A k \in Claims : \E p \in OneBackend : \E d : k = <<p, d>> /\ IF Persist(p) THEN d \in Roots ELSE d = "memory"
  BY DEF Claims, OneBackend

LEMMA KeysAre ==
  /\ \A p : Key(p) = <<p, IF Persist(p) THEN root ELSE "memory">>
  /\ \A p, q : Key(p) = Key(q) => p = q
  /\ \A p, q, d : Persist(p) /\ d # root => <<p, d>> # Key(q)
  BY DEF Key

LEMMA DoneTypes ==
  ASSUME VfsTypes, NEW S, Done(S)
  PROVE  VfsTypes'
  <1>1. ram' \in [RamSlots -> Node] /\ kvx' \in [EntriesOf(root) -> Entry]
    BY TablesAre, Zenon DEF Done, RamLike, KvxLike
  <1>2. saved' \in [Roots -> [KvxSlots -> Entry]]
    <2>1. CASE saved' = saved
      BY <2>1, Zenon DEF VfsTypes
    <2>2. CASE Saves
      <3>1. root # NoDisk
        BY <2>2, Zenon DEF Saves, Roots
      <3>2. kvx' \in [KvxSlots -> Entry]
        BY <1>1, <3>1, Zenon DEF EntriesOf
      <3>3. saved \in [Roots -> [KvxSlots -> Entry]]
        BY Zenon DEF VfsTypes
      <3> QED  BY <2>2, <3>2, <3>3 DEF Saves
    <2> QED  BY <2>1, <2>2, Zenon DEF Done
  <1>3. /\ root' = root /\ toy' = toy /\ uid' \in Uids /\ said' \in [Claims -> VfsTexts]
        /\ root \in Roots \cup {NoDisk} /\ toy \in Images
    BY Zenon DEF Done, VfsTypes
  <1> QED  BY <1>1, <1>2, <1>3, Zenon DEF VfsTypes

LEMMA DoneStored ==
  ASSUME VfsTypes, SaidIsStored, NEW S, Done(S)
  PROVE  SaidIsStored'
  <1>0. /\ saved' = saved \/ Saves
        /\ root' = root /\ saved \in [Roots -> [KvxSlots -> Entry]]
        /\ \A q : q \notin S => /\ \A x : Stored(ram, q, x) => Stored(ram', q, x)
                                /\ \A x : Stored(kvx, q, x) => Stored(kvx', q, x)
        /\ \A k \in Claims : (\A p \in S : k # Key(p)) => said'[k] = said[k]
        /\ \A p \in S : Key(p) \in Claims /\ said'[Key(p)] # NoText =>
             IF Persist(p) THEN Saves /\ Stored(kvx', p, said'[Key(p)]) ELSE Stored(ram', p, said'[Key(p)])
    BY Zenon DEF Done, VfsTypes
  <1>1. Saves => saved'[root] = kvx' /\ \A d \in Roots : d # root => saved'[d] = saved[d]
    BY <1>0 DEF Saves
  <1>2. ASSUME NEW p \in OneBackend, ~Persist(p), said'[<<p, "memory">>] # NoText
        PROVE  Stored(ram', p, said'[<<p, "memory">>])
    <2>1. Key(p) = <<p, "memory">> /\ Key(p) \in Claims
      BY <1>2, ClaimsAre, KeysAre, Zenon
    <2>2. CASE p \in S
      BY <1>0, <1>2, <2>1, <2>2, Zenon
    <2>3. CASE p \notin S
      <3>1. \A q \in S : Key(p) # Key(q)
        BY <2>3, KeysAre, Zenon
      <3>2. said'[Key(p)] = said[Key(p)]
        BY <1>0, <2>1, <3>1, Zenon
      <3>3. Stored(ram, p, said[Key(p)])
        BY <1>2, <2>1, <3>2, Zenon DEF SaidIsStored
      <3> QED  BY <1>0, <2>1, <2>3, <3>2, <3>3, Zenon
    <2> QED  BY <2>2, <2>3
  <1>3. ASSUME NEW p \in OneBackend, NEW d \in Roots, Persist(p), said'[<<p, d>>] # NoText
        PROVE  Stored(saved'[d], p, said'[<<p, d>>]) /\ (d = root => Stored(kvx', p, said'[<<p, d>>]))
    <2>0. <<p, d>> \in Claims
      BY <1>3, ClaimsAre, Zenon
    <2>1. CASE d # root
      <3>1. \A q \in S : <<p, d>> # Key(q)
        BY <1>3, <2>1, KeysAre, Zenon
      <3>2. said'[<<p, d>>] = said[<<p, d>>]
        BY <1>0, <2>0, <3>1, Zenon
      <3>3. saved'[d] = saved[d]
        BY <1>0, <1>1, <2>1, Zenon
      <3>4. Stored(saved[d], p, said[<<p, d>>])
        BY <1>3, <3>2, Zenon DEF SaidIsStored
      <3> QED  BY <2>1, <3>2, <3>3, <3>4, Zenon
    <2>2. CASE d = root /\ p \in S
      <3>1. Key(p) = <<p, d>>
        BY <1>3, <2>2, KeysAre, Zenon
      <3>2. Saves /\ Stored(kvx', p, said'[<<p, d>>])
        BY <1>0, <1>3, <2>0, <2>2, <3>1, Zenon
      <3> QED  BY <1>1, <2>2, <3>2, Zenon
    <2>3. CASE d = root /\ p \notin S
      <3>1. Key(p) = <<p, d>>
        BY <1>3, <2>3, KeysAre, Zenon
      <3>2. \A q \in S : Key(p) # Key(q)
        BY <2>3, KeysAre, Zenon
      <3>3. said'[<<p, d>>] = said[<<p, d>>]
        BY <1>0, <2>0, <3>1, <3>2, Zenon
      <3>4. Stored(saved[d], p, said[<<p, d>>]) /\ Stored(kvx, p, said[<<p, d>>])
        BY <1>3, <2>3, <3>3, Zenon DEF SaidIsStored
      <3>5. Stored(kvx', p, said'[<<p, d>>])
        BY <1>0, <2>3, <3>3, <3>4, Zenon
      <3>6. saved'[d] = saved[d] \/ saved'[d] = kvx'
        BY <1>0, <1>1, <2>3, Zenon
      <3> QED  BY <3>3, <3>4, <3>5, <3>6, Zenon
    <2> QED  BY <2>1, <2>2, <2>3
  <1>4. OneBackend' = OneBackend /\ root' = root
    BY <1>0, Zenon DEF OneBackend
  <1>5. SaidIsStored' <=> \A p \in OneBackend :
          /\ ~Persist(p) /\ said'[<<p, "memory">>] # NoText => Stored(ram', p, said'[<<p, "memory">>])
          /\ \A d \in Roots : Persist(p) /\ said'[<<p, d>>] # NoText =>
               /\ Stored(saved'[d], p, said'[<<p, d>>])
               /\ d = root' => Stored(kvx', p, said'[<<p, d>>])
    BY DEF SaidIsStored
  <1> QED  BY <1>2, <1>3, <1>4, <1>5, Zenon

-----------------------------------------------------------------------------
(* Each command is one.                                                    *)

\* Nothing the other tables hold is lost when a path is not among those changed.
LEMMA KeptAll ==
  ASSUME VfsTypes, NEW n, NEW S
  PROVE  /\ (\A q : q \notin S => Kept(ram, n, q)) =>
              \A q : q \notin S => \A x : Stored(ram, q, x) => Stored(n, q, x)
         /\ (\A q : q \notin S => Kept(kvx, n, q)) =>
              \A q : q \notin S => \A x : Stored(kvx, q, x) => Stored(n, q, x)
  BY TablesAre, KeptStored, Zenon

LEMMA SaidTyped ==
  ASSUME VfsTypes, NEW p
  PROVE  /\ \A t \in VfsTexts : Claim(p, t) =>
              /\ said' \in [Claims -> VfsTexts]
              /\ Key(p) \in Claims => said'[Key(p)] = t
              /\ \A k \in Claims : k # Key(p) => said'[k] = said[k]
         /\ \A P : Disclaim(P) =>
              /\ said' \in [Claims -> VfsTexts]
              /\ \A q \in P : Key(q) \in Claims => said'[Key(q)] = NoText
              /\ \A k \in Claims : k \notin {Key(q) : q \in P} => said'[k] = said[k]
  <1>1. said \in [Claims -> VfsTexts] /\ NoText \in VfsTexts
    BY WrittenAre, Zenon DEF VfsTypes
  <1>2. ASSUME NEW t \in VfsTexts, Claim(p, t)
        PROVE  /\ said' \in [Claims -> VfsTexts]
               /\ Key(p) \in Claims => said'[Key(p)] = t
               /\ \A k \in Claims : k # Key(p) => said'[k] = said[k]
    <2>1. said' = [k \in Claims |-> IF k = Key(p) THEN t ELSE said[k]]
      BY <1>2, Zenon DEF Claim
    <2> QED  BY <1>1, <2>1
  <1>3. ASSUME NEW P, Disclaim(P)
        PROVE  /\ said' \in [Claims -> VfsTexts]
               /\ \A q \in P : Key(q) \in Claims => said'[Key(q)] = NoText
               /\ \A k \in Claims : k \notin {Key(q) : q \in P} => said'[k] = said[k]
    <2>1. said' = [k \in Claims |-> IF k \in {Key(q) : q \in P} THEN NoText ELSE said[k]]
      BY <1>3, Zenon DEF Disclaim
    <2> QED  BY <1>1, <2>1
  <1> QED  BY <1>2, <1>3, Zenon

\* A KVXFS table with an entry more or an entry changed, and the table saved.
LEMMA SavesIs ==
  ASSUME VfsTypes, Save, DOMAIN kvx # {}
  PROVE  Saves
  BY TablesAre, Zenon DEF Save, Saves

LEMMA DoneWritten ==
  ASSUME VfsTypes, NEW p \in SomePath, NEW t \in VfsTexts, NEW u \in Uids,
         kvx' \in KvxWrite(kvx, p, t, u), Save, UNCHANGED <<ram, root, toy, uid>>,
         \/ Persist(p) /\ Claim(p, t)
         \/ Disclaim({p})
  PROVE  Done({p})
  <1>1. KvxLike(kvx') /\ DOMAIN kvx' = DOMAIN kvx /\ Stored(kvx', p, t) /\ In(kvx', p)
        /\ \A q : q # p => Kept(kvx, kvx', q)
    <2>1. KvxLike(kvx)
      BY TablesAre
    <2>2. \A n \in KvxWrite(kvx, p, t, u) :
            /\ KvxLike(n) /\ DOMAIN n = DOMAIN kvx /\ Stored(n, p, t) /\ In(n, p)
            /\ \A q : q # p => Kept(kvx, n, q)
      BY <2>1, KvxWriteIs
    <2> QED  BY <2>2, Zenon
  <1>2. Saves
    <2>1. DOMAIN kvx # {}
      BY <1>1, Zenon DEF In
    <2> QED  BY <2>1, SavesIs
  <1>3. RamLike(ram) /\ ram' = ram /\ root' = root /\ toy' = toy /\ uid' \in Uids
    BY TablesAre, Zenon DEF VfsTypes
  <1>4. \A q : q \notin {p} => \A x : Stored(kvx, q, x) => Stored(kvx', q, x)
    BY <1>1, KeptAll, Zenon
  <1>5. /\ said' \in [Claims -> VfsTexts]
        /\ \A k \in Claims : k \notin {Key(q) : q \in {p}} => said'[k] = said[k]
        /\ Key(p) \in Claims /\ said'[Key(p)] # NoText => Persist(p) /\ Stored(kvx', p, said'[Key(p)])
    <2>1. CASE Persist(p) /\ Claim(p, t)
      BY <1>1, <2>1, SaidTyped, Zenon
    <2>2. CASE Disclaim({p})
      BY <2>2, SaidTyped, Zenon
    <2> QED  BY <2>1, <2>2
  <1> QED  BY <1>1, <1>2, <1>3, <1>4, <1>5, Zenon DEF Done

LEMMA DoneInMemory ==
  ASSUME VfsTypes, NEW p \in SomePath, NEW t \in VfsTexts,
         ram' \in RamWrite(ram, p, t), UNCHANGED <<kvx, saved, root, toy, uid>>,
         \/ ~Persist(p) /\ Claim(p, t)
         \/ Disclaim({p})
  PROVE  Done({p})
  <1>1. RamLike(ram') /\ DOMAIN ram' = DOMAIN ram /\ (~Persist(p) => Stored(ram', p, t))
        /\ \A q : q # p => Kept(ram, ram', q)
    BY RamWriteIs, TablesAre, Zenon
  <1>3. KvxLike(kvx) /\ kvx' = kvx /\ saved' = saved /\ root' = root /\ toy' = toy /\ uid' \in Uids
    BY TablesAre, Zenon DEF VfsTypes
  <1>4. \A q : q \notin {p} => \A x : Stored(ram, q, x) => Stored(ram', q, x)
    BY <1>1, KeptAll, Zenon
  <1>5. /\ said' \in [Claims -> VfsTexts]
        /\ \A k \in Claims : k \notin {Key(q) : q \in {p}} => said'[k] = said[k]
        /\ Key(p) \in Claims /\ said'[Key(p)] # NoText => ~Persist(p) /\ Stored(ram', p, said'[Key(p)])
    <2>1. CASE ~Persist(p) /\ Claim(p, t)
      BY <1>1, <2>1, SaidTyped, Zenon
    <2>2. CASE Disclaim({p})
      BY <2>2, SaidTyped, Zenon
    <2> QED  BY <2>1, <2>2
  <1> QED  BY <1>1, <1>3, <1>4, <1>5, Zenon DEF Done

\* Nothing is written; what the paths of P hold may no longer be known.
LEMMA DoneNothing ==
  ASSUME VfsTypes, UNCHANGED <<ram, kvx, saved, root, toy>>, uid' \in Uids, NEW P,
         (said' = said /\ P = {}) \/ Disclaim(P)
  PROVE  Done(P)
  <1>1. RamLike(ram) /\ KvxLike(kvx) /\ said \in [Claims -> VfsTexts]
    BY TablesAre, Zenon DEF VfsTypes
  <1>2. /\ said' \in [Claims -> VfsTexts]
        /\ \A k \in Claims : k \notin {Key(q) : q \in P} => said'[k] = said[k]
        /\ \A q \in P : Key(q) \in Claims => said'[Key(q)] = NoText
    BY <1>1, SaidTyped, Zenon
  <1> QED  BY <1>1, <1>2, Zenon DEF Done

LEMMA PathOk == Paths \subseteq SomePath /\ PasswdFile # Root
  BY DEF SomePath, PasswdFile, Root

LEMMA DoneStore ==
  ASSUME VfsTypes, NEW p \in Paths, NEW t \in VfsTexts, Store(p, t)
  PROVE  Done({p})
  <1>1. p \in SomePath /\ uid \in Uids /\ uid' = uid /\ <<>> \in VfsTexts
    BY PathOk, WrittenAre, Zenon DEF VfsTypes, Store
  <1>2. UNCHANGED <<root, toy, uid>>
    BY Zenon DEF Store, Same
  <1>3. CASE WriteAllSucceeds(p, t) /\ Claim(p, t)
    <2>1. CASE Persist(p)
      <3>1. kvx' \in KvxWrite(kvx, p, t, uid) /\ Save /\ ram' = ram
        BY <1>3, <2>1, Zenon DEF WriteAllSucceeds
      <3> QED  BY <1>1, <1>2, <1>3, <2>1, <3>1, DoneWritten, Zenon
    <2>2. CASE ~Persist(p)
      <3>1. ram' \in RamWrite(ram, p, t) /\ UNCHANGED <<kvx, saved>>
        BY <1>3, <2>2, Zenon DEF WriteAllSucceeds
      <3> QED  BY <1>1, <1>2, <1>3, <2>2, <3>1, DoneInMemory, Zenon
    <2> QED  BY <2>1, <2>2
  <1>4. CASE WriteAllFails(p) /\ Disclaim({p})
    <2>1. CASE UNCHANGED <<ram, kvx, saved>>
      BY <1>1, <1>2, <1>4, <2>1, DoneNothing, Zenon
    <2>2. CASE ram' \in RamWrite(ram, p, <<>>) /\ UNCHANGED <<kvx, saved>>
      BY <1>1, <1>2, <1>4, <2>2, DoneInMemory, Zenon
    <2> QED  BY <1>4, <2>1, <2>2, Zenon DEF WriteAllFails
  <1> QED  BY <1>3, <1>4, Zenon DEF Store

\* What is read is a text.
LEMMA TextRead ==
  ASSUME VfsTypes, NEW p, NEW u
  PROVE  ReadAll(p, u) \in VfsTexts
  <1>1. NoText \in VfsTexts /\ ToyText \in VfsTexts
    BY WrittenAre, Zenon
  <1>2. KvxReads(p, u) => KvxStat(p).text \in VfsTexts
    <2>1. ASSUME NEW i \in Find(kvx, p) PROVE KvxStat(p).text \in VfsTexts
      <3>1. KvxStat(p) = kvx[i]
        <4>1. \A j \in Find(kvx, p) : j = i
          BY TablesAre, FindIs, Zenon
        <4> QED  BY <4>1, Zenon DEF KvxStat
      <3>2. kvx[i] \in Entry
        BY TablesAre, FindIs, Zenon DEF KvxLike
      <3> QED  BY <3>1, <3>2 DEF Entry
    <2> QED  BY <2>1, Zenon DEF KvxReads
  <1>3. OpenedFrom(p) = "ram" => RamText(p) \in VfsTexts
    <2>1. ASSUME NEW i \in Find(ram, p) PROVE RamText(p) \in VfsTexts
      <3>1. RamText(p) = ram[i].text
        <4>1. \A j \in Find(ram, p) : j = i
          BY TablesAre, FindIs, Zenon
        <4> QED  BY <4>1, Zenon DEF RamText
      <3>2. ram[i] \in Node
        BY TablesAre, FindIs, Zenon DEF RamLike
      <3> QED  BY <3>1, <3>2 DEF Node
    <2>2. OpenedFrom(p) = "ram" => In(ram, p)
      BY DEF OpenedFrom, None
    <2> QED  BY <2>1, <2>2, TablesAre, FindIs, Zenon
  <1> HIDE DEF NoText
  <1>4. ReadAll(p, u) \in {NoText, ToyText} \/ (KvxReads(p, u) /\ ReadAll(p, u) = KvxStat(p).text)
        \/ (OpenedFrom(p) = "ram" /\ ReadAll(p, u) = RamText(p))
    BY DEF ReadAll
  <1> QED  BY <1>1, <1>2, <1>3, <1>4

LEMMA TextAppended ==
  ASSUME VfsTypes, NEW p, NEW x \in Pieces
  PROVE  Cut(OldText(p) \o <<x>>) \in VfsTexts /\ <<x>> \in VfsTexts
  <1>1. <<x>> \in VfsTexts
    BY WrittenAre, Zenon
  <1>2. OldText(p) \in VfsTexts
    <2>1. <<>> \in VfsTexts
      BY WrittenAre, Zenon
    <2> QED  BY <2>1, TextRead, Zenon DEF OldText
  <1>3. ASSUME NEW t \in Seq(Words) PROVE Cut(t) \in Seq(Words)
    <2>1. PICK n \in Nat : n = (IF Len(t) < MaxText THEN Len(t) ELSE MaxText) /\ n <= Len(t)
      BY VfsAssumption
    <2>2. SubSeq(t, 1, n) \in Seq(Words)
      BY <2>1
    <2> QED  BY <2>1, <2>2, Zenon DEF Cut
  <1>4. OldText(p) \o <<x>> \in Seq(Words)
    BY <1>1, <1>2 DEF VfsTexts
  <1> QED  BY <1>1, <1>3, <1>4, Zenon DEF VfsTexts

LEMMA DoneEcho ==
  ASSUME VfsTypes, NEW p \in Paths, NEW t \in VfsTexts, Echo(p, t)
  PROVE  Done({p})
  <1>1. p \in SomePath /\ uid \in Uids /\ uid' = uid /\ UNCHANGED <<ram, root, toy, uid>>
    BY PathOk, Zenon DEF VfsTypes, Echo, Same
  <1>2. CASE kvx' \in KvxWrite(kvx, p, t, uid) /\ Save /\ (IF Persist(p) THEN Claim(p, t) ELSE Disclaim({p}))
    BY <1>1, <1>2, DoneWritten, Zenon
  <1>3. CASE Disclaim({p}) /\ UNCHANGED <<kvx, saved>>
    BY <1>1, <1>3, DoneNothing, Zenon
  <1> QED  BY <1>2, <1>3, Zenon DEF Echo

LEMMA DoneMkdir ==
  ASSUME VfsTypes, NEW p \in Paths, Mkdir(p)
  PROVE  Done({})
  <1> DEFINE now == [ram |-> ram, kvx |-> kvx]
  <1>1. PICK t : t = MkdirIn(now, p)
    OBVIOUS
  <1>2. /\ ram' = t.ram /\ kvx' = t.kvx /\ (IF t.kvx = kvx THEN UNCHANGED saved ELSE Save)
        /\ UNCHANGED <<uid, said, root, toy>>
    BY <1>1, Zenon DEF Mkdir, Same
  <1>3. now.ram = ram /\ now.kvx = kvx /\ TwoTables(now, DOMAIN kvx) /\ p \in SomePath
    <2>1. now.ram = ram /\ now.kvx = kvx
      OBVIOUS
    <2> QED  BY <2>1, TablesAre, PathOk, Zenon
  <1> HIDE DEF now
  <1>4. /\ TwoTables(t, DOMAIN kvx)
        /\ t.kvx = now.kvx \/ t.kvx \in KvxMkdir(now.kvx, p)
        /\ \A q : In(now.kvx, q) => Kept(now.kvx, t.kvx, q)
        /\ \A q : In(now.ram, q) => Kept(now.ram, t.ram, q)
    BY <1>1, <1>3, MkdirInIs, Zenon
  <1>5. RamLike(ram') /\ DOMAIN ram' = DOMAIN ram /\ KvxLike(kvx') /\ DOMAIN kvx' = DOMAIN kvx
    BY <1>2, <1>4, TablesAre, Zenon DEF TwoTables
  <1>6. saved' = saved \/ Saves
    <2>1. CASE t.kvx = kvx
      BY <1>2, <2>1, Zenon
    <2>2. CASE t.kvx # kvx
      <3>1. t.kvx \in KvxMkdir(kvx, p)
        BY <1>3, <1>4, <2>2, Zenon
      <3>2. In(kvx', p)
        BY <1>2, <1>3, <3>1, KvxMkdirIs, TablesAre, Zenon
      <3>3. DOMAIN kvx # {}
        BY <1>5, <3>2, Zenon DEF In
      <3> QED  BY <1>2, <2>2, <3>3, SavesIs, Zenon
    <2> QED  BY <2>1, <2>2
  <1>7. ASSUME NEW q, NEW x
        PROVE  /\ Stored(ram, q, x) => Stored(ram', q, x)
               /\ Stored(kvx, q, x) => Stored(kvx', q, x)
    <2>1. Stored(ram, q, x) => In(ram, q)
      BY TablesAre, StoredIsIn, Zenon
    <2>2. Stored(kvx, q, x) => In(kvx, q)
      BY TablesAre, StoredIsIn, Zenon
    <2> QED  BY <1>2, <1>3, <1>4, <2>1, <2>2, TablesAre, KeptStored, Zenon
  <1>8. said' \in [Claims -> VfsTexts] /\ uid' \in Uids
    BY <1>2, Zenon DEF VfsTypes
  <1> QED  BY <1>2, <1>5, <1>6, <1>7, <1>8, Zenon DEF Done

LEMMA DoneRemove ==
  ASSUME VfsTypes, NEW p \in Paths, VfsRemove(p)
  PROVE  Done({p}) \/ Done({})
  <1>1. UNCHANGED <<ram, uid, root, toy>> /\ uid' \in Uids
    BY Zenon DEF VfsRemove, Same, VfsTypes
  <1>2. CASE UNCHANGED <<kvx, saved, said>>
    BY <1>1, <1>2, DoneNothing, Zenon
  <1>3. CASE (\E i \in Find(kvx, p) : kvx' = [kvx EXCEPT ![i] = FreeEnt]) /\ Save /\ Disclaim({p})
    <2>1. PICK i \in Find(kvx, p) : kvx' = [kvx EXCEPT ![i] = FreeEnt]
      BY <1>3
    <2>2. i \in DOMAIN kvx /\ Of(kvx, i, p) /\ KvxLike(kvx) /\ FreeEnt \in Entry /\ ~FreeEnt.used
      <3>1. ~FreeEnt.used
        BY DEF FreeEnt
      <3> QED  BY <2>1, <3>1, TablesAre, FindIs, FreeTyped, Zenon
    <2>3. KvxLike(kvx') /\ DOMAIN kvx' = DOMAIN kvx
      BY <2>1, <2>2, KvxPut
    <2>4. \A q : q # p => Kept(kvx, kvx', q)
      BY <2>1, <2>2, OtherKept, Zenon DEF Of
    <2>5. \A q : q \notin {p} => \A x : Stored(kvx, q, x) => Stored(kvx', q, x)
      BY <2>4, KeptAll, Zenon
    <2>6. Saves
      BY <1>3, <2>2, SavesIs, Zenon
    <2>7. /\ said' \in [Claims -> VfsTexts]
          /\ \A k \in Claims : k \notin {Key(q) : q \in {p}} => said'[k] = said[k]
          /\ Key(p) \in Claims => said'[Key(p)] = NoText
      BY <1>3, SaidTyped, Zenon
    <2>8. RamLike(ram)
      BY TablesAre
    <2>9. Done({p})
      BY <1>1, <2>3, <2>5, <2>6, <2>7, <2>8, Zenon DEF Done
    <2> QED  BY <2>9
  <1> QED  BY <1>2, <1>3, Zenon DEF VfsRemove

\* Paths that are moved: they are not reported stored afterwards.
LEMMA DoneMoved ==
  ASSUME NEW S, UNCHANGED <<saved, root, toy>>, uid' \in Uids,
         RamLike(ram'), DOMAIN ram' = DOMAIN ram, KvxLike(kvx'), DOMAIN kvx' = DOMAIN kvx,
         \A s : s \notin S => \A x : Stored(ram, s, x) => Stored(ram', s, x),
         \A s : s \notin S => \A x : Stored(kvx, s, x) => Stored(kvx', s, x),
         said' \in [Claims -> VfsTexts],
         \A k \in Claims : k \notin {Key(s) : s \in S} => said'[k] = said[k],
         \A s \in S : Key(s) \in Claims => said'[Key(s)] = NoText
  PROVE  Done(S)
  BY Zenon DEF Done

LEMMA DoneRename ==
  ASSUME VfsTypes, NEW p \in Paths, NEW q \in Paths, VfsRename(p, q)
  PROVE  \E S : Done(S)
  <1>1. UNCHANGED <<saved, uid, root, toy>> /\ uid' \in Uids
    BY Zenon DEF VfsRename, Same, VfsTypes
  <1>2. CASE (\E i \in Find(ram, p) : ram' = [ram EXCEPT ![i].path = q]) /\ Disclaim({p, q}) /\ UNCHANGED kvx
    <2>1. PICK i \in Find(ram, p) : ram' = [ram EXCEPT ![i].path = q]
      BY <1>2
    <2>2. i \in DOMAIN ram /\ Of(ram, i, p) /\ RamLike(ram)
      BY TablesAre, FindIs, Zenon
    <2>3. PICK r \in Node : r.path = q /\ r.used = ram[i].used /\ ram' = [ram EXCEPT ![i] = r]
      <3>1. ram[i] \in Node /\ q \in SomePath
        BY <2>2, PathOk, Zenon DEF RamLike
      <3>2. LET r == [ram[i] EXCEPT !.path = q] IN r \in Node /\ r.path = q /\ r.used = ram[i].used
        BY <3>1 DEF Node
      <3>3. ram' = [ram EXCEPT ![i] = [ram[i] EXCEPT !.path = q]]
        BY <2>1, <2>2, OneSlotChanges, Zenon
      <3> QED  BY <3>2, <3>3, Zenon
    <2>4. RamLike(ram') /\ DOMAIN ram' = DOMAIN ram
      BY <2>2, <2>3, RamPut
    <2>5. \A s : s \notin {p, q} => Kept(ram, ram', s)
      BY <2>2, <2>3, OtherKept, Zenon DEF Of
    <2>6. \A s : s \notin {p, q} => \A x : Stored(ram, s, x) => Stored(ram', s, x)
      BY <2>5, KeptAll, Zenon
    <2>7. /\ said' \in [Claims -> VfsTexts]
          /\ \A k \in Claims : k \notin {Key(s) : s \in {p, q}} => said'[k] = said[k]
          /\ \A s \in {p, q} : Key(s) \in Claims => said'[Key(s)] = NoText
      BY <1>2, SaidTyped, Zenon
    <2>8. KvxLike(kvx)
      BY TablesAre
    <2>9. \A s : s \notin {p, q} => \A x : Stored(kvx, s, x) => Stored(kvx', s, x)
      BY <1>2, Zenon
    <2>10. KvxLike(kvx') /\ DOMAIN kvx' = DOMAIN kvx
      BY <1>2, <2>8, Zenon
    <2>11. PICK S : S = {p, q}
      OBVIOUS
    <2>12. /\ \A s : s \notin S => \A x : Stored(ram, s, x) => Stored(ram', s, x)
           /\ \A s : s \notin S => \A x : Stored(kvx, s, x) => Stored(kvx', s, x)
           /\ \A k \in Claims : k \notin {Key(s) : s \in S} => said'[k] = said[k]
           /\ \A s \in S : Key(s) \in Claims => said'[Key(s)] = NoText
      BY <2>6, <2>7, <2>9, <2>11
    <2>13. said' \in [Claims -> VfsTexts]
      BY <2>7
    <2> QED  BY <1>1, <2>4, <2>10, <2>12, <2>13, DoneMoved, Zenon
  <1>3. CASE \E r \in Paths : (\E i \in Find(kvx, p) : kvx' = [kvx EXCEPT ![i].path = r]) /\ Disclaim({p, r}) /\ UNCHANGED ram
    <2>0. PICK d \in Paths : (\E i \in Find(kvx, p) : kvx' = [kvx EXCEPT ![i].path = d]) /\ Disclaim({p, d}) /\ UNCHANGED ram
      BY <1>3
    <2>1. PICK i \in Find(kvx, p) : kvx' = [kvx EXCEPT ![i].path = d]
      BY <2>0
    <2>2. i \in DOMAIN kvx /\ Of(kvx, i, p) /\ KvxLike(kvx)
      BY TablesAre, FindIs, Zenon
    <2>3. PICK r \in Entry : r.path = d /\ r.used = kvx[i].used /\ kvx' = [kvx EXCEPT ![i] = r]
      <3>1. kvx[i] \in Entry /\ d \in SomePath
        BY <2>2, PathOk, Zenon DEF KvxLike
      <3>2. LET r == [kvx[i] EXCEPT !.path = d] IN r \in Entry /\ r.path = d /\ r.used = kvx[i].used
        BY <3>1 DEF Entry
      <3>3. kvx' = [kvx EXCEPT ![i] = [kvx[i] EXCEPT !.path = d]]
        BY <2>1, <2>2, OneSlotChanges, Zenon
      <3> QED  BY <3>2, <3>3, Zenon
    <2>4. KvxLike(kvx') /\ DOMAIN kvx' = DOMAIN kvx
      BY <2>2, <2>3, KvxPut
    <2>5. \A s : s \notin {p, d} => Kept(kvx, kvx', s)
      BY <2>2, <2>3, OtherKept, Zenon DEF Of
    <2>6. \A s : s \notin {p, d} => \A x : Stored(kvx, s, x) => Stored(kvx', s, x)
      BY <2>5, KeptAll, Zenon
    <2>7. /\ said' \in [Claims -> VfsTexts]
          /\ \A k \in Claims : k \notin {Key(s) : s \in {p, d}} => said'[k] = said[k]
          /\ \A s \in {p, d} : Key(s) \in Claims => said'[Key(s)] = NoText
      BY <2>0, SaidTyped, Zenon
    <2>8. RamLike(ram) /\ ram' = ram
      BY <2>0, TablesAre
    <2>9. \A s : s \notin {p, d} => \A x : Stored(ram, s, x) => Stored(ram', s, x)
      BY <2>8, Zenon
    <2>10. RamLike(ram') /\ DOMAIN ram' = DOMAIN ram
      BY <2>8, Zenon
    <2>11. PICK S : S = {p, d}
      OBVIOUS
    <2>12. /\ \A s : s \notin S => \A x : Stored(ram, s, x) => Stored(ram', s, x)
           /\ \A s : s \notin S => \A x : Stored(kvx, s, x) => Stored(kvx', s, x)
           /\ \A k \in Claims : k \notin {Key(s) : s \in S} => said'[k] = said[k]
           /\ \A s \in S : Key(s) \in Claims => said'[Key(s)] = NoText
      BY <2>6, <2>7, <2>9, <2>11
    <2>13. said' \in [Claims -> VfsTexts]
      BY <2>7
    <2> QED  BY <1>1, <2>4, <2>10, <2>12, <2>13, DoneMoved, Zenon
  <1>4. CASE UNCHANGED <<ram, kvx, said>>
    BY <1>1, <1>4, DoneNothing, Zenon
  <1> QED  BY <1>2, <1>3, <1>4, Zenon DEF VfsRename

LEMMA DoneChmod ==
  ASSUME VfsTypes, NEW p \in Paths, NEW others \in BOOLEAN, Chmod(p, others)
  PROVE  Done({})
  <1>1. UNCHANGED <<ram, uid, said, root, toy>> /\ uid' \in Uids /\ Save /\ said \in [Claims -> VfsTexts]
    BY Zenon DEF Chmod, Same, VfsTypes
  <1>2. PICK i \in Find(kvx, p) : kvx' = [kvx EXCEPT ![i].others = others]
    BY Zenon DEF Chmod
  <1>3. i \in DOMAIN kvx /\ KvxLike(kvx) /\ RamLike(ram)
    BY TablesAre, FindIs, Zenon
  <1>4. PICK r \in Entry : /\ r.path = kvx[i].path /\ r.used = kvx[i].used /\ kvx' = [kvx EXCEPT ![i] = r]
                           /\ r.text = kvx[i].text /\ r.dir = kvx[i].dir
    <2>1. kvx[i] \in Entry
      BY <1>3, Zenon DEF KvxLike
    <2>2. LET r == [kvx[i] EXCEPT !.others = others] IN
            /\ r \in Entry /\ r.path = kvx[i].path /\ r.used = kvx[i].used
            /\ r.text = kvx[i].text /\ r.dir = kvx[i].dir
      BY <2>1 DEF Entry
    <2>3. kvx' = [kvx EXCEPT ![i] = [kvx[i] EXCEPT !.others = others]]
      BY <1>2, <1>3, OneSlotChanges, Zenon
    <2> QED  BY <2>2, <2>3, Zenon
  <1>5. KvxLike(kvx') /\ DOMAIN kvx' = DOMAIN kvx
    BY <1>3, <1>4, KvxPut
  <1>6. ASSUME NEW s PROVE Kept(kvx, kvx', s)
    BY <1>3, <1>4, OtherKept, Zenon DEF Of
  <1>7. \A s : s \notin {} => \A x : Stored(kvx, s, x) => Stored(kvx', s, x)
    BY <1>6, TablesAre, KeptStored, Zenon
  <1>8. Saves
    BY <1>1, <1>3, SavesIs, Zenon
  <1> QED  BY <1>1, <1>3, <1>5, <1>7, <1>8, Zenon DEF Done

LEMMA CommandDone ==
  ASSUME VfsTypes, VfsNext
  PROVE  Reboot \/ \E S : Done(S)
  <1>1. ASSUME NEW p \in Paths, NEW x \in Pieces, Write(p, <<x>>) \/ AppendTo(p, <<x>>) \/ Echo(p, <<x>>)
        PROVE  \E S : Done(S)
    <2>1. Write(p, <<x>>) => Done({p})
      BY TextAppended, DoneStore, Zenon DEF Write
    <2>2. AppendTo(p, <<x>>) => Done({p})
      BY TextAppended, DoneStore, Zenon DEF AppendTo
    <2>3. Echo(p, <<x>>) => Done({p})
      BY TextAppended, DoneEcho, Zenon
    <2> QED  BY <1>1, <2>1, <2>2, <2>3, Zenon
  <1>2. ASSUME NEW p \in Paths, Touch(p) \/ Mkdir(p) \/ Rm(p) \/ Rmdir(p) PROVE \E S : Done(S)
    <2>1. Touch(p) => Done({p})
      BY WrittenAre, DoneEcho, Zenon DEF Touch
    <2>2. Mkdir(p) => Done({})
      BY DoneMkdir, Zenon
    <2>3. Rm(p) \/ Rmdir(p) => Done({p}) \/ Done({})
      BY DoneRemove, Zenon DEF Rm, Rmdir
    <2> QED  BY <1>2, <2>1, <2>2, <2>3, Zenon
  <1>3. ASSUME NEW p \in Paths, NEW q \in Paths \ {p}, Mv(p, q) PROVE \E S : Done(S)
    <2>1. q \in Paths
      OBVIOUS
    <2> QED  BY <1>3, <2>1, DoneRename, Zenon DEF Mv
  <1>4. ASSUME NEW p \in Paths, NEW others \in BOOLEAN, Chmod(p, others) PROVE \E S : Done(S)
    BY <1>4, DoneChmod, Zenon
  <1>5. ASSUME NEW u \in Uids, SwitchUser(u) PROVE \E S : Done(S)
    <2>1. UNCHANGED <<ram, kvx, saved, root, toy>> /\ uid' \in Uids /\ said' = said
      BY <1>5, Zenon DEF SwitchUser, Same
    <2> QED  BY <2>1, DoneNothing, Zenon
  <1> QED  BY <1>1, <1>2, <1>3, <1>4, <1>5, Zenon DEF VfsNext

-----------------------------------------------------------------------------
(* A start.                                                                *)

LEMMA MountedIs ==
  ASSUME NEW disks \in [Roots -> [KvxSlots -> Entry]], NEW mach \in Machines
  PROVE  /\ RootDisk(mach) \in Roots \cup {NoDisk}
         /\ KvxLike(Mounted(disks, RootDisk(mach)))
         /\ DOMAIN Mounted(disks, RootDisk(mach)) = EntriesOf(RootDisk(mach))
         /\ RootDisk(mach) # NoDisk => Mounted(disks, RootDisk(mach)) = disks[RootDisk(mach)]
  <1>1. RootDisk(mach) \in Roots \cup {NoDisk}
    BY Zenon DEF Roots
  <1>2. CASE RootDisk(mach) = NoDisk
    <2>1. Mounted(disks, RootDisk(mach)) = <<>> /\ EntriesOf(RootDisk(mach)) = {}
      BY <1>2, Zenon DEF Mounted, EntriesOf
    <2>2. DOMAIN <<>> = {} /\ <<>> \in [{} -> Entry]
      OBVIOUS
    <2> QED  BY <1>1, <1>2, <2>1, <2>2, Zenon DEF KvxLike
  <1>3. CASE RootDisk(mach) # NoDisk
    <2>1. Mounted(disks, RootDisk(mach)) = disks[RootDisk(mach)] /\ EntriesOf(RootDisk(mach)) = KvxSlots
      BY <1>3, Zenon DEF Mounted, EntriesOf
    <2>2. disks[RootDisk(mach)] \in [KvxSlots -> Entry] /\ KvxSlots \subseteq Nat
      BY <1>1, <1>3, VfsAssumption, Zenon
    <2> QED  BY <1>1, <1>3, <2>1, <2>2, Zenon DEF KvxLike
  <1> QED  BY <1>2, <1>3

\* The tables and the disks after a start with mach, from any disks.
LEMMA StartIs ==
  ASSUME NEW disks \in [Roots -> [KvxSlots -> Entry]], NEW mach \in Machines,
         NEW t, t = Prepared(Mounted(disks, RootDisk(mach)))
  PROVE  /\ t.ram \in [RamSlots -> Node] /\ t.kvx \in [EntriesOf(RootDisk(mach)) -> Entry]
         /\ DisksAfter(disks, mach) \in [Roots -> [KvxSlots -> Entry]]
         /\ \A d \in Roots : \A q, x : Stored(disks[d], q, x) =>
              Stored(DisksAfter(disks, mach)[d], q, x) /\ (d = RootDisk(mach) => Stored(t.kvx, q, x))
  <1> DEFINE disk == Mounted(disks, RootDisk(mach))
             after == DisksAfter(disks, mach)
  <1>1. /\ RootDisk(mach) \in Roots \cup {NoDisk} /\ KvxLike(disk) /\ DOMAIN disk = EntriesOf(RootDisk(mach))
        /\ RootDisk(mach) # NoDisk => disk = disks[RootDisk(mach)]
    BY MountedIs, Zenon
  <1>2. TwoTables(t, EntriesOf(RootDisk(mach))) /\ \A q, x : Stored(disk, q, x) => Stored(t.kvx, q, x)
    BY <1>1, PreparedIs, Zenon
  <1>3. t.ram \in [RamSlots -> Node] /\ t.kvx \in [EntriesOf(RootDisk(mach)) -> Entry]
    BY <1>2, Zenon DEF TwoTables, RamLike, KvxLike
  <1>4. NoDisk \notin Roots
    BY Zenon DEF Roots
  <1>5. after = [d \in Roots |-> IF d = RootDisk(mach) THEN Prepared(Mounted(disks, d)).kvx ELSE disks[d]]
    BY Zenon DEF DisksAfter
  <1> HIDE DEF disk, after
  <1>6. ASSUME NEW d \in Roots, d = RootDisk(mach)
        PROVE  after[d] = t.kvx /\ disks[d] = disk /\ t.kvx \in [KvxSlots -> Entry]
    <2>1. after[d] = t.kvx
      BY <1>5, <1>6, Zenon
    <2>2. EntriesOf(RootDisk(mach)) = KvxSlots /\ d # NoDisk
      BY <1>4, <1>6, Zenon DEF EntriesOf
    <2> QED  BY <1>1, <1>3, <1>6, <2>1, <2>2, Zenon
  <1>7. ASSUME NEW d \in Roots, d # RootDisk(mach) PROVE after[d] = disks[d]
    BY <1>5, <1>7, Zenon
  <1>8. \A d \in Roots : after[d] \in [KvxSlots -> Entry]
    BY <1>6, <1>7, Zenon
  <1>9. after \in [Roots -> [KvxSlots -> Entry]]
    BY <1>5, <1>8, Zenon
  <1>10. ASSUME NEW d \in Roots, NEW q, NEW x, Stored(disks[d], q, x)
         PROVE  Stored(after[d], q, x) /\ (d = RootDisk(mach) => Stored(t.kvx, q, x))
    <2>1. CASE d = RootDisk(mach)
      BY <1>2, <1>6, <1>10, <2>1, Zenon
    <2>2. CASE d # RootDisk(mach)
      BY <1>7, <1>10, <2>2, Zenon
    <2> QED  BY <2>1, <2>2
  <1> QED  BY <1>3, <1>9, <1>10, Zenon DEF after

LEMMA RebootKeeps ==
  ASSUME VfsInv, Reboot
  PROVE  VfsInv'
  <1>0. VfsTypes /\ SaidIsStored /\ saved \in [Roots -> [KvxSlots -> Entry]] /\ said \in [Claims -> VfsTexts]
    BY Zenon DEF VfsInv, VfsTypes
  <1>1. PICK mach \in Machines : LET t == Prepared(Mounted(saved, RootDisk(mach))) IN
          /\ ram' = t.ram /\ kvx' = t.kvx /\ root' = RootDisk(mach)
          /\ saved' = DisksAfter(saved, mach)
    BY Zenon DEF Reboot
  <1>2. PICK t : t = Prepared(Mounted(saved, RootDisk(mach))) /\ ram' = t.ram /\ kvx' = t.kvx
    BY <1>1, Zenon
  <1>3. /\ ram' \in [RamSlots -> Node] /\ kvx' \in [EntriesOf(root') -> Entry]
        /\ saved' \in [Roots -> [KvxSlots -> Entry]]
        /\ \A d \in Roots : \A q, x : Stored(saved[d], q, x) =>
              Stored(saved'[d], q, x) /\ (d = root' => Stored(kvx', q, x))
    <2>1. t = Prepared(Mounted(saved, RootDisk(mach)))
      BY <1>2
    <2>2. /\ t.ram \in [RamSlots -> Node] /\ t.kvx \in [EntriesOf(RootDisk(mach)) -> Entry]
          /\ DisksAfter(saved, mach) \in [Roots -> [KvxSlots -> Entry]]
          /\ \A d \in Roots : \A q, x : Stored(saved[d], q, x) =>
               Stored(DisksAfter(saved, mach)[d], q, x) /\ (d = RootDisk(mach) => Stored(t.kvx, q, x))
      BY <1>0, <2>1, StartIs, Zenon
    <2>3. ram' = t.ram /\ kvx' = t.kvx /\ root' = RootDisk(mach) /\ saved' = DisksAfter(saved, mach)
      BY <1>1, <1>2, Zenon
    <2> QED  BY <2>2, <2>3, Zenon
  <1>4. root' \in Roots \cup {NoDisk}
    BY <1>0, <1>1, MountedIs, Zenon
  <1>5. /\ toy' \in Images /\ uid' \in Uids
        /\ said' = [k \in Claims |-> IF k[2] = "memory" THEN NoText ELSE said[k]]
    BY <1>0, VfsAssumption, Zenon DEF Reboot, VfsTypes
  <1>6. said' \in [Claims -> VfsTexts]
    BY <1>0, <1>5, WrittenAre, Zenon
  <1>7. VfsTypes'
    BY <1>3, <1>4, <1>5, <1>6, Zenon DEF VfsTypes
  <1>8. ASSUME NEW p \in OneBackend, ~Persist(p) PROVE said'[<<p, "memory">>] = NoText
    <2>1. <<p, "memory">> \in Claims /\ <<p, "memory">>[2] = "memory"
      BY <1>8, ClaimsAre
    <2> QED  BY <1>5, <2>1, Zenon
  <1>9. ASSUME NEW p \in OneBackend, NEW d \in Roots, Persist(p), said'[<<p, d>>] # NoText
        PROVE  Stored(saved'[d], p, said'[<<p, d>>]) /\ (d = root' => Stored(kvx', p, said'[<<p, d>>]))
    <2>1. <<p, d>> \in Claims
      BY <1>9, ClaimsAre, Zenon
    <2>2. said'[<<p, d>>] = said[<<p, d>>]
      BY <1>5, <1>9, <2>1, Zenon
    <2>3. Stored(saved[d], p, said[<<p, d>>])
      BY <1>0, <1>9, <2>2, Zenon DEF SaidIsStored
    <2> QED  BY <1>3, <2>2, <2>3, Zenon
  <1>10. OneBackend' = OneBackend
    BY DEF OneBackend
  <1>11. SaidIsStored' <=> \A p \in OneBackend :
          /\ ~Persist(p) /\ said'[<<p, "memory">>] # NoText => Stored(ram', p, said'[<<p, "memory">>])
          /\ \A d \in Roots : Persist(p) /\ said'[<<p, d>>] # NoText =>
               /\ Stored(saved'[d], p, said'[<<p, d>>])
               /\ d = root' => Stored(kvx', p, said'[<<p, d>>])
    BY DEF SaidIsStored
  <1>12. SaidIsStored'
    BY <1>8, <1>9, <1>11, Zenon
  <1> QED  BY <1>7, <1>12, Zenon DEF VfsInv

LEMMA VfsInvInit ==
  ASSUME VfsInit
  PROVE  VfsInv
  <1>1. PICK mach \in Machines : LET t == Prepared(Mounted(NewDisks, RootDisk(mach))) IN
          /\ ram = t.ram /\ kvx = t.kvx /\ root = RootDisk(mach)
          /\ saved = DisksAfter(NewDisks, mach)
    BY Zenon DEF VfsInit
  <1>2. PICK t : t = Prepared(Mounted(NewDisks, RootDisk(mach))) /\ ram = t.ram /\ kvx = t.kvx
    BY <1>1, Zenon
  <1>3. NewDisks \in [Roots -> [KvxSlots -> Entry]]
    <2>1. EmptyKvx \in [KvxSlots -> Entry]
      BY FreeTyped, Zenon DEF EmptyKvx
    <2> QED  BY <2>1, Zenon DEF NewDisks
  <1>4. /\ ram \in [RamSlots -> Node] /\ kvx \in [EntriesOf(root) -> Entry]
        /\ saved \in [Roots -> [KvxSlots -> Entry]]
    <2>1. t = Prepared(Mounted(NewDisks, RootDisk(mach)))
      BY <1>2
    <2>2. /\ t.ram \in [RamSlots -> Node] /\ t.kvx \in [EntriesOf(RootDisk(mach)) -> Entry]
          /\ DisksAfter(NewDisks, mach) \in [Roots -> [KvxSlots -> Entry]]
      BY <1>3, <2>1, StartIs, Zenon
    <2>3. ram = t.ram /\ kvx = t.kvx /\ root = RootDisk(mach) /\ saved = DisksAfter(NewDisks, mach)
      BY <1>1, <1>2, Zenon
    <2> QED  BY <2>2, <2>3, Zenon
  <1>5. root \in Roots \cup {NoDisk}
    BY <1>1, <1>3, MountedIs, Zenon
  <1>6. toy \in Images /\ uid \in Uids /\ said = [k \in Claims |-> NoText]
    BY VfsAssumption, Zenon DEF VfsInit
  <1>7. said \in [Claims -> VfsTexts]
    BY <1>6, WrittenAre, Zenon
  <1>8. \A k \in Claims : said[k] = NoText
    BY <1>6, Zenon
  <1>9. SaidIsStored
    BY <1>8, ClaimsAre, Zenon DEF SaidIsStored
  <1> QED  BY <1>4, <1>5, <1>6, <1>7, <1>9, Zenon DEF VfsInv, VfsTypes

LEMMA VfsInvStep ==
  ASSUME VfsInv, [VfsNext]_vfsVars
  PROVE  VfsInv'
  <1>1. VfsTypes /\ SaidIsStored
    BY Zenon DEF VfsInv
  <1>2. CASE VfsNext
    <2>1. CASE Reboot
      BY <2>1, RebootKeeps, Zenon
    <2>2. CASE \E S : Done(S)
      <3>1. PICK S : Done(S)
        BY <2>2, Zenon
      <3>2. VfsTypes'
        BY <1>1, <3>1, DoneTypes, Zenon
      <3>3. SaidIsStored'
        BY <1>1, <3>1, DoneStored, Zenon
      <3> QED  BY <3>2, <3>3, Zenon DEF VfsInv
    <2> QED  BY <1>1, <1>2, <2>1, <2>2, CommandDone, Zenon
  <1>3. CASE UNCHANGED vfsVars
    <2>1. Done({})
      BY <1>1, <1>3, DoneNothing, Zenon DEF vfsVars, VfsTypes
    <2>2. VfsTypes'
      BY <1>1, <2>1, DoneTypes, Zenon
    <2>3. SaidIsStored'
      BY <1>1, <2>1, DoneStored, Zenon
    <2> QED  BY <2>2, <2>3, Zenon DEF VfsInv
  <1> QED  BY <1>2, <1>3, Zenon
-----------------------------------------------------------------------------
(* What reading gives.                                                     *)

LEMMA VfsInvHolds == VfsSpec => []VfsInv
  <1>1. VfsInit => VfsInv
    BY VfsInvInit
  <1>2. VfsInv /\ [VfsNext]_vfsVars => VfsInv'
    BY VfsInvStep
  <1> QED  BY <1>1, <1>2, PTL DEF VfsSpec

\* Of the paths with rules of their own.
LEMMA TopsAre ==
  /\ Top(PasswdFile) = "etc"
  /\ \A p : Persist(p) => ~Removable(p) /\ ReadsKvxFirst(p) /\ p # Root
  /\ \A p : Removable(p) => ~ReadsKvxFirst(p)
  /\ ReadsKvxFirst(PasswdFile) /\ ~Persist(PasswdFile) /\ ~Removable(PasswdFile)
  BY DEF Top, PasswdFile, Root, Persist, Removable, ReadsKvxFirst

LEMMA ReadsStoredKvx ==
  ASSUME VfsTypes, NEW p, Persist(p), NEW x, Stored(kvx, p, x), NEW u, u = 0 \/ KvxReads(p, u)
  PROVE  ReadAll(p, u) = x
  <1>1. PICK i \in Find(kvx, p) : kvx[i].text = x /\ ~kvx[i].dir
    BY Zenon DEF Stored
  <1>2. \A j \in Find(kvx, p) : j = i
    BY TablesAre, FindIs, Zenon
  <1>3. KvxStat(p) = kvx[i]
    BY <1>2, Zenon DEF KvxStat
  <1>4. KvxReads(p, u) /\ ReadsKvxFirst(p) /\ p # PasswdFile
    BY <1>1, TopsAre, Zenon DEF KvxReads
  <1>5. ReadAll(p, u) = KvxStat(p).text
    BY <1>4 DEF ReadAll
  <1> QED  BY <1>1, <1>3, <1>5, Zenon

LEMMA ReadsStoredRam ==
  ASSUME VfsTypes, NEW p, ~ReadsKvxFirst(p), ~Removable(p), NEW x, Stored(ram, p, x), NEW u
  PROVE  ReadAll(p, u) = x
  <1>1. PICK i \in Find(ram, p) : ram[i].text = x
    BY Zenon DEF Stored
  <1>2. \A j \in Find(ram, p) : j = i
    BY TablesAre, FindIs, Zenon
  <1>3. RamText(p) = ram[i].text /\ In(ram, p)
    BY <1>1, <1>2, TablesAre, FindIs, Zenon DEF RamText
  <1>4. OpenedFrom(p) = "ram"
    BY <1>3, Zenon DEF OpenedFrom
  <1>5. p # PasswdFile
    BY TopsAre, Zenon
  <1>6. ReadAll(p, u) = RamText(p)
    BY <1>4, <1>5 DEF ReadAll
  <1> QED  BY <1>1, <1>3, <1>6, Zenon

\* A path is a child of what is in front of its last component.
LEMMA FrontIs ==
  ASSUME NEW p \in Paths, p # Root
  PROVE  /\ DirectChild(Front(p), p) /\ Front(p) # p
         /\ Top(Front(p)) = Top(p) \/ Top(Front(p)) = "/"
  <1>1. p \in Seq(STRING) /\ p # <<>>
    BY VfsAssumption, Zenon DEF Root
  <1>2. PICK n \in Nat : Len(p) = n /\ n > 0 /\ \A i \in 1 .. n - 1 : p[i] \in STRING
    BY <1>1
  <1>3. /\ Front(p) = SubSeq(p, 1, n - 1) /\ Len(Front(p)) = n - 1
        /\ \A i \in 1 .. n - 1 : Front(p)[i] = p[i]
    <2>1. n - 1 \in Int /\ 1 \in Int
      BY <1>2
    <2>2. /\ Len(SubSeq(p, 1, n - 1)) = IF 1 <= n - 1 THEN (n - 1) - 1 + 1 ELSE 0
          /\ \A i \in 1 .. (n - 1) - 1 + 1 : SubSeq(p, 1, n - 1)[i] = p[1 + i - 1]
      BY <1>2, <2>1, SubSeqProperties
    <2>3. Front(p) = SubSeq(p, 1, n - 1)
      BY <1>2, Zenon DEF Front
    <2> HIDE DEF Front
    <2>4. (n - 1) - 1 + 1 = n - 1 /\ (~(1 <= n - 1) => n - 1 = 0) /\ \A i \in 1 .. n - 1 : 1 + i - 1 = i
      BY <1>2
    <2> QED  BY <2>2, <2>3, <2>4, Zenon
  <1>4. Front(p) \in Seq(STRING)
    <2>1. n - 1 \in Int /\ 1 \in Int
      BY <1>2
    <2> QED  BY <1>2, <1>3, <2>1, SubSeqProperties, Zenon
  <1> HIDE DEF Front
  <1>5. SubSeq(Front(p), 1, Len(Front(p))) = SubSeq(p, 1, Len(Front(p)))
    BY <1>3, <1>4, SubSeqFull, Zenon
  <1>6. Len(Front(p)) <= Len(p) /\ Len(p) = Len(Front(p)) + 1 /\ Len(Front(p)) # Len(p)
    BY <1>2, <1>3
  <1>7. DirectChild(Front(p), p) /\ Front(p) # p
    BY <1>5, <1>6, Zenon DEF DirectChild, IsPrefix
  <1>8. Top(Front(p)) = Top(p) \/ Top(Front(p)) = "/"
    <2>1. CASE n = 1
      <3>1. Front(p) = <<>>
        BY <1>3, <1>4, <2>1
      <3> QED  BY <3>1, Zenon DEF Top, Root
    <2>2. CASE n # 1
      <3>1. 1 \in 1 .. n - 1 /\ Len(Front(p)) # 0
        BY <1>2, <1>3, <2>2
      <3>2. Front(p)[1] = p[1]
        BY <1>3, <3>1, Zenon
      <3>3. Front(p) # <<>>
        <4>1. Len(<<>>) = 0
          OBVIOUS
        <4> QED  BY <3>1, <4>1, Zenon
      <3> QED  BY <1>1, <3>2, <3>3, Zenon DEF Top, Root
    <2> QED  BY <2>1, <2>2
  <1> QED  BY <1>7, <1>8

\* What is on the disk is listed with its directory, and by number.
LEMMA ListsStored ==
  ASSUME VfsTypes, NEW p \in Paths, Persist(p), In(kvx, p)
  PROVE  /\ p \in Ls(Front(p))
         /\ Last(p) \in UNION {FileNameAt(Front(p), n) : n \in 0 .. (FileCount(Front(p)) - 1)}
  <1> DEFINE C == Children(Front(p))
  <1>1. p # Root /\ ~Removable(p)
    BY TopsAre, Zenon
  <1>2. DirectChild(Front(p), p) /\ Front(p) # p /\ ~Removable(Front(p))
    <2>1. DirectChild(Front(p), p) /\ Front(p) # p
      BY <1>1, FrontIs
    <2>2. Top(Front(p)) = Top(p) \/ Top(Front(p)) = "/"
      BY <1>1, FrontIs
    <2>3. ~Removable(Front(p))
      BY <1>1, <2>2 DEF Removable
    <2> QED  BY <2>1, <2>3
  <1>3. PICK i \in DOMAIN kvx : kvx[i].used /\ kvx[i].path = p
    BY Zenon DEF In
  <1>4. i \in C
    BY <1>2, <1>3, Zenon DEF Children
  <1>5. p \in ListedKvx(Front(p))
    BY <1>3, <1>4, Zenon DEF ListedKvx
  <1>6. p \in Ls(Front(p))
    BY <1>2, <1>5, Zenon DEF Ls, Listing
  <1>7. IsFiniteSet(C) /\ C \subseteq Nat
    <2>1. DOMAIN kvx \subseteq KvxSlots
      BY TablesAre, Zenon DEF EntriesOf
    <2>2. C \subseteq KvxSlots
      BY <2>1, Zenon DEF Children
    <2> QED  BY <2>2, VfsAssumption, FS_Subset, Zenon
  <1> HIDE DEF C
  <1> DEFINE before == {k \in C : k < i}
             n == Cardinality(before)
  <1>8. IsFiniteSet(C \ {i}) /\ Cardinality(C \ {i}) = Cardinality(C) - 1 /\ Cardinality(C) \in Nat
    BY <1>4, <1>7, FS_RemoveElement, FS_CardinalityType
  <1>9. before \in SUBSET (C \ {i})
    BY <1>4, <1>7
  <1> HIDE DEF before
  <1>10. IsFiniteSet(before) /\ n <= Cardinality(C \ {i})
    BY <1>8, <1>9, FS_Subset
  <1>11. n \in 0 .. (Cardinality(C) - 1)
    <2>1. n \in Nat
      BY <1>10, FS_CardinalityType
    <2> HIDE DEF n
    <2> QED  BY <1>8, <1>10, <2>1
  <1>12. Last(p) \in FileNameAt(Front(p), n)
    BY <1>3, <1>4, Zenon DEF FileNameAt, C, before, n
  <1>13. n \in 0 .. (FileCount(Front(p)) - 1)
    BY <1>11, Zenon DEF FileCount, C
  <1> HIDE DEF n
  <1> QED  BY <1>6, <1>12, <1>13, Zenon

\* Whatever the sizes of the tables, the users, the paths and the disks attached, for paths
\* written and read in one back end (OneBackend): a text reported stored by write, append or,
\* for /persist, echo is what vfs_read_all returns to the superuser and to whoever else may
\* read it, until its path is written, moved or removed, through every command on other paths
\* and through restarts with the disk or without it; ls and the count of files show it.
THEOREM WrittenReadsBackCorrect == VfsSpec => []WrittenReadsBack
  <1>1. ASSUME VfsInv PROVE WrittenReadsBack
    <2> SUFFICES ASSUME NEW p \in OneBackend, Key(p) \in Claims, said[Key(p)] # NoText
                 PROVE  /\ \A u \in Uids :
                             u = 0 \/ ~Persist(p) \/ KvxReads(p, u) => ReadAll(p, u) = said[Key(p)]
                        /\ Persist(p) =>
                             /\ p \in Ls(Front(p))
                             /\ Last(p) \in UNION {FileNameAt(Front(p), n) : n \in 0 .. (FileCount(Front(p)) - 1)}
      BY Zenon DEF WrittenReadsBack
    <2>1. VfsTypes /\ SaidIsStored /\ p \in Paths
      BY <1>1, ClaimsAre, Zenon DEF VfsInv
    <2>2. CASE Persist(p)
      <3>1. Key(p) = <<p, root>> /\ root \in Roots
        <4>1. Key(p) = <<p, root>>
          BY <2>2, KeysAre, Zenon
        <4>2. PICK q \in OneBackend : \E d : <<p, root>> = <<q, d>> /\ IF Persist(q) THEN d \in Roots ELSE d = "memory"
          BY <4>1, ClaimsAre, Zenon
        <4>3. PICK d : <<p, root>> = <<q, d>> /\ IF Persist(q) THEN d \in Roots ELSE d = "memory"
          BY <4>2
        <4>4. q = p /\ d = root
          BY <4>3
        <4> QED  BY <2>2, <4>1, <4>3, <4>4, Zenon
      <3>2. Stored(kvx, p, said[Key(p)])
        BY <2>1, <2>2, <3>1, Zenon DEF SaidIsStored
      <3>3. In(kvx, p)
        BY <2>1, <3>2, TablesAre, StoredIsIn, Zenon
      <3> QED  BY <2>1, <2>2, <3>2, <3>3, ReadsStoredKvx, ListsStored, Zenon
    <2>3. CASE ~Persist(p)
      <3>1. Key(p) = <<p, "memory">>
        BY <2>3, KeysAre, Zenon
      <3>2. Stored(ram, p, said[Key(p)])
        BY <2>1, <2>3, <3>1, Zenon DEF SaidIsStored
      <3>3. ~ReadsKvxFirst(p) /\ ~Removable(p)
        BY <2>3, Zenon DEF OneBackend
      <3> QED  BY <2>1, <2>3, <3>2, <3>3, ReadsStoredRam, Zenon
    <2> QED  BY <2>2, <2>3
  <1> QED  BY <1>1, VfsInvHolds, PTL

\* Whatever the disks hold when the machine is switched off, and whichever disks are there when
\* it starts again: every directory of the layout exists after the start, as there are no fewer
\* nodes in memory than directories in the layout.
THEOREM RestartHasLayoutCorrect == VfsSpec => []RestartHasLayout
  <1>1. ASSUME VfsInv PROVE RestartHasLayout
    <2> SUFFICES ASSUME NEW mach \in Machines
                 PROVE  LET t == Prepared(Mounted(saved, RootDisk(mach)))
                        IN  \A p \in ToSet(Layout) : InToy(p) \/ In(t.ram, p) \/ In(t.kvx, p)
      BY Zenon DEF RestartHasLayout
    <2>1. KvxLike(Mounted(saved, RootDisk(mach)))
      BY <1>1, MountedIs, Zenon DEF VfsInv, VfsTypes
    <2>2. Len(Layout) <= Cardinality(RamSlots)
      BY VfsAssumption, Zenon
    <2> QED  BY <2>1, <2>2, PreparedIs, Zenon
  <1> QED  BY <1>1, VfsInvHolds, PTL

=============================================================================
