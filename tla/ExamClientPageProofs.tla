------------------------- MODULE ExamClientPageProofs -------------------------
(***************************************************************************)
(* What a candidate sees and keeps: the labels of a page, and the answers  *)
(* it was told are saved, for any number of tabs, users and sessions.      *)
(***************************************************************************)
EXTENDS ExamClientProofs
-------------------------------------------------------------------------------
(***************************************************************************)
(* Labels.  A navigation says where it goes; the server only knows where   *)
(* its cursor is.  The invariant is that the two agree:                    *)
(*   - a navigation that sought or replays has a cursor of its own, which  *)
(*     is due at its index whatever else the tab does;                     *)
(*   - the cursor of the tab is due where its course says, and so is that  *)
(*     of a navigation that goes on from it, while nothing has drifted;    *)
(*   - no two tabs hold the same cursor.                                   *)
(* due and adrift are those of the tab's course, paper and table those of  *)
(* its session.                                                            *)
(***************************************************************************)
Due(table, c, i) ==
    IF c = NoCursor THEN i = 0 ELSE c \in DOMAIN table => table[c] = i

OwnCursor(nav) == nav.stage # "seek" /\ nav.fresh /\ nav.cursor # NoCursor

NavTrue(nav, questions, table) ==
    /\ nav.index < questions
    /\ nav.stage # "read" => nav.fresh
    /\ nav.stage = "read" /\ nav.fresh => Due(table, nav.cursor, nav.index)
    /\ nav.stage = "replay" => Due(table, nav.cursor, nav.at) /\ nav.at <= nav.index

CursorsOwn(moves, cursor) ==
    \A i \in DOMAIN moves : OwnCursor(moves[i]) =>
      /\ moves[i].cursor # cursor
      /\ \A j \in DOMAIN moves \ {i} : moves[j].cursor # moves[i].cursor

LabelOf(paper, x) == x.index >= 0 => x.question.position = paper[x.index]

\* A submission the page waits for goes on to a question.
Onward(saves, questions) ==
    \A s \in Slots : saves[s] # None /\ saves[s].of = "page" /\ ~saves[s].last =>
      saves[s].from + 1 < questions

NewsTrue(news, questions, paper) ==
    news # None => news[1].questions = questions /\ LabelOf(paper, news[1])

\* What holds of a tab however it has drifted.
Sound(tab, paper, table) ==
    /\ tab.summary.questions \in Nat /\ DOMAIN paper = 0..(tab.summary.questions - 1)
    /\ \A i \in DOMAIN tab.moves : NavTrue(tab.moves[i], tab.summary.questions, table)
    /\ CursorsOwn(tab.moves, tab.cursor)
    /\ Onward(tab.saves, tab.summary.questions)
    /\ NewsTrue(tab.news, tab.summary.questions, paper)

Alone(tab) == Len(tab.moves) <= 1

\* ... and while it has not.
OnCourse(tab, due, paper, table) ==
    /\ Alone(tab)
    /\ \A i \in DOMAIN tab.moves :
         /\ tab.moves[i].stage = "read" => Due(table, tab.moves[i].cursor, tab.moves[i].index)
         /\ ~tab.moves[i].here => tab.cursor = NoCursor
    /\ tab.cursor \in DOMAIN table => table[tab.cursor] = due
    /\ LabelOf(paper, tab.position) /\ LabelOf(paper, tab.summary)

HeldBy(tab) ==
    ({tab.cursor} \cup {tab.moves[i].cursor : i \in DOMAIN tab.moves}) \ {NoCursor}

OwnedBy(tab) ==
    {tab.moves[i].cursor : i \in {j \in DOMAIN tab.moves : OwnCursor(tab.moves[j])}}

LEMMA OwnedIsHeld == ASSUME NEW tab PROVE OwnedBy(tab) \subseteq HeldBy(tab)
  BY DEF OwnedBy, HeldBy, OwnCursor

\* From one table of cursors to the next, a cursor keeps its place if it stays.
StaysPut(table, new, c) == c \in DOMAIN new => c \in DOMAIN table /\ new[c] = table[c]

\* Other tabs, and requests of this one that do not read, do not disturb a course.
LEMMA StaysSound ==
    ASSUME NEW tab, NEW paper, NEW table, NEW after, Sound(tab, paper, table),
           \A c \in OwnedBy(tab) : StaysPut(table, after, c)
    PROVE  Sound(tab, paper, after)
  <1>1. ASSUME NEW i \in DOMAIN tab.moves
        PROVE  NavTrue(tab.moves[i], tab.summary.questions, after)
    <2> DEFINE nav == tab.moves[i]
    <2>1. NavTrue(nav, tab.summary.questions, table)
      BY DEF Sound
    <2>2. OwnCursor(nav) => StaysPut(table, after, nav.cursor)
      BY DEF OwnedBy
    <2> QED BY <2>1, <2>2 DEF NavTrue, Due, StaysPut, OwnCursor
  <1> QED BY <1>1 DEF Sound

LEMMA StaysOnCourse ==
    ASSUME NEW tab, NEW due, NEW paper, NEW table, NEW after, NoCursor \notin DOMAIN after,
           OnCourse(tab, due, paper, table), \A c \in HeldBy(tab) : StaysPut(table, after, c)
    PROVE  OnCourse(tab, due, paper, after)
  BY DEF OnCourse, HeldBy, StaysPut, Due, Alone

LEMMA RemoveExact ==
    ASSUME NEW S, NEW s \in Seq(S), NEW i \in DOMAIN s
    PROVE  /\ RemoveAt(s, i) \in Seq(S) /\ Len(RemoveAt(s, i)) = Len(s) - 1
           /\ \A j \in DOMAIN RemoveAt(s, i) :
                \/ j < i /\ j \in DOMAIN s /\ RemoveAt(s, i)[j] = s[j]
                \/ ~(j < i) /\ j + 1 \in DOMAIN s /\ RemoveAt(s, i)[j] = s[j + 1]
  <1> DEFINE head == SubSeq(s, 1, i - 1)
             tail == SubSeq(s, i + 1, Len(s))
  <1>0. Len(s) \in Nat /\ DOMAIN s = 1..Len(s) /\ i \in 1..Len(s)
    OBVIOUS
  <1>1. /\ head \in Seq(S) /\ Len(head) = i - 1
        /\ \A j \in 1..(i - 1) : head[j] = s[j]
    OBVIOUS
  <1>2. /\ tail \in Seq(S) /\ Len(tail) = Len(s) - i
        /\ \A j \in 1..(Len(s) - i) : tail[j] = s[i + j]
    OBVIOUS
  <1>3. RemoveAt(s, i) = head \o tail
    BY DEF RemoveAt
  <1> HIDE DEF head, tail
  <1> DEFINE rest == head \o tail
  <1>4. /\ rest \in Seq(S) /\ Len(rest) = Len(head) + Len(tail)
        /\ \A j \in 1..(Len(head) + Len(tail)) :
             rest[j] = IF j <= Len(head) THEN head[j] ELSE tail[j - Len(head)]
    BY <1>1, <1>2, ConcatProperties
  <1> HIDE DEF rest
  <1>5. Len(rest) = Len(s) - 1 /\ DOMAIN rest = 1..(Len(s) - 1)
    <2>1. Len(rest) = Len(s) - 1
      BY <1>0, <1>1, <1>2, <1>4
    <2>2. DOMAIN rest = 1..Len(rest)
      BY <1>4
    <2> QED BY <2>1, <2>2
  <1>6. ASSUME NEW j \in 1..(Len(s) - 1), j < i PROVE rest[j] = s[j]
    BY <1>0, <1>1, <1>2, <1>4, <1>6
  <1>7. ASSUME NEW j \in 1..(Len(s) - 1), ~(j < i) PROVE rest[j] = s[j + 1]
    <2>1. rest[j] = tail[j - (i - 1)]
      BY <1>0, <1>1, <1>2, <1>4, <1>7
    <2>2. j - (i - 1) \in 1..(Len(s) - i) /\ i + (j - (i - 1)) = j + 1
      BY <1>0, <1>7
    <2>3. tail[j - (i - 1)] = s[i + (j - (i - 1))]
      BY <1>2, <2>2
    <2> QED BY <2>1, <2>2, <2>3
  <1>8. ASSUME NEW j \in DOMAIN rest
        PROVE  \/ j < i /\ j \in DOMAIN s /\ rest[j] = s[j]
               \/ ~(j < i) /\ j + 1 \in DOMAIN s /\ rest[j] = s[j + 1]
    BY <1>0, <1>5, <1>6, <1>7
  <1> QED BY <1>3, <1>4, <1>5, <1>8 DEF rest

\* Of a page, what its course is made of.
SameBut(tab, new, field) ==
    \A f \in {"moves", "cursor", "summary", "position", "saves", "news"} \ {field} :
      new[f] = tab[f]

\* A navigation starts where the page says.
LEMMA Begins ==
    ASSUME NEW tab, NEW new, NEW due \in Int, NEW paper, NEW table,
           Sound(tab, paper, table), tab.moves \in Seq(Navigations),
           tab.cursor \in Cursor,
           NEW index \in Nat, NEW seek \in BOOLEAN, index < tab.summary.questions,
           new.moves = Append(tab.moves, Navigation(tab, index, seek)),
           new.cursor = tab.cursor, new.summary = tab.summary,
           new.position = NoPosition, new.news = tab.news,
           Onward(new.saves, tab.summary.questions)
    PROVE  /\ Sound(new, paper, table) /\ HeldBy(new) = HeldBy(tab)
           /\ /\ OnCourse(tab, due, paper, table) /\ tab.moves = <<>>
              /\ Navigation(tab, index, seek).fresh \/ index = due
              => OnCourse(new, due, paper, table)
  <1> DEFINE nav   == Navigation(tab, index, seek)
             stage == FirstStage(tab, index, seek)
             moves == tab.moves
             n     == Len(moves)
  <1>1. /\ nav.index = index /\ nav.stage = stage /\ nav.cursor = tab.cursor /\ nav.at = 0
        /\ nav.fresh = (stage # "read" \/ tab.cursor = NoCursor) /\ nav.here = TRUE
        /\ nav \in Navigations
    BY NavigationType DEF Navigation
  <1>2. /\ stage \in {"seek", "read", "replay"}
        /\ stage = "read" => tab.cursor # NoCursor \/ index = 0
        /\ stage = "replay" => tab.cursor = NoCursor
    BY DEF FirstStage
  <1>3. nav.fresh <=> (stage # "read" \/ tab.cursor = NoCursor)
    BY <1>1
  <1> HIDE DEF nav, stage
  <1>4. /\ n \in Nat /\ new.moves = Append(moves, nav) /\ Len(new.moves) = n + 1
        /\ DOMAIN moves = 1..n /\ DOMAIN new.moves = 1..(n + 1)
        /\ new.moves[n + 1] = nav /\ \A i \in 1..n : new.moves[i] = moves[i]
    BY <1>1 DEF nav
  <1>5. ~OwnCursor(nav)
    BY <1>1, <1>2, <1>3 DEF OwnCursor
  <1>6. NavTrue(nav, tab.summary.questions, table)
    BY <1>1, <1>2, <1>3 DEF NavTrue, Due
  <1>7. \A i \in DOMAIN new.moves : NavTrue(new.moves[i], new.summary.questions, table)
    BY <1>4, <1>6 DEF Sound
  <1>8. CursorsOwn(new.moves, new.cursor)
    <2>1. CursorsOwn(moves, tab.cursor)
      BY DEF Sound
    <2> HIDE DEF moves, n
    <2> QED BY <1>1, <1>4, <1>5, <2>1 DEF CursorsOwn
  <1>9. HeldBy(new) = HeldBy(tab)
    BY <1>1, <1>4 DEF HeldBy
  <1>10. ASSUME OnCourse(tab, due, paper, table), moves = <<>>, nav.fresh \/ index = due
         PROVE  OnCourse(new, due, paper, table)
    <2>1. n = 0
      BY <1>10
    <2>2. nav.stage = "read" => Due(table, nav.cursor, nav.index)
      BY <1>1, <1>2, <1>3, <1>10 DEF Due, OnCourse
    <2>3. LabelOf(paper, new.position)
      BY DEF LabelOf, NoPosition
    <2>4. nav.here
      BY <1>1
    <2> HIDE DEF n
    <2> QED BY <1>4, <1>10, <2>1, <2>2, <2>3, <2>4 DEF OnCourse, Alone
  <1> QED BY <1>7, <1>8, <1>9, <1>10 DEF Sound, nav

\* A navigation is given up.
LEMMA GivenUp ==
    ASSUME NEW tab, NEW new, NEW paper, NEW table,
           Sound(tab, paper, table), tab.moves \in Seq(Navigations),
           NEW i \in DOMAIN tab.moves,
           new.moves = RemoveAt(tab.moves, i), SameBut(tab, new, "moves")
    PROVE  /\ Sound(new, paper, table) /\ HeldBy(new) \subseteq HeldBy(tab)
           /\ \A c \in OwnedBy(new) : c # tab.moves[i].cursor /\ c # tab.cursor
           /\ OwnCursor(tab.moves[i]) => tab.moves[i].cursor \notin HeldBy(new)
           /\ \A due : OnCourse(tab, due, paper, table) => OnCourse(new, due, paper, table)
           /\ Alone(tab) => new.moves = <<>>
  <1> DEFINE moves == tab.moves
             src(j) == IF j < i THEN j ELSE j + 1
  <1>0. /\ new.cursor = tab.cursor /\ new.summary = tab.summary
        /\ new.position = tab.position /\ new.saves = tab.saves /\ new.news = tab.news
    BY DEF SameBut
  <1>1. /\ new.moves \in Seq(Navigations) /\ Len(new.moves) = Len(moves) - 1
        /\ \A j \in DOMAIN new.moves :
             src(j) \in DOMAIN moves /\ src(j) # i /\ new.moves[j] = moves[src(j)]
    <2>1. /\ new.moves \in Seq(Navigations) /\ Len(new.moves) = Len(moves) - 1
          /\ \A j \in DOMAIN new.moves :
               \/ j < i /\ j \in DOMAIN moves /\ new.moves[j] = moves[j]
               \/ ~(j < i) /\ j + 1 \in DOMAIN moves /\ new.moves[j] = moves[j + 1]
      BY RemoveExact
    <2>2. i \in Nat /\ DOMAIN new.moves \subseteq Nat
      BY <2>1
    <2> HIDE DEF moves
    <2> QED BY <2>1, <2>2
  <1>2. \A j, k \in DOMAIN new.moves : j # k => src(j) # src(k)
    BY <1>1
  <1>3. CursorsOwn(moves, tab.cursor) /\ i \in DOMAIN moves /\ Len(moves) \in Nat
    BY DEF Sound
  <1> HIDE DEF moves, src
  <1>4. CursorsOwn(new.moves, new.cursor)
    BY <1>0, <1>1, <1>2, <1>3 DEF CursorsOwn
  <1>5. \A j \in DOMAIN new.moves : NavTrue(new.moves[j], new.summary.questions, table)
    BY <1>0, <1>1 DEF Sound, moves
  <1>6. Sound(new, paper, table)
    BY <1>0, <1>4, <1>5 DEF Sound
  <1>7. HeldBy(new) \subseteq HeldBy(tab)
    BY <1>0, <1>1 DEF HeldBy, moves
  <1>8. ASSUME NEW j \in DOMAIN new.moves, OwnCursor(new.moves[j])
        PROVE  new.moves[j].cursor # moves[i].cursor /\ new.moves[j].cursor # tab.cursor
    BY <1>1, <1>3, <1>8 DEF CursorsOwn
  <1>9. \A c \in OwnedBy(new) : c # moves[i].cursor /\ c # tab.cursor
    BY <1>8 DEF OwnedBy
  <1>10. ASSUME OwnCursor(moves[i]) PROVE moves[i].cursor \notin HeldBy(new)
    BY <1>0, <1>1, <1>3, <1>10 DEF HeldBy, CursorsOwn
  <1>11. Alone(tab) => new.moves = <<>>
    BY <1>1, <1>3 DEF Alone, moves
  <1>12. ASSUME NEW due, OnCourse(tab, due, paper, table) PROVE OnCourse(new, due, paper, table)
    <2>1. Alone(tab)
      BY <1>12 DEF OnCourse
    <2>2. Len(new.moves) = 0 /\ DOMAIN new.moves = {}
      BY <1>11, <2>1
    <2> QED BY <1>0, <1>12, <2>2 DEF OnCourse, Alone
  <1> QED BY <1>6, <1>7, <1>9, <1>10, <1>11, <1>12 DEF moves

LeavesBehind(tab, i, left, paper, table) ==
    /\ left.moves = RemoveAt(tab.moves, i) /\ SameBut(tab, left, "moves")
    /\ Sound(left, paper, table) /\ HeldBy(left) \subseteq HeldBy(tab)
    /\ \A c \in OwnedBy(left) : c # tab.moves[i].cursor /\ c # tab.cursor
    /\ Alone(tab) => left.moves = <<>>

LEMMA LeftBehind ==
    ASSUME NEW tab, NEW paper, NEW table,
           Sound(tab, paper, table), tab.moves \in Seq(Navigations), NEW i \in DOMAIN tab.moves
    PROVE  \E left : LeavesBehind(tab, i, left, paper, table)
  <1> DEFINE m == RemoveAt(tab.moves, i)
             r == [moves |-> m, cursor |-> tab.cursor, summary |-> tab.summary,
                   position |-> tab.position, saves |-> tab.saves, news |-> tab.news]
  <1>1. r.moves = m /\ SameBut(tab, r, "moves")
    <2> HIDE DEF m
    <2> QED BY DEF SameBut
  <1> HIDE DEF r
  <1>2. /\ Sound(r, paper, table) /\ HeldBy(r) \subseteq HeldBy(tab)
        /\ \A c \in OwnedBy(r) : c # tab.moves[i].cursor /\ c # tab.cursor
        /\ Alone(tab) => r.moves = <<>>
    BY <1>1, GivenUp
  <1> QED BY <1>1, <1>2 DEF LeavesBehind

\* A navigation goes on to its next request, with a cursor that is new or was its own.
Proceeds(tab, i, on, table, after) ==
    /\ NavTrue(on, tab.summary.questions, after) /\ on.fresh /\ on.cursor # NoCursor
    /\ on.here = tab.moves[i].here
    /\ \A c \in HeldBy(tab) : \/ StaysPut(table, after, c)
                              \/ OwnCursor(tab.moves[i]) /\ c = tab.moves[i].cursor
    /\ \/ on.cursor \notin HeldBy(tab)
       \/ OwnCursor(tab.moves[i]) /\ on.cursor = tab.moves[i].cursor

LEMMA GoesOn ==
    ASSUME NEW tab, NEW new, NEW paper, NEW table, NEW after,
           Sound(tab, paper, table), tab.moves \in Seq(Navigations),
           NEW i \in DOMAIN tab.moves, NEW nav \in Navigations,
           new.moves = [tab.moves EXCEPT ![i] = nav], SameBut(tab, new, "moves"),
           Proceeds(tab, i, nav, table, after), NoCursor \notin DOMAIN after
    PROVE  /\ Sound(new, paper, after)
           /\ \A due : OnCourse(tab, due, paper, table) => OnCourse(new, due, paper, after)
           /\ HeldBy(new) \subseteq HeldBy(tab) \cup {nav.cursor}
  <1> DEFINE moves == tab.moves
  <1>0. /\ new.cursor = tab.cursor /\ new.summary = tab.summary
        /\ new.position = tab.position /\ new.saves = tab.saves /\ new.news = tab.news
    BY DEF SameBut
  <1>14. /\ NavTrue(nav, tab.summary.questions, after) /\ nav.fresh /\ nav.cursor # NoCursor
         /\ nav.here = tab.moves[i].here
         /\ \A c \in HeldBy(tab) : \/ StaysPut(table, after, c)
                                   \/ OwnCursor(tab.moves[i]) /\ c = tab.moves[i].cursor
         /\ \/ nav.cursor \notin HeldBy(tab)
            \/ OwnCursor(tab.moves[i]) /\ nav.cursor = tab.moves[i].cursor
    BY DEF Proceeds
  <1>1. /\ new.moves \in Seq(Navigations) /\ Len(new.moves) = Len(moves)
        /\ DOMAIN new.moves = DOMAIN moves /\ new.moves[i] = nav
        /\ \A j \in DOMAIN moves \ {i} : new.moves[j] = moves[j]
    OBVIOUS
  <1>2. CursorsOwn(moves, tab.cursor) /\ i \in DOMAIN moves
    BY DEF Sound
  <1>13. Len(moves) <= 1 => DOMAIN moves = {i}
    OBVIOUS
  <1> HIDE DEF moves
  <1>3. \A j \in DOMAIN moves : moves[j].cursor \in HeldBy(tab) \cup {NoCursor}
    BY DEF HeldBy, moves
  <1>4. tab.cursor \in HeldBy(tab) \cup {NoCursor}
    BY DEF HeldBy
  <1>5. nav.cursor # tab.cursor /\ \A j \in DOMAIN moves \ {i} : moves[j].cursor # nav.cursor
    BY <1>2, <1>3, <1>4, <1>14 DEF CursorsOwn, moves
  <1>6. CursorsOwn(new.moves, new.cursor)
    BY <1>0, <1>1, <1>2, <1>5 DEF CursorsOwn
  <1>7. ASSUME NEW j \in DOMAIN moves \ {i}
        PROVE  NavTrue(moves[j], tab.summary.questions, after)
    <2>1. NavTrue(moves[j], tab.summary.questions, table)
      BY DEF Sound, moves
    <2>2. \/ moves[j].cursor = NoCursor \/ StaysPut(table, after, moves[j].cursor)
          \/ OwnCursor(moves[i]) /\ moves[j].cursor = moves[i].cursor
      BY <1>3, <1>14 DEF moves
    <2>3. ~(OwnCursor(moves[i]) /\ moves[j].cursor = moves[i].cursor)
      BY <1>2 DEF CursorsOwn
    <2> QED BY <2>1, <2>2, <2>3 DEF NavTrue, Due, StaysPut
  <1>8. \A j \in DOMAIN new.moves : NavTrue(new.moves[j], new.summary.questions, after)
    BY <1>0, <1>1, <1>7, <1>14
  <1>9. tab.cursor = NoCursor \/ StaysPut(table, after, tab.cursor)
    BY <1>2, <1>4, <1>14 DEF CursorsOwn, moves
  <1>10. ASSUME NEW due, OnCourse(tab, due, paper, table) PROVE OnCourse(new, due, paper, after)
    <2>1. Len(new.moves) <= 1 /\ DOMAIN new.moves = {i}
      BY <1>1, <1>10, <1>13 DEF OnCourse, Alone, moves
    <2>2. nav.stage = "read" => Due(after, nav.cursor, nav.index)
      BY <1>14 DEF NavTrue
    <2>3. tab.cursor \in DOMAIN after => after[tab.cursor] = due
      BY <1>9, <1>10 DEF OnCourse, StaysPut
    <2>4. ~nav.here => tab.cursor = NoCursor
      BY <1>2, <1>10, <1>14 DEF OnCourse, moves
    <2> QED BY <1>0, <1>1, <1>10, <2>1, <2>2, <2>3, <2>4 DEF OnCourse, Alone
  <1>11. HeldBy(new) \subseteq HeldBy(tab) \cup {nav.cursor}
    BY <1>0, <1>1, <1>3, <1>4 DEF HeldBy
  <1> QED BY <1>0, <1>6, <1>8, <1>10, <1>11 DEF Sound

\* The index of the read a navigation makes.
PlaceOf(table, c) == IF c \in DOMAIN table THEN table[c] ELSE 0

ReadGives(nav, paper, table, after, next, question) ==
    /\ nav.cursor = NoCursor \/ nav.cursor \in DOMAIN table
    /\ next # NoCursor => after[next] = PlaceOf(table, nav.cursor) + 1
    /\ question.position = paper[PlaceOf(table, nav.cursor)]

\* What a read does to the session of the tab that sent it.
ReadStep(tab, nav, paper, table, after, next, question) ==
    /\ Sound(tab, paper, table)
    /\ NoCursor \notin DOMAIN table /\ NoCursor \notin DOMAIN after
    /\ \A c \in HeldBy(tab) \ {nav.cursor} : StaysPut(table, after, c)
    /\ next \in {NoCursor, nav.cursor} \/ next \notin HeldBy(tab)
    /\ ReadGives(nav, paper, table, after, next, question)
    /\ next = NoCursor <=> PlaceOf(table, nav.cursor) + 1 \notin DOMAIN paper
    /\ next = NoCursor => after = table

Settles(tab, nav) == nav.here /\ nav.fresh /\ tab.watched /\ Len(tab.moves) = 1

LastRead(nav) == nav.stage = "read" \/ (nav.stage = "replay" /\ nav.at = nav.index)

\* A page that was left is due where it was, which is nowhere.
DueAfter(nav, due) == IF nav.here THEN nav.index + 1 ELSE due

ArrivesAs(tab, new, i, next, question) ==
    /\ new.moves = RemoveAt(tab.moves, i) /\ new.saves = tab.saves /\ new.news = tab.news
    /\ new.cursor = IF tab.moves[i].here THEN next ELSE tab.cursor
    /\ new.summary.questions = tab.summary.questions
    /\ new.summary.index = tab.moves[i].index /\ new.summary.question = question
    /\ new.position = IF i = Len(tab.moves) /\ tab.watched
                      THEN [index |-> tab.moves[i].index, question |-> question]
                      ELSE tab.position

\* The last read of a navigation is answered: the question is that of its index, unless
\* the course was adrift.
LEMMA Arrives ==
    ASSUME NEW tab, NEW new, NEW paper, NEW table, NEW after,
           tab.moves \in Seq(Navigations), NEW i \in DOMAIN tab.moves,
           NEW nav \in Navigations, nav = tab.moves[i], LastRead(nav),
           NEW next, NEW question, ReadStep(tab, nav, paper, table, after, next, question),
           ArrivesAs(tab, new, i, next, question)
    PROVE  /\ Sound(new, paper, after)
           /\ HeldBy(new) \subseteq HeldBy(tab) \cup {next}
           /\ \A due : OnCourse(tab, due, paper, table) \/ Settles(tab, nav)
                       => OnCourse(new, DueAfter(nav, due), paper, after)
  <1> DEFINE moves == tab.moves
  <1>0. /\ Sound(tab, paper, table)
        /\ NoCursor \notin DOMAIN table /\ NoCursor \notin DOMAIN after
        /\ \A c \in HeldBy(tab) \ {nav.cursor} : StaysPut(table, after, c)
        /\ next \in {NoCursor, nav.cursor} \/ next \notin HeldBy(tab)
        /\ ReadGives(nav, paper, table, after, next, question)
    BY DEF ReadStep
  <1>1. PICK left : LeavesBehind(tab, i, left, paper, table)
    BY <1>0, LeftBehind
  <1>2. /\ Sound(left, paper, table) /\ HeldBy(left) \subseteq HeldBy(tab)
        /\ \A c \in OwnedBy(left) : c # nav.cursor /\ c # tab.cursor
        /\ Alone(tab) => left.moves = <<>>
    BY <1>1 DEF LeavesBehind
  <1>10. /\ new.moves = left.moves /\ new.saves = left.saves /\ new.news = left.news
         /\ left.cursor = tab.cursor
         /\ new.cursor = IF nav.here THEN next ELSE tab.cursor
         /\ new.summary.questions = left.summary.questions
    BY <1>1 DEF LeavesBehind, ArrivesAs, SameBut
  <1>3. Sound(left, paper, after)
    <2>1. \A c \in OwnedBy(left) : StaysPut(table, after, c)
      BY <1>0, <1>2, OwnedIsHeld
    <2> QED BY <1>2, <2>1, StaysSound
  <1>4. ASSUME NEW j \in DOMAIN left.moves, OwnCursor(left.moves[j])
        PROVE  left.moves[j].cursor # next
    <2>1. left.moves[j].cursor \in OwnedBy(left) /\ left.moves[j].cursor \in HeldBy(left)
      BY <1>4 DEF OwnedBy, HeldBy, OwnCursor
    <2>2. left.moves[j].cursor # NoCursor
      BY <1>4 DEF OwnCursor
    <2> QED BY <1>0, <1>2, <2>1, <2>2
  <1>5. CursorsOwn(new.moves, new.cursor)
    BY <1>3, <1>4, <1>10 DEF Sound, CursorsOwn
  <1>6. Sound(new, paper, after)
    BY <1>3, <1>5, <1>10 DEF Sound
  <1>7. Len(moves) \in Nat /\ Len(moves) >= 1 /\ (Len(moves) = 1 => i = Len(moves))
    <2>1. moves \in Seq(Navigations) /\ i \in DOMAIN moves
      OBVIOUS
    <2> HIDE DEF moves
    <2>2. Len(moves) \in Nat /\ DOMAIN moves = 1..Len(moves)
      BY <2>1
    <2> QED BY <2>1, <2>2
  <1> HIDE DEF moves
  <1>8. ASSUME NEW due, OnCourse(tab, due, paper, table) \/ Settles(tab, nav)
        PROVE  OnCourse(new, DueAfter(nav, due), paper, after)
    <2>9. Alone(tab)
      <3>1. Len(moves) = 1 => Alone(tab)
        BY DEF Alone, moves
      <3> QED BY <1>8, <3>1 DEF OnCourse, Settles, moves
    <2>1. Len(moves) = 1 /\ i = Len(moves)
      <3> DEFINE n == Len(moves)
      <3>1. n \in Nat /\ n >= 1 /\ n <= 1 /\ (n = 1 => i = n)
        BY <1>7, <2>9 DEF Alone, moves
      <3> HIDE DEF n
      <3>2. n = 1 /\ i = n
        BY <3>1
      <3> QED BY <3>2 DEF n
    <2>2. new.moves = <<>>
      BY <1>2, <1>10, <2>9
    <2>3. Len(new.moves) = 0 /\ DOMAIN new.moves = {}
      BY <2>2
    <2>4. PlaceOf(table, nav.cursor) = nav.index
      <3>1. NavTrue(nav, tab.summary.questions, table)
        BY <1>0 DEF Sound
      <3>2. nav.stage = "read" => nav.fresh \/ Due(table, nav.cursor, nav.index)
        BY <1>8 DEF OnCourse, Settles
      <3> QED BY <1>0, <3>1, <3>2 DEF NavTrue, Due, PlaceOf, ReadGives, LastRead
    <2>5. question.position = paper[nav.index]
      BY <1>0, <2>4 DEF ReadGives
    <2>6. LabelOf(paper, new.summary)
      BY <2>5 DEF LabelOf, ArrivesAs
    <2>7. LabelOf(paper, new.position)
      <3>1. CASE tab.watched
        BY <2>1, <2>5, <3>1 DEF LabelOf, ArrivesAs, moves
      <3>2. CASE ~tab.watched
        BY <1>8, <3>2 DEF OnCourse, ArrivesAs, Settles
      <3> QED BY <3>1, <3>2
    <2>8. new.cursor \in DOMAIN after => after[new.cursor] = DueAfter(nav, due)
      <3>1. CASE nav.here
        BY <1>0, <1>10, <2>4, <3>1 DEF ReadGives, DueAfter
      <3>2. CASE ~nav.here
        BY <1>0, <1>8, <1>10, <3>2 DEF OnCourse, Settles
      <3> QED BY <3>1, <3>2
    <2> QED BY <2>3, <2>6, <2>7, <2>8 DEF OnCourse, Alone
  <1>9. HeldBy(new) \subseteq HeldBy(tab) \cup {next}
    <2>1. \A j \in DOMAIN left.moves : left.moves[j].cursor \in HeldBy(left) \cup {NoCursor}
      BY DEF HeldBy
    <2>2. HeldBy(new) \subseteq
            {next, tab.cursor} \cup {left.moves[j].cursor : j \in DOMAIN left.moves}
      BY <1>10 DEF HeldBy
    <2>3. NoCursor \notin HeldBy(new) /\ tab.cursor \in HeldBy(tab) \cup {NoCursor}
      BY DEF HeldBy
    <2> QED BY <1>2, <2>1, <2>2, <2>3
  <1> QED BY <1>6, <1>8, <1>9 DEF moves

\* ... or its response is lost.
LEMMA LosesRead ==
    ASSUME NEW tab, NEW new, NEW paper, NEW table, NEW after,
           Sound(tab, paper, table), tab.moves \in Seq(Navigations),
           NEW i \in DOMAIN tab.moves, NEW nav \in Navigations, nav = tab.moves[i],
           nav.stage \in {"read", "replay"}, NoCursor \notin DOMAIN after,
           \A c \in HeldBy(tab) \ {nav.cursor} : StaysPut(table, after, c),
           new.moves = RemoveAt(tab.moves, i), SameBut(tab, new, "moves")
    PROVE  /\ Sound(new, paper, after) /\ HeldBy(new) \subseteq HeldBy(tab)
           /\ \A due : /\ OnCourse(tab, due, paper, table)
                       /\ ~nav.here \/ nav.fresh \/ after = table
                       => OnCourse(new, due, paper, after)
  <1>0. /\ Sound(new, paper, table) /\ HeldBy(new) \subseteq HeldBy(tab)
        /\ \A c \in OwnedBy(new) : c # tab.moves[i].cursor /\ c # tab.cursor
        /\ OwnCursor(tab.moves[i]) => tab.moves[i].cursor \notin HeldBy(new)
        /\ \A due : OnCourse(tab, due, paper, table) => OnCourse(new, due, paper, table)
        /\ Alone(tab) => new.moves = <<>>
    BY GivenUp
  <1>1. /\ Sound(new, paper, table) /\ HeldBy(new) \subseteq HeldBy(tab)
        /\ \A c \in OwnedBy(new) : c # nav.cursor
        /\ OwnCursor(nav) => nav.cursor \notin HeldBy(new)
        /\ \A due : OnCourse(tab, due, paper, table) => OnCourse(new, due, paper, table)
    BY <1>0
  <1>2. Sound(new, paper, after)
    <2>1. \A c \in OwnedBy(new) : StaysPut(table, after, c)
      BY <1>1, OwnedIsHeld
    <2> QED BY <1>1, <2>1, StaysSound
  <1>3. ASSUME NEW due, OnCourse(new, due, paper, table), nav.fresh
        PROVE  OnCourse(new, due, paper, after)
    <2>1. nav.cursor \notin HeldBy(new)
      BY <1>1, <1>3 DEF OwnCursor, HeldBy
    <2> QED BY <1>1, <1>3, <2>1, StaysOnCourse
  <1>4. ASSUME NEW due, OnCourse(tab, due, paper, table), ~nav.here
        PROVE  OnCourse(new, due, paper, after)
    <2>1. tab.cursor = NoCursor /\ Alone(tab)
      BY <1>4 DEF OnCourse
    <2>2. new.moves = <<>> /\ DOMAIN new.moves = {} /\ new.cursor = NoCursor
      BY <1>0, <2>1 DEF SameBut
    <2>3. HeldBy(new) = {}
      BY <2>2 DEF HeldBy
    <2> QED BY <1>1, <1>4, <2>3, StaysOnCourse
  <1> QED BY <1>1, <1>2, <1>3, <1>4

\* A page that is left forgets its cursor, and its navigations know.
Departs(tab, new) ==
    new.moves = [i \in DOMAIN tab.moves |-> [tab.moves[i] EXCEPT !.here = FALSE]]

LEMMA Leaves ==
    ASSUME NEW tab, NEW new, NEW paper, NEW table, NoCursor \notin DOMAIN table,
           Sound(tab, paper, table), tab.moves \in Seq(Navigations),
           Departs(tab, new), new.cursor = NoCursor, new.position = NoPosition,
           new.summary = tab.summary, new.news = tab.news, Onward(new.saves, tab.summary.questions)
    PROVE  /\ Sound(new, paper, table) /\ HeldBy(new) \subseteq HeldBy(tab)
           /\ \A due : OnCourse(tab, due, paper, table) => OnCourse(new, due, paper, table)
  <1> DEFINE moves == tab.moves
  <1>1. DOMAIN new.moves = DOMAIN moves /\ Len(new.moves) = Len(moves)
    BY DEF Departs
  <1>2. ASSUME NEW i \in DOMAIN moves
        PROVE  /\ new.moves[i].index = moves[i].index /\ new.moves[i].stage = moves[i].stage
               /\ new.moves[i].cursor = moves[i].cursor /\ new.moves[i].at = moves[i].at
               /\ new.moves[i].fresh = moves[i].fresh
    <2>1. PICK nav : nav = moves[i]
      OBVIOUS
    <2>2. nav \in Navigations /\ new.moves[i] = [nav EXCEPT !.here = FALSE]
      BY <2>1 DEF Departs
    <2> HIDE DEF moves
    <2> QED BY <2>1, <2>2 DEF Navigations
  <1> HIDE DEF moves
  <1>3. \A i \in DOMAIN moves : NavTrue(new.moves[i], tab.summary.questions, table)
    BY <1>2 DEF Sound, NavTrue, moves
  <1>4. CursorsOwn(new.moves, new.cursor)
    BY <1>1, <1>2 DEF Sound, CursorsOwn, OwnCursor, moves
  <1>5. HeldBy(new) \subseteq HeldBy(tab)
    BY <1>1, <1>2 DEF HeldBy, moves
  <1>6. Sound(new, paper, table)
    BY <1>1, <1>3, <1>4 DEF Sound
  <1>7. ASSUME NEW due, OnCourse(tab, due, paper, table) PROVE OnCourse(new, due, paper, table)
    <2>1. LabelOf(paper, new.position)
      BY DEF LabelOf, NoPosition
    <2> QED BY <1>1, <1>2, <1>7, <2>1 DEF OnCourse, Alone, moves
  <1> QED BY <1>5, <1>6, <1>7

\* A page that loads shows what the server says.
LEMMA Loads ==
    ASSUME NEW new, NEW paper, NEW table, NoCursor \notin DOMAIN table,
           new.moves = <<>>, new.cursor = NoCursor, new.position = NoPosition,
           Onward(new.saves, new.summary.questions), new.news = None,
           new.summary.questions \in Nat,
           DOMAIN paper = 0..(new.summary.questions - 1), LabelOf(paper, new.summary)
    PROVE  /\ Sound(new, paper, table) /\ OnCourse(new, 0, paper, table)
           /\ HeldBy(new) = {}
  <1>1. DOMAIN new.moves = {} /\ Len(new.moves) = 0
    OBVIOUS
  <1> QED BY <1>1 DEF Sound, OnCourse, Alone, CursorsOwn, LabelOf, NoPosition,
            HeldBy, NewsTrue

\* Its summary is fetched again, or only its answers change.
IdlesTo(tab, new, paper) ==
    /\ \/ new.summary = tab.summary
       \/ /\ new.summary.questions = tab.summary.questions
          /\ LabelOf(paper, new.summary)
    /\ Onward(new.saves, tab.summary.questions)
    /\ NewsTrue(new.news, tab.summary.questions, paper)

LEMMA Idles ==
    ASSUME NEW tab, NEW new, NEW paper, NEW table, Sound(tab, paper, table),
           new.moves = tab.moves, new.cursor = tab.cursor, new.position = tab.position,
           IdlesTo(tab, new, paper)
    PROVE  /\ Sound(new, paper, table) /\ HeldBy(new) = HeldBy(tab)
           /\ \A due : OnCourse(tab, due, paper, table) => OnCourse(new, due, paper, table)
  BY DEF Sound, OnCourse, Alone, HeldBy, IdlesTo
-------------------------------------------------------------------------------
(***************************************************************************)
(* What the server contributes: papers without gaps that never change, a   *)
(* current question that is the one of its index, and requests that move   *)
(* the cursor they present, and one they mint, and no other.               *)
(***************************************************************************)
SessionsTrue ==
    \A id \in DOMAIN sessionsStore :
      /\ \E n \in Nat : DOMAIN sessionsStore[id].paper = 0..n
      /\ sessionsStore[id].index \in Nat =>
           sessionsStore[id].question.position = sessionsStore[id].paper[sessionsStore[id].index]

CursorsMove(S) ==
    \A id \in DOMAIN sessionsStore' : id \in 1..sessionCount =>
      /\ id \in DOMAIN sessionsStore
      /\ sessionsStore'[id].paper = sessionsStore[id].paper
      /\ \A c : c \notin S => StaysPut(sessionsStore[id].cursors, sessionsStore'[id].cursors, c)

LEMMA NoGaps ==
    ASSUME NEW e \in Exams, NEW opts, NEW accept, NEW paper \in Papers(e, opts, accept),
           paper # <<>>
    PROVE  \E n \in Nat : DOMAIN paper = 0..n
  <1>1. PICK S \in Draws(e, opts) : paper \in Orders(OfAcceptedType(e, S, accept))
    BY DEF Papers
  <1> DEFINE T == OfAcceptedType(e, S, accept)
             k == Cardinality(T)
  <1>2. k \in Nat
    <2>1. T \subseteq S
      BY DEF OfAcceptedType
    <2> HIDE DEF T
    <2>2. IsFiniteSet(T)
      BY <2>1, DrawsFacts, FS_Subset
    <2> QED BY <2>2, FS_CardinalityType
  <1>3. DOMAIN paper = 0..(k - 1)
    BY <1>1 DEF Orders, Bijection, Injection
  <1>4. 0 \in DOMAIN paper
    BY PaperFacts
  <1> HIDE DEF k
  <1>5. k - 1 \in Nat
    BY <1>2, <1>3, <1>4
  <1> QED BY <1>3, <1>5

LEMMA ReadDetail ==
    ASSUME TypeOK, NEW u, NEW id, NEW cursor, GetNextQuestion(u, id, cursor)
    PROVE  LET old  == sessionsStore[id]
               new  == sessionsStore'[id]
               idx  == PlaceOf(old.cursors, cursor)
               next == NextCursor(id, cursor)
           IN  /\ WorksOn(id) /\ idx \in DOMAIN old.paper /\ new.index = idx
               /\ cursor = NoCursor \/ cursor \in DOMAIN old.cursors
               /\ next = NoCursor <=> idx + 1 \notin DOMAIN old.paper
               /\ IF next = NoCursor THEN new.cursors = old.cursors
                  ELSE new.cursors = Store(old.cursors, next, idx + 1)
               /\ \/ next = NoCursor /\ cursorCount' = cursorCount
                  \/ cursor = NoCursor /\ next = cursorCount + 1
                     /\ cursorCount' = cursorCount + 1
                  \/ next = cursor /\ cursorCount' = cursorCount
               /\ KeyAt(old, idx) \in DOMAIN new.cached
               /\ new.question = new.cached[KeyAt(old, idx)]
  <1> DEFINE old  == sessionsStore[id]
             idx  == IndexOf(old, cursor)
             more == idx + 1 \in DOMAIN old.paper
             mint == more /\ cursor = NoCursor
             new1 == IF mint THEN cursorCount + 1 ELSE cursor
             table == IF more THEN Store(old.cursors, new1, idx + 1) ELSE old.cursors
             key == KeyAt(old, idx)
  <1>1. /\ id \in DOMAIN sessionsStore /\ IsSession(old)
        /\ idx \in DOMAIN old.paper /\ CursorAccepted(old, cursor)
        /\ cursorCount \in Nat /\ DOMAIN old.cursors \subseteq 1..cursorCount
    BY TypeFacts DEF GetNextQuestion, Owns
  <1>2. idx = PlaceOf(old.cursors, cursor)
    BY DEF IndexOf, PlaceOf
  <1>3. PICK q : sessionsStore' = Store(sessionsStore, id,
            [old EXCEPT !.cached = Store(@, key, q), !.cursors = table, !.index = idx,
                        !.question = q])
    BY DEF GetNextQuestion, KeyAt
  <1> DEFINE new == [old EXCEPT !.cached = Store(@, key, q), !.cursors = table,
                                !.index = idx, !.question = q]
  <1>4. /\ new.index = idx /\ new.cursors = table /\ new.question = q
        /\ new.cached = Store(old.cached, key, q)
    <2> HIDE DEF old, table, idx, key
    <2> QED BY <1>1 DEF IsSession
  <1>5. sessionsStore'[id] = new
    <2>1. sessionsStore' = Store(sessionsStore, id, new)
      BY <1>3
    <2> HIDE DEF new
    <2> QED BY <1>1, <2>1, ReplaceFacts
  <1>6. cursorCount' = IF mint THEN cursorCount + 1 ELSE cursorCount
    BY DEF GetNextQuestion
  <1>7. NextCursor(id, cursor) = IF more THEN new1 ELSE NoCursor
    BY DEF NextCursor
  <1>8. cursor = NoCursor \/ cursor \in DOMAIN old.cursors
    BY <1>1 DEF CursorAccepted
  <1>9. more => new1 # NoCursor
    BY <1>1, <1>8, CursorAssumption
  <1>10. KeyAt(old, idx) \in DOMAIN new.cached /\ new.question = new.cached[KeyAt(old, idx)]
    <2> HIDE DEF new, old, idx
    <2> QED BY <1>4 DEF Store
  <1>11. WorksOn(id)
    BY GetNextSummary
  <1> HIDE DEF new, old, idx, more
  <1> QED BY <1>1, <1>2, <1>4, <1>5, <1>6, <1>7, <1>8, <1>9, <1>10, <1>11
          DEF old, mint, new1, table, more

\* A command on a session that does not serve a question leaves its current one.
LEMMA WorkStaysTrue ==
    ASSUME NEW id, WorksOn(id), SessionsTrue,
           sessionsStore'[id].index = sessionsStore[id].index,
           sessionsStore'[id].question = sessionsStore[id].question
    PROVE  SessionsTrue'
  <1>1. ASSUME NEW i \in DOMAIN sessionsStore
        PROVE /\ sessionsStore'[i].paper = sessionsStore[i].paper
              /\ sessionsStore'[i].index = sessionsStore[i].index
              /\ sessionsStore'[i].question = sessionsStore[i].question
    <2>1. CASE i = id
      BY <2>1 DEF WorksOn
    <2>2. CASE i # id
      BY <2>2 DEF WorksOn
    <2> QED BY <2>1, <2>2
  <1>2. DOMAIN sessionsStore' = DOMAIN sessionsStore
    BY DEF WorksOn
  <1> QED BY <1>1, <1>2 DEF SessionsTrue

LEMMA SeekDetail ==
    ASSUME TypeOK, NEW u, NEW id, NEW cursor, NEW i, SeekCursorTo(u, id, cursor, i)
    PROVE  /\ sessionsStore'[id].index = sessionsStore[id].index
           /\ sessionsStore'[id].question = sessionsStore[id].question
           /\ sessionsStore'[id].cursors =
                Delete(Store(sessionsStore[id].cursors, cursorCount + 1, i), cursor)
           /\ WorksOn(id) /\ cursorCount' = cursorCount + 1
  <1> DEFINE old   == sessionsStore[id]
             table == Delete(Store(old.cursors, cursorCount + 1, i), cursor)
             new   == [old EXCEPT !.cursors = table]
  <1>1. id \in DOMAIN sessionsStore /\ IsSession(old)
    BY TypeFacts DEF SeekCursorTo, Owns
  <1>2. sessionsStore' = Store(sessionsStore, id, new)
    BY DEF SeekCursorTo
  <1>3. new.index = old.index /\ new.question = old.question /\ new.cursors = table
    <2> HIDE DEF old, table
    <2> QED BY <1>1 DEF IsSession
  <1> HIDE DEF new
  <1>4. sessionsStore'[id] = new
    BY <1>1, <1>2, ReplaceFacts
  <1> QED BY <1>3, <1>4, SeekSummary

LEMMA SubmitDetail ==
    ASSUME TypeOK, NEW u, NEW id, NEW answer, NEW checkOnly \in BOOLEAN,
           SubmitAnswer(u, id, answer, checkOnly)
    PROVE  /\ sessionsStore'[id].index = sessionsStore[id].index
           /\ sessionsStore'[id].question = sessionsStore[id].question
           /\ sessionsStore'[id].cursors = sessionsStore[id].cursors
           /\ WorksOn(id)
  <1> DEFINE old  == sessionsStore[id]
             kept == AnswerKept(old, answer, checkOnly)
             new  == [old EXCEPT !.answer = kept]
  <1>1. id \in DOMAIN sessionsStore /\ IsSession(old)
    BY TypeFacts DEF SubmitAnswer, Owns
  <1>2. sessionsStore' = Store(sessionsStore, id, new)
    BY DEF SubmitAnswer
  <1>3. new.index = old.index /\ new.question = old.question /\ new.cursors = old.cursors
    <2> HIDE DEF old, kept
    <2> QED BY <1>1 DEF IsSession
  <1> HIDE DEF new
  <1>4. sessionsStore'[id] = new
    BY <1>1, <1>2, ReplaceFacts
  <1> QED BY <1>3, <1>4, SubmitSummary

LEMMA StartDetail ==
    ASSUME TypeOK, NEW u, NEW e \in Exams, NEW options, NEW accept,
           StartNewExamSession(u, e, options, accept)
    PROVE  LET id == sessionCount + 1 IN
           /\ DOMAIN sessionsStore' = DOMAIN sessionsStore \cup {id}
           /\ \A i \in DOMAIN sessionsStore : sessionsStore'[i] = sessionsStore[i]
           /\ \E n \in Nat : DOMAIN sessionsStore'[id].paper = 0..n
           /\ sessionsStore'[id].index = -1
  <1> DEFINE id   == sessionCount + 1
             opts == SessionOptions(u, options)
  <1>1. PICK paper \in Papers(e, opts, accept) :
          /\ paper # <<>>
          /\ sessionsStore' = Store(sessionsStore, id, NewExamSession(u, e, opts, paper))
    BY DEF StartNewExamSession
  <1> DEFINE new == NewExamSession(u, e, opts, paper)
  <1>2. new.paper = paper /\ new.index = -1
    BY DEF NewExamSession
  <1>3. id \notin DOMAIN sessionsStore
    BY TypeFacts
  <1>4. \E n \in Nat : DOMAIN paper = 0..n
    BY <1>1, NoGaps
  <1>5. /\ DOMAIN sessionsStore' = DOMAIN sessionsStore \cup {id}
        /\ sessionsStore'[id] = new
        /\ \A i \in DOMAIN sessionsStore : sessionsStore'[i] = sessionsStore[i]
    <2> HIDE DEF new, id
    <2> QED BY <1>1, <1>3 DEF Store, new
  <1> HIDE DEF new
  <1> QED BY <1>2, <1>4, <1>5

\* What is served has its place in the paper, if the ids of the questions are unique.
LEMMA NextTrue ==
    ASSUME TypeOK, TypeOK', CopiesAreTrue', SessionsTrue, [Next]_vars
    PROVE  SessionsTrue'
  <1>1. ASSUME NEW u \in Users, NEW e \in Exams, NEW options \in OptionChoices, NEW accept,
               StartNewExamSession(u, e, options, accept)
        PROVE  SessionsTrue'
    BY <1>1, StartDetail DEF SessionsTrue
  <1>2. ASSUME NEW u, NEW id, NEW c, GetNextQuestion(u, id, c) PROVE SessionsTrue'
    <2> DEFINE old == sessionsStore[id]
               new == sessionsStore'[id]
               idx == PlaceOf(old.cursors, c)
    <2>1. /\ WorksOn(id) /\ idx \in DOMAIN old.paper /\ new.index = idx
          /\ KeyAt(old, idx) \in DOMAIN new.cached
          /\ new.question = new.cached[KeyAt(old, idx)]
      BY <1>2, ReadDetail
    <2>2. IsSession(old) /\ old.paper[idx] \in AllPositions(old.exam)
      <3>1. IsSession(old)
        BY <2>1, TypeFacts DEF WorksOn
      <3> HIDE DEF old, idx
      <3> QED BY <2>1, <3>1 DEF IsSession
    <2>3. new.exam = old.exam /\ new.paper = old.paper /\ id \in DOMAIN sessionsStore'
      BY <2>1 DEF WorksOn
    <2>4. new.question.position = new.paper[new.index]
      BY <2>1, <2>2, <2>3 DEF CopiesAreTrue, KeyAt
    <2>5. \A i \in DOMAIN sessionsStore \ {id} : sessionsStore'[i] = sessionsStore[i]
      BY <2>1 DEF WorksOn
    <2>6. DOMAIN sessionsStore' = DOMAIN sessionsStore
      BY <2>1 DEF WorksOn
    <2> HIDE DEF idx
    <2> QED BY <2>3, <2>4, <2>5, <2>6 DEF SessionsTrue
  <1>3. ASSUME NEW u, NEW id, NEW c, NEW i, SeekCursorTo(u, id, c, i) PROVE SessionsTrue'
    BY <1>3, SeekDetail, WorkStaysTrue
  <1>4. ASSUME NEW u, NEW id, NEW a, NEW checkOnly \in BOOLEAN, SubmitAnswer(u, id, a, checkOnly)
        PROVE  SessionsTrue'
    BY <1>4, SubmitDetail, WorkStaysTrue
  <1>5. ASSUME NEW u, NEW id, EndExamSession(u, id) PROVE SessionsTrue'
    <2>1. /\ DOMAIN sessionsStore' = DOMAIN sessionsStore \ {id}
          /\ \A i \in DOMAIN sessionsStore' : sessionsStore'[i] = sessionsStore[i]
      BY <1>5, EndSummary
    <2> QED BY <2>1 DEF SessionsTrue
  <1>6. ASSUME \/ UNCHANGED vars \/ \E u, id : EndExamSessionFails(u, id)
        PROVE  SessionsTrue'
    <2>1. UNCHANGED sessionsStore
      BY <1>6 DEF EndExamSessionFails, AfterFailedReport, vars, serverVars
    <2> QED BY <2>1 DEF SessionsTrue
  <1> QED BY <1>1, <1>2, <1>3, <1>4, <1>5, <1>6 DEF Next

\* Of the cursors, a read and a reposition touch the one presented and a new one.
LEMMA ReadTouches ==
    ASSUME TypeOK, NEW u, NEW id, NEW cursor, GetNextQuestion(u, id, cursor)
    PROVE  CursorsMove({cursor, cursorCount + 1})
  <1> DEFINE old  == sessionsStore[id]
             new  == sessionsStore'[id]
             next == NextCursor(id, cursor)
             k    == PlaceOf(old.cursors, cursor) + 1
  <1>1. /\ WorksOn(id)
        /\ \/ new.cursors = old.cursors
           \/ new.cursors = Store(old.cursors, next, k)
        /\ next \in {NoCursor, cursor, cursorCount + 1}
        /\ next = NoCursor => new.cursors = old.cursors
    BY ReadDetail
  <1> HIDE DEF next, k
  <1>2. \A c : c \notin {cursor, cursorCount + 1} => StaysPut(old.cursors, new.cursors, c)
    BY <1>1 DEF StaysPut, Store
  <1>3. \A i \in DOMAIN sessionsStore \ {id} : \A c :
          StaysPut(sessionsStore[i].cursors, sessionsStore'[i].cursors, c)
    BY <1>1 DEF StaysPut, WorksOn
  <1> QED BY <1>1, <1>2, <1>3 DEF WorksOn, CursorsMove

LEMMA SeekTouches ==
    ASSUME TypeOK, NEW u, NEW id, NEW cursor, NEW i, SeekCursorTo(u, id, cursor, i)
    PROVE  CursorsMove({cursor, cursorCount + 1})
  <1> DEFINE old  == sessionsStore[id]
             new  == sessionsStore'[id]
  <1>1. WorksOn(id) /\ new.cursors = Delete(Store(old.cursors, cursorCount + 1, i), cursor)
    BY SeekDetail
  <1>2. \A c : c \notin {cursor, cursorCount + 1} => StaysPut(old.cursors, new.cursors, c)
    BY <1>1 DEF StaysPut, Store, Delete, Restrict
  <1>3. \A x \in DOMAIN sessionsStore \ {id} : \A c :
          StaysPut(sessionsStore[x].cursors, sessionsStore'[x].cursors, c)
    BY <1>1 DEF StaysPut, WorksOn
  <1> QED BY <1>1, <1>2, <1>3 DEF WorksOn, CursorsMove

\* The other requests touch none.
LEMMA OthersTouchNone ==
    ASSUME TypeOK,
           \/ UNCHANGED sessionsStore
           \/ \E u \in Users, e \in Exams, options \in OptionChoices : \E accept :
                StartNewExamSession(u, e, options, accept)
           \/ \E u, id, a : \E checkOnly \in BOOLEAN : SubmitAnswer(u, id, a, checkOnly)
           \/ \E u, id : EndExamSession(u, id)
    PROVE  CursorsMove({})
  <1>0. sessionCount \in Nat
    BY TypeFacts
  <1>1. CASE UNCHANGED sessionsStore
    BY <1>1 DEF CursorsMove, StaysPut
  <1>2. ASSUME NEW u \in Users, NEW e \in Exams, NEW options \in OptionChoices, NEW accept,
               StartNewExamSession(u, e, options, accept)
        PROVE  CursorsMove({})
    <2>1. /\ DOMAIN sessionsStore' = DOMAIN sessionsStore \cup {sessionCount + 1}
          /\ \A i \in DOMAIN sessionsStore : sessionsStore'[i] = sessionsStore[i]
      BY <1>2, StartDetail
    <2>2. sessionCount + 1 \notin 1..sessionCount
      BY <1>0
    <2> QED BY <2>1, <2>2 DEF CursorsMove, StaysPut
  <1>3. ASSUME NEW u, NEW id, NEW a, NEW checkOnly \in BOOLEAN, SubmitAnswer(u, id, a, checkOnly)
        PROVE  CursorsMove({})
    <2>1. /\ WorksOn(id) /\ sessionsStore'[id].cursors = sessionsStore[id].cursors
      BY <1>3, SubmitDetail
    <2> QED BY <2>1 DEF CursorsMove, StaysPut, WorksOn
  <1>4. ASSUME NEW u, NEW id, EndExamSession(u, id) PROVE CursorsMove({})
    BY <1>4, EndSummary DEF CursorsMove, StaysPut
  <1> QED BY <1>1, <1>2, <1>3, <1>4
-------------------------------------------------------------------------------
(***************************************************************************)
(* What is true of each tab, and how a step leaves it.                     *)
(***************************************************************************)
\* Nothing is asked of a page whose session has ended.
Tracks(tab, crs, store) ==
    tab.page \in DOMAIN store =>
      /\ Sound(tab, store[tab.page].paper, store[tab.page].cursors)
      /\ \/ crs.adrift
         \/ OnCourse(tab, crs.due, store[tab.page].paper, store[tab.page].cursors)

TabTracks(t) ==
    \A tab \in {tabs[t]}, crs \in {course[t]}, store \in {sessionsStore} :
      Tracks(tab, crs, store)

Apart(t, x) ==
    \A a \in {tabs[t]}, b \in {tabs[x]} :
      a.page \in DOMAIN sessionsStore /\ b.page \in DOMAIN sessionsStore =>
        HeldBy(a) \cap HeldBy(b) = {}

LabelInv ==
    /\ CopiesAreTrue /\ SessionsTrue
    /\ \A t \in Tabs : TabTracks(t)
    /\ \A t, x \in Tabs : t # x => Apart(t, x)

\* A step of the tab: it still tracks, and what cursors it holds were its own or are new.
Turn(t) ==
    /\ TabTracks(t)'
    /\ \A old \in {tabs[t]}, new \in {tabs'[t]} :
         \/ new.page \notin DOMAIN sessionsStore' \/ HeldBy(new) = {}
         \/ /\ old.page \in DOMAIN sessionsStore
            /\ HeldBy(new) \subseteq HeldBy(old) \cup {cursorCount + 1}
            /\ HeldBy(new) \subseteq HeldBy(old) \/ cursorCount' = cursorCount + 1

LEMMA NoCursorIsNone ==
    ASSUME TypeOK, NEW id \in DOMAIN sessionsStore
    PROVE  NoCursor \notin DOMAIN sessionsStore[id].cursors
  <1>1. DOMAIN sessionsStore[id].cursors \subseteq 1..cursorCount /\ cursorCount \in Nat
    BY TypeFacts
  <1> QED BY <1>1, CursorAssumption

LEMMA NoCursorIsNoneAfter ==
    ASSUME TypeOK', NEW id \in DOMAIN sessionsStore'
    PROVE  NoCursor \notin DOMAIN sessionsStore'[id].cursors
  <1>1. DOMAIN sessionsStore'[id].cursors \subseteq 1..cursorCount' /\ cursorCount' \in Nat
    BY BoundsAssumption DEF TypeOK, SessionsTyped
  <1> QED BY <1>1, CursorAssumption

LEMMA HeldAreHandedOut ==
    ASSUME TypeOK, CInv, NEW t \in Tabs, NEW tab, tab = tabs[t]
    PROVE  HeldBy(tab) \subseteq 1..cursorCount
  <1>2. /\ tab.cursor \in Presentable
        /\ \A i \in DOMAIN tab.moves : tab.moves[i].cursor \in Presentable
    BY TabFacts DEF TabKnows
  <1> QED BY <1>2 DEF HeldBy, Presentable

\* A page that is live after a step was live before, if it was loaded before.
LEMMA LivesOn ==
    ASSUME TypeOK, CInv, NEW S, CursorsMove(S), NEW t \in Tabs, NEW id, id = tabs[t].page,
           TypeOK', id \in DOMAIN sessionsStore'
    PROVE  /\ id \in DOMAIN sessionsStore
           /\ sessionsStore'[id].paper = sessionsStore[id].paper
           /\ \A c : c \notin S =>
                StaysPut(sessionsStore[id].cursors, sessionsStore'[id].cursors, c)
  <1>1. id \in 0..sessionCount /\ sessionCount \in Nat
    BY TabFacts, TypeFacts
  <1>2. id \in 1..sessionCount'
    BY DEF TypeOK, SessionsTyped
  <1>3. id \in 1..sessionCount
    BY <1>1, <1>2
  <1> QED BY <1>3 DEF CursorsMove

\* A tab that does nothing, while a request of another touches cursors it does not hold.
LEMMA Bystander ==
    ASSUME TypeOK, TypeOK', CInv, NEW x \in Tabs, TabTracks(x), NEW S, CursorsMove(S),
           tabs'[x] = tabs[x], course'[x] = course[x],
           \A tab \in {tabs[x]} : tab.page \in DOMAIN sessionsStore => HeldBy(tab) \cap S = {}
    PROVE  TabTracks(x)'
  <1>1. SUFFICES ASSUME NEW tab, tab = tabs[x], NEW crs, crs = course[x],
                        NEW store, store = sessionsStore'
        PROVE Tracks(tab, crs, store)
    BY DEF TabTracks
  <1>2. SUFFICES ASSUME tab.page \in DOMAIN store PROVE Tracks(tab, crs, store)
    BY DEF Tracks
  <1>3. PICK id : id = tab.page
    OBVIOUS
  <1>4. /\ id \in DOMAIN sessionsStore /\ store[id].paper = sessionsStore[id].paper
        /\ \A c : c \notin S => StaysPut(sessionsStore[id].cursors, store[id].cursors, c)
    BY <1>1, <1>2, <1>3, LivesOn
  <1>5. PICK paper, table, after : /\ paper = store[id].paper /\ after = store[id].cursors
                                   /\ table = sessionsStore[id].cursors
    OBVIOUS
  <1>6. Tracks(tab, crs, sessionsStore)
    BY <1>1 DEF TabTracks
  <1>7. Sound(tab, paper, table) /\ (crs.adrift \/ OnCourse(tab, crs.due, paper, table))
    BY <1>3, <1>4, <1>5, <1>6 DEF Tracks
  <1>8. \A c \in HeldBy(tab) : StaysPut(table, after, c)
    BY <1>1, <1>3, <1>4, <1>5
  <1>9. NoCursor \notin DOMAIN after
    BY <1>1, <1>2, <1>3, <1>5, NoCursorIsNoneAfter
  <1>10. Sound(tab, paper, after)
    BY <1>7, <1>8, OwnedIsHeld, StaysSound
  <1>11. crs.adrift \/ OnCourse(tab, crs.due, paper, after)
    BY <1>7, <1>8, <1>9, StaysOnCourse
  <1> QED BY <1>3, <1>5, <1>10, <1>11 DEF Tracks

\* A tab that acts without a request that moves cursors.
LEMMA QuietTurn ==
    ASSUME TypeOK, TypeOK', CInv, NEW t \in Tabs, TabTracks(t), CursorsMove({}),
           NEW tab, NEW new, NEW crs, NEW end, tab = tabs[t], new = tabs'[t],
           crs = course[t], end = course'[t], new.page = tab.page,
           tab.page \in DOMAIN sessionsStore =>
             \A paper \in {sessionsStore[tab.page].paper},
                table \in {sessionsStore[tab.page].cursors} :
               Sound(tab, paper, table) =>
                 /\ Sound(new, paper, table) /\ HeldBy(new) \subseteq HeldBy(tab)
                 /\ crs.adrift \/ OnCourse(tab, crs.due, paper, table)
                    => end.adrift \/ OnCourse(new, end.due, paper, table)
    PROVE  Turn(t)
  <1>1. SUFFICES ASSUME NEW store, store = sessionsStore', tab.page \in DOMAIN store
        PROVE /\ Tracks(new, end, store)
              /\ tab.page \in DOMAIN sessionsStore /\ HeldBy(new) \subseteq HeldBy(tab)
    <2>1. Tracks(new, end, sessionsStore') \/ new.page \in DOMAIN sessionsStore'
      BY DEF Tracks
    <2> QED BY <2>1 DEF Turn, TabTracks
  <1>3. PICK id : id = tab.page
    OBVIOUS
  <1>4. /\ id \in DOMAIN sessionsStore /\ store[id].paper = sessionsStore[id].paper
        /\ \A c : StaysPut(sessionsStore[id].cursors, store[id].cursors, c)
    <2>1. PICK S : S = {} /\ CursorsMove(S)
      OBVIOUS
    <2>2. /\ id \in DOMAIN sessionsStore /\ store[id].paper = sessionsStore[id].paper
          /\ \A c : c \notin S => StaysPut(sessionsStore[id].cursors, store[id].cursors, c)
      BY <1>1, <1>3, <2>1, LivesOn
    <2> QED BY <2>1, <2>2
  <1>5. PICK paper, table, after : /\ paper = store[id].paper /\ after = store[id].cursors
                                   /\ table = sessionsStore[id].cursors
    OBVIOUS
  <1>6. Tracks(tab, crs, sessionsStore)
    BY DEF TabTracks
  <1>7. Sound(tab, paper, table) /\ (crs.adrift \/ OnCourse(tab, crs.due, paper, table))
    BY <1>3, <1>4, <1>5, <1>6 DEF Tracks
  <1>8. /\ Sound(new, paper, table) /\ HeldBy(new) \subseteq HeldBy(tab)
        /\ end.adrift \/ OnCourse(new, end.due, paper, table)
    BY <1>3, <1>4, <1>5, <1>7
  <1>9. NoCursor \notin DOMAIN after
    BY <1>1, <1>3, <1>5, NoCursorIsNoneAfter
  <1>12. \A c : StaysPut(table, after, c)
    BY <1>4, <1>5
  <1>10. Sound(new, paper, after)
    BY <1>8, <1>12, StaysSound
  <1>11. end.adrift \/ OnCourse(new, end.due, paper, after)
    BY <1>8, <1>9, <1>12, StaysOnCourse
  <1> QED BY <1>3, <1>4, <1>5, <1>8, <1>10, <1>11 DEF Tracks

\* Where a move leaves the course of its tab, as it starts and as it ends.
LEMMA CourseStarts ==
    ASSUME course \in [Tabs -> Courses], NEW t \in Tabs, NEW tab, NEW index, NEW seek,
           course' = CourseAtStart(t, tab, index, seek)
    PROVE  /\ course' \in [Tabs -> Courses] /\ course'[t].due = course[t].due
           /\ \A x \in Tabs \ {t} : course'[x] = course[x]
           /\ \/ course'[t].adrift
              \/ /\ ~course[t].adrift /\ tab.moves = <<>>
                 /\ Navigation(tab, index, seek).fresh \/ index = course[t].due
  <1> DEFINE fresh  == Navigation(tab, index, seek).fresh
             adrift == course[t].adrift \/ tab.moves # <<>> \/ (~fresh /\ index # course[t].due)
  <1>1. course' = [course EXCEPT ![t].adrift = adrift]
    BY DEF CourseAtStart
  <1>2. adrift \in BOOLEAN
    OBVIOUS
  <1>3. ~adrift => /\ ~course[t].adrift /\ tab.moves = <<>>
                   /\ fresh \/ index = course[t].due
    OBVIOUS
  <1> HIDE DEF adrift, fresh
  <1>4. course[t] \in Courses
    OBVIOUS
  <1>5. PICK c : c = [course[t] EXCEPT !.adrift = adrift]
    OBVIOUS
  <1>6. c \in Courses /\ c.due = course[t].due /\ c.adrift = adrift
    BY <1>2, <1>4, <1>5 DEF Courses
  <1>7. course' = [course EXCEPT ![t] = c]
    BY <1>1, <1>5
  <1>8. course'[t] = c /\ course' \in [Tabs -> Courses]
        /\ \A x \in Tabs \ {t} : course'[x] = course[x]
    BY <1>6, <1>7
  <1> QED BY <1>3, <1>6, <1>8 DEF fresh

\* Two sets of indexes from 0 are the same only if they are as many.
LEMMA SameCount == \A m, n \in Nat : 0..(m - 1) = 0..(n - 1) => m = n
  <1>1. SUFFICES ASSUME NEW m \in Nat, NEW n \in Nat, m < n, 0..(m - 1) = 0..(n - 1)
        PROVE FALSE
    OBVIOUS
  <1>2. n - 1 \in 0..(n - 1) /\ n - 1 \notin 0..(m - 1)
    BY <1>1
  <1> QED BY <1>1, <1>2

\* What a page that gives up a navigation keeps, and one whose submissions go on.
LEMMA MovesAlone ==
    ASSUME NEW tab, NEW new, Keeps(tab, new, {"moves", "watched"})
    PROVE  new.page = tab.page /\ SameBut(tab, new, "moves")
  BY DEF Keeps, TabFields, SameBut

LEMMA GoOnOnward ==
    ASSUME NEW tab, NEW new, SavesGoOn(tab, new), NEW questions, Onward(tab.saves, questions)
    PROVE  Onward(new.saves, questions)
  <1>1. SUFFICES ASSUME NEW s \in Slots, new.saves[s] # None, new.saves[s].of = "page",
                        ~new.saves[s].last
                 PROVE  new.saves[s].from + 1 < questions
    BY DEF Onward
  <1>2. SameSave(tab.saves[s], new.saves[s])
    BY <1>1 DEF SavesGoOn
  <1>3. PICK old, save : old = tab.saves[s] /\ save = new.saves[s]
    OBVIOUS
  <1>4. /\ old # None /\ save.from = old.from /\ save.last = old.last
        /\ save.of \in {old.of, "tab", "nobody"}
    BY <1>2, <1>3 DEF SameSave, SavingFields
  <1>5. old.of = "page" /\ ~old.last
    BY <1>1, <1>3, <1>4
  <1>6. old.from + 1 < questions
    BY <1>3, <1>4, <1>5 DEF Onward
  <1> QED BY <1>3, <1>4, <1>6

LEMMA PressTurn ==
    ASSUME TypeOK, TypeOK', CInv, LabelInv, NEW t \in Tabs, NEW index, PressMove(t, index)
    PROVE  Turn(t)
  <1>1. PICK tab, new, crs, end :
          tab = tabs[t] /\ new = tabs'[t] /\ crs = course[t] /\ end = course'[t]
    OBVIOUS
  <1>2. PICK seek \in BOOLEAN : /\ tabs' = [tabs EXCEPT ![t] = WithMove(tabs[t], index, seek)]
                                /\ course' = CourseAtStart(t, tab, index, seek)
    BY <1>1 DEF PressMove, StartMove
  <1>3. index \in 0..(tab.summary.questions - 1) /\ UNCHANGED sessionsStore
    BY <1>1 DEF PressMove, StartMove, InExam, apiVars, vars, serverVars
  <1>4. /\ end.due = crs.due /\ crs \in Courses
        /\ \/ end.adrift
           \/ /\ ~crs.adrift /\ tab.moves = <<>>
              /\ Navigation(tab, index, seek).fresh \/ index = crs.due
    BY <1>1, <1>2, CourseStarts DEF CInv
  <1>5. /\ DOMAIN tab = TabFields /\ tab.moves \in Seq(Navigations) /\ tab.cursor \in Cursor
        /\ DOMAIN tabs = Tabs
    <2>1. Presentable \subseteq Cursor
      BY TypeFacts DEF Presentable, Cursor
    <2> QED BY <1>1, <2>1, TabFacts DEF Turns, IsTab
  <1>6. new = WithMove(tab, index, seek)
    BY <1>1, <1>2, <1>5
  <1>7. /\ new.moves = Append(tab.moves, Navigation(tab, index, seek))
        /\ Keeps(tab, new, {"moves", "watched", "position"}) /\ new.position = NoPosition
    BY <1>5, <1>6, WithMoveEffect
  <1>8. /\ new.page = tab.page /\ new.cursor = tab.cursor /\ new.summary = tab.summary
        /\ new.saves = tab.saves /\ new.news = tab.news
    BY <1>7 DEF Keeps, TabFields
  <1>9. ASSUME NEW paper, NEW table, Sound(tab, paper, table)
        PROVE  /\ Sound(new, paper, table) /\ HeldBy(new) \subseteq HeldBy(tab)
               /\ crs.adrift \/ OnCourse(tab, crs.due, paper, table)
                  => end.adrift \/ OnCourse(new, end.due, paper, table)
    <2>1. index \in Nat /\ index < tab.summary.questions /\ crs.due \in Int
      BY <1>3, <1>4, <1>9 DEF Sound, Courses
    <2>2. Onward(new.saves, tab.summary.questions)
      BY <1>8, <1>9 DEF Sound
    <2>3. PICK due \in Int : due = crs.due
      BY <2>1
    <2>4. /\ Sound(new, paper, table) /\ HeldBy(new) = HeldBy(tab)
          /\ /\ OnCourse(tab, due, paper, table) /\ tab.moves = <<>>
             /\ Navigation(tab, index, seek).fresh \/ index = due
             => OnCourse(new, due, paper, table)
      BY <1>5, <1>7, <1>8, <1>9, <2>1, <2>2, Begins
    <2> QED BY <1>4, <2>3, <2>4
  <1>10. CursorsMove({}) /\ TabTracks(t)
    BY <1>3, OthersTouchNone DEF LabelInv
  <1> QED BY <1>1, <1>8, <1>9, <1>10, QuietTurn

LEMMA FailTurn ==
    ASSUME TypeOK, TypeOK', CInv, LabelInv, NEW t \in Tabs,
           NEW i \in DOMAIN tabs[t].moves, MoveFails(t, i)
    PROVE  Turn(t)
  <1>1. PICK tab, new, crs :
          tab = tabs[t] /\ new = tabs'[t] /\ crs = course[t]
    OBVIOUS
  <1>2. /\ tabs' = [tabs EXCEPT ![t] = WithoutMove(tabs[t], i)] /\ course' = course
        /\ UNCHANGED sessionsStore
    BY DEF MoveFails, apiVars, vars, serverVars
  <1>3. DOMAIN tab = TabFields /\ tab.moves \in Seq(Navigations) /\ DOMAIN tabs = Tabs
    BY <1>1, TabFacts DEF Turns, IsTab
  <1>4. new = WithoutMove(tab, i) /\ i \in DOMAIN tab.moves
    BY <1>1, <1>2, <1>3
  <1>5. /\ new.moves = RemoveAt(tab.moves, i) /\ new.page = tab.page
        /\ SameBut(tab, new, "moves")
    BY <1>3, <1>4, WithoutMoveEffect, MovesAlone
  <1>6. ASSUME NEW paper, NEW table, Sound(tab, paper, table)
        PROVE  /\ Sound(new, paper, table) /\ HeldBy(new) \subseteq HeldBy(tab)
               /\ crs.adrift \/ OnCourse(tab, crs.due, paper, table)
                  => crs.adrift \/ OnCourse(new, crs.due, paper, table)
    <2>1. /\ Sound(new, paper, table) /\ HeldBy(new) \subseteq HeldBy(tab)
          /\ \A due : OnCourse(tab, due, paper, table) => OnCourse(new, due, paper, table)
      BY <1>3, <1>4, <1>5, <1>6, GivenUp
    <2> QED BY <2>1
  <1>7. CursorsMove({}) /\ TabTracks(t)
    BY <1>2, OthersTouchNone DEF LabelInv
  <1> QED BY <1>1, <1>2, <1>5, <1>6, <1>7, QuietTurn

\* The page stays where it is: only its summary, its answers or its submissions change.
LEMMA IdleTurn ==
    ASSUME TypeOK, TypeOK', CInv, LabelInv, NEW t \in Tabs, CursorsMove({}),
           course'[t].due = course[t].due, course'[t].adrift = course[t].adrift,
           NEW tab, NEW new, tab = tabs[t], new = tabs'[t],
           new.page = tab.page, new.moves = tab.moves, new.cursor = tab.cursor,
           new.position = tab.position,
           tab.page \in DOMAIN sessionsStore =>
             \A paper \in {sessionsStore[tab.page].paper},
                table \in {sessionsStore[tab.page].cursors} :
               Sound(tab, paper, table) => IdlesTo(tab, new, paper)
    PROVE  Turn(t)
  <1>1. PICK crs, end : crs = course[t] /\ end = course'[t]
    OBVIOUS
  <1>2. ASSUME NEW paper, paper = sessionsStore[tab.page].paper,
               NEW table, table = sessionsStore[tab.page].cursors,
               tab.page \in DOMAIN sessionsStore, Sound(tab, paper, table)
        PROVE  /\ Sound(new, paper, table) /\ HeldBy(new) \subseteq HeldBy(tab)
               /\ crs.adrift \/ OnCourse(tab, crs.due, paper, table)
                  => end.adrift \/ OnCourse(new, end.due, paper, table)
    <2>1. IdlesTo(tab, new, paper)
      BY <1>2
    <2>2. /\ Sound(new, paper, table) /\ HeldBy(new) = HeldBy(tab)
          /\ \A due : OnCourse(tab, due, paper, table) => OnCourse(new, due, paper, table)
      BY <1>2, <2>1, Idles
    <2>3. end.due = crs.due /\ end.adrift = crs.adrift
      BY <1>1
    <2> QED BY <2>2, <2>3
  <1>3. TabTracks(t)
    BY DEF LabelInv
  <1> QED BY <1>1, <1>2, <1>3, QuietTurn

\* A submission is on its way, and one that goes on afterwards goes to a question.
LEMMA SubmitTurn ==
    ASSUME TypeOK, TypeOK', CInv, LabelInv, NEW t \in Tabs, NEW s \in Slots, NEW answer,
           NEW checkOnly \in BOOLEAN, PressSubmit(t, s, answer, checkOnly)
    PROVE  Turn(t)
  <1>1. PICK tab, new : tab = tabs[t] /\ new = tabs'[t]
    OBVIOUS
  <1>2. UNCHANGED <<sessionsStore, course>> /\ Started(tab)
    BY <1>1 DEF PressSubmit, apiVars, vars, serverVars
  <1>3. TabLives(t) /\ Turns(t, tab, new)
    BY <1>1, TabFacts
  <1>4. /\ Keeps(tab, new, {"saves"}) /\ OtherSaves(tab, new, s)
        /\ Submitted(new.saves[s], tab, told[t].answers, answer, checkOnly)
    BY <1>3, SubmitEffect
  <1>5. PICK from \in Nat : from = Displayed(tab).index
    BY <1>1, <1>2, <1>3, StartedIndex
  <1>6. PICK save : save = new.saves[s]
    OBVIOUS
  <1>7. save.from = from /\ (~save.last => ~(from >= tab.summary.questions - 1))
    BY <1>4, <1>5, <1>6 DEF Submitted, IsLastQuestion
  <1>8. /\ new.page = tab.page /\ new.moves = tab.moves /\ new.cursor = tab.cursor
        /\ new.position = tab.position /\ new.summary = tab.summary /\ new.news = tab.news
    BY <1>4 DEF Keeps, TabFields
  <1>9. ASSUME NEW paper, NEW table, Sound(tab, paper, table)
        PROVE  IdlesTo(tab, new, paper)
    <2>1. /\ tab.summary.questions \in Nat /\ Onward(tab.saves, tab.summary.questions)
          /\ NewsTrue(tab.news, tab.summary.questions, paper)
      BY <1>9 DEF Sound
    <2>2. ~save.last => save.from + 1 < tab.summary.questions
      BY <1>7, <2>1
    <2>3. Onward(new.saves, tab.summary.questions)
      BY <1>4, <1>6, <2>1, <2>2 DEF Onward, OtherSaves
    <2> QED BY <1>8, <2>1, <2>3 DEF IdlesTo
  <1>10. CursorsMove({})
    BY <1>2, OthersTouchNone
  <1>11. course'[t].due = course[t].due /\ course'[t].adrift = course[t].adrift
    BY <1>2
  <1> QED BY <1>1, <1>8, <1>9, <1>10, <1>11, IdleTurn

\* Answers are fetched, submissions are sent or given up, and windows open and close.
StillSteps(t) ==
    \/ FetchAnswered(t) \/ FetchArrives(t)
    \/ \E s \in Slots : Posts(t, s) \/ SaveFails(t, s)
    \/ Open(t) \/ PressEnd(t) \/ CancelEnd(t)

LEMMA StillTouchNone ==
    ASSUME TypeOK, CInv, NEW t \in Tabs, StillSteps(t)
    PROVE  CursorsMove({}) /\ course' = course
  <1>1. ASSUME NEW s \in Slots, Posts(t, s) PROVE CursorsMove({}) /\ course' = course
    <2>1. PICK save : save = tabs[t].saves[s]
      OBVIOUS
    <2>2. IsSave(save)
      BY <1>1, <2>1, TabFacts DEF Posts
    <2>3. SubmitAnswer(UserOf[t], tabs[t].page, save.merged, save.checkOnly) /\ course' = course
      BY <1>1, <2>1 DEF Posts, HandleSubmitAnswer
    <2>4. PICK checkOnly \in BOOLEAN :
            SubmitAnswer(UserOf[t], tabs[t].page, save.merged, checkOnly)
      BY <2>2, <2>3 DEF IsSave
    <2> QED BY <2>3, <2>4, OthersTouchNone
  <1>2. CASE ~\E s \in Slots : Posts(t, s)
    <2>1. UNCHANGED sessionsStore /\ course' = course
      BY <1>2 DEF StillSteps, FetchAnswered, FetchArrives, SaveFails, Open, PressEnd, CancelEnd,
           apiVars, vars, serverVars
    <2> QED BY <2>1, OthersTouchNone
  <1> QED BY <1>1, <1>2

StillParts == {"shown", "answers", "refetch", "saves", "confirm"}

KeepsOnward(tab, new) ==
    \A questions : Onward(tab.saves, questions) => Onward(new.saves, questions)

LEMMA StillEffect ==
    ASSUME NEW t, NEW tab, NEW new, Turns(t, tab, new), StillSteps(t)
    PROVE  Keeps(tab, new, StillParts) /\ KeepsOnward(tab, new)
  <1>1. CASE FetchAnswered(t)
    <2>1. Keeps(tab, new, {"refetch"})
      BY <1>1, FetchEffect
    <2>2. new.saves = tab.saves
      BY <2>1 DEF Keeps, TabFields
    <2> QED BY <2>1, <2>2, KeepsMore DEF KeepsOnward, StillParts
  <1>2. CASE FetchArrives(t)
    <2>1. PICK saved, known : /\ saved = tab.refetch[1]
                              /\ known = told[t].answers \cap Range(Entries(saved))
      OBVIOUS
    <2>2. /\ Keeps(tab, new, {"answers", "refetch", "saves"})
          /\ \A s \in Slots : \/ /\ new.saves[s] = tab.saves[s]
                                 /\ new.saves[s] # None => new.saves[s].merged # None
                              \/ Filled(tab.saves[s], new.saves[s], saved, known)
      BY <1>2, <2>1, ArrivesEffect
    <2>3. ASSUME NEW old, NEW save, Filled(old, save, saved, known)
          PROVE  save.from = old.from /\ save.last = old.last /\ save.of = old.of /\ old # None
      BY <2>3 DEF Filled, SavingFields
    <2>4. KeepsOnward(tab, new)
      BY <2>2, <2>3 DEF Onward, KeepsOnward
    <2> QED BY <2>2, <2>4, KeepsMore DEF StillParts
  <1>3. ASSUME NEW s \in Slots, Posts(t, s) \/ SaveFails(t, s)
        PROVE  Keeps(tab, new, StillParts) /\ KeepsOnward(tab, new)
    <2>1. Keeps(tab, new, {"saves"}) /\ SavesGoOn(tab, new)
      BY <1>3, SendEffect, DropEffect
    <2> QED BY <2>1, KeepsMore, GoOnOnward DEF KeepsOnward, StillParts
  <1>4. CASE Open(t) \/ PressEnd(t) \/ CancelEnd(t)
    <2>1. Keeps(tab, new, {"shown"}) \/ Keeps(tab, new, {"confirm"})
      BY <1>4, OpenEffect, ConfirmEffect
    <2>2. new.saves = tab.saves
      BY <2>1 DEF Keeps, TabFields
    <2> QED BY <2>1, <2>2, KeepsMore DEF KeepsOnward, StillParts
  <1> QED BY <1>1, <1>2, <1>3, <1>4 DEF StillSteps

LEMMA StillTurn ==
    ASSUME TypeOK, TypeOK', CInv, LabelInv, NEW t \in Tabs, StillSteps(t)
    PROVE  Turn(t)
  <1>1. PICK tab, new : tab = tabs[t] /\ new = tabs'[t]
    OBVIOUS
  <1>2. Turns(t, tab, new)
    BY <1>1, TabFacts
  <1>3. CursorsMove({}) /\ course'[t].due = course[t].due /\ course'[t].adrift = course[t].adrift
    BY StillTouchNone
  <1>4. Keeps(tab, new, StillParts) /\ KeepsOnward(tab, new)
    BY <1>2, StillEffect
  <1>5. /\ new.page = tab.page /\ new.moves = tab.moves /\ new.cursor = tab.cursor
        /\ new.position = tab.position /\ new.summary = tab.summary /\ new.news = tab.news
    BY <1>4 DEF Keeps, TabFields, StillParts
  <1>6. ASSUME NEW paper, NEW table, Sound(tab, paper, table)
        PROVE  IdlesTo(tab, new, paper)
    BY <1>4, <1>5, <1>6 DEF Sound, IdlesTo, KeepsOnward
  <1> QED BY <1>1, <1>3, <1>5, <1>6, IdleTurn

\* What the server says of a session is so.
LEMMA ExcerptTrue ==
    ASSUME TypeOK, SessionsTrue, NEW id \in DOMAIN sessionsStore, NEW paper,
           paper = sessionsStore[id].paper, NEW excerpt, excerpt = Excerpt(id)
    PROVE  /\ excerpt.questions \in Nat /\ DOMAIN paper = 0..(excerpt.questions - 1)
           /\ LabelOf(paper, excerpt)
  <1>1. PICK n \in Nat : DOMAIN paper = 0..n
    BY DEF SessionsTrue
  <1>2. excerpt.questions = Cardinality(DOMAIN paper)
    BY DEF Excerpt
  <1>3. Cardinality(0..n) = n + 1
    BY <1>1, FS_Interval
  <1>4. excerpt.questions = n + 1
    BY <1>1, <1>2, <1>3
  <1>5. excerpt.index = sessionsStore[id].index /\ excerpt.question = sessionsStore[id].question
    BY DEF Excerpt
  <1>6. sessionsStore[id].index \in Int
    BY TypeFacts DEF IsSession
  <1>7. LabelOf(paper, excerpt)
    BY <1>5, <1>6 DEF LabelOf, SessionsTrue
  <1> QED BY <1>1, <1>4, <1>7

\* A fetch of the summary is answered, and the answer arrives.
LEMMA NewsTurn ==
    ASSUME TypeOK, TypeOK', CInv, LabelInv, NEW t \in Tabs, SummaryAnswered(t)
    PROVE  Turn(t)
  <1>1. PICK tab, new, excerpt :
          tab = tabs[t] /\ new = tabs'[t] /\ excerpt = Excerpt(tab.page)
    OBVIOUS
  <1>2. UNCHANGED <<sessionsStore, course>> /\ tab.page \in DOMAIN sessionsStore
    BY <1>1 DEF SummaryAnswered, Owns, apiVars, vars, serverVars
  <1>3. Keeps(tab, new, {"news"}) /\ new.news = <<excerpt>>
    BY <1>1, TabFacts, NewsEffect
  <1>4. /\ new.page = tab.page /\ new.moves = tab.moves /\ new.cursor = tab.cursor
        /\ new.position = tab.position /\ new.summary = tab.summary /\ new.saves = tab.saves
    BY <1>3 DEF Keeps, TabFields
  <1>5. ASSUME NEW paper, paper = sessionsStore[tab.page].paper, NEW table,
               Sound(tab, paper, table)
        PROVE  IdlesTo(tab, new, paper)
    <2>1. /\ excerpt.questions \in Nat /\ DOMAIN paper = 0..(excerpt.questions - 1)
          /\ LabelOf(paper, excerpt)
      BY <1>1, <1>2, <1>5, ExcerptTrue DEF LabelInv
    <2>2. tab.summary.questions \in Nat /\ DOMAIN paper = 0..(tab.summary.questions - 1)
      BY <1>5 DEF Sound
    <2>3. excerpt.questions = tab.summary.questions
      BY <2>1, <2>2, SameCount
    <2>4. NewsTrue(new.news, tab.summary.questions, paper)
      BY <1>3, <2>1, <2>3 DEF NewsTrue
    <2> QED BY <1>4, <1>5, <2>4 DEF Sound, IdlesTo
  <1>6. CursorsMove({})
    BY <1>2, OthersTouchNone
  <1>7. course'[t].due = course[t].due /\ course'[t].adrift = course[t].adrift
    BY <1>2
  <1> QED BY <1>1, <1>4, <1>5, <1>6, <1>7, IdleTurn

LEMMA SummaryTurn ==
    ASSUME TypeOK, TypeOK', CInv, LabelInv, NEW t \in Tabs, SummaryArrives(t)
    PROVE  Turn(t)
  <1>1. PICK tab, new : tab = tabs[t] /\ new = tabs'[t]
    OBVIOUS
  <1>2. UNCHANGED sessionsStore
    BY <1>1 DEF SummaryArrives, apiVars, vars, serverVars
  <1>3. /\ Keeps(tab, new, {"news", "summary"}) /\ new.news = None
        /\ tab.news # None /\ new.summary = tab.news[1]
    BY <1>1, TabFacts, SummaryEffect
  <1>4. /\ new.page = tab.page /\ new.moves = tab.moves /\ new.cursor = tab.cursor
        /\ new.position = tab.position /\ new.saves = tab.saves
    BY <1>3 DEF Keeps, TabFields
  <1>5. ASSUME NEW paper, NEW table, Sound(tab, paper, table)
        PROVE  IdlesTo(tab, new, paper)
    BY <1>3, <1>4, <1>5 DEF Sound, IdlesTo, NewsTrue
  <1>6. CursorsMove({})
    BY <1>2, OthersTouchNone
  <1>7. course'[t].due = course[t].due /\ course'[t].adrift = course[t].adrift
    <2>1. PICK rewound : course' = [course EXCEPT ![t].rewound = rewound]
      BY DEF SummaryArrives
    <2>2. course[t] \in Courses /\ DOMAIN course = Tabs
      BY DEF CInv
    <2> QED BY <2>1, <2>2 DEF Courses
  <1> QED BY <1>1, <1>4, <1>5, <1>6, <1>7, IdleTurn

\* A saved answer takes the page on to the question after.
LEMMA SavedTurn ==
    ASSUME TypeOK, TypeOK', CInv, LabelInv, NEW t \in Tabs, NEW s \in Slots, PostAnswered(t, s)
    PROVE  Turn(t)
  <1>1. PICK tab, new, crs, end :
          tab = tabs[t] /\ new = tabs'[t] /\ crs = course[t] /\ end = course'[t]
    OBVIOUS
  <1>2. PICK save : save = tab.saves[s]
    OBVIOUS
  <1>3. /\ Turns(t, tab, new) /\ tab.moves \in Seq(Navigations) /\ tab.cursor \in Cursor
        /\ crs \in Courses
    <2>1. Presentable \subseteq Cursor
      BY TypeFacts DEF Presentable, Cursor
    <2> QED BY <1>1, <2>1, TabFacts DEF CInv
  <1>4. /\ Keeps(tab, new, PostParts) /\ SavesGoOn(tab, new)
        /\ MovesOn(tab, new, save)
    BY <1>2, <1>3, PostEffect
  <1>5. save # None /\ save.from \in Nat
    BY <1>1, <1>2, TabFacts DEF PostAnswered, IsSave
  <1>6. CursorsMove({}) /\ TabTracks(t)
    <2>1. UNCHANGED sessionsStore
      BY DEF PostAnswered, apiVars, vars, serverVars
    <2> QED BY <2>1, OthersTouchNone DEF LabelInv
  <1>7. /\ new.page = tab.page /\ new.cursor = tab.cursor /\ new.summary = tab.summary
        /\ new.news = tab.news
    BY <1>4 DEF Keeps, TabFields, PostParts
  <1>8. course' = IF Continues(save) THEN CourseAtStart(t, tab, save.from + 1, FALSE)
                  ELSE course
    BY <1>1, <1>2 DEF PostAnswered
  <1>9. \A questions : Onward(tab.saves, questions) => Onward(new.saves, questions)
    BY <1>4, GoOnOnward
  <1>10. CASE ~Continues(save)
    <2>1. new.moves = tab.moves /\ new.position = tab.position
      BY <1>4, <1>10 DEF MovesOn
    <2>2. ASSUME NEW paper, NEW table, Sound(tab, paper, table) PROVE IdlesTo(tab, new, paper)
      BY <1>7, <1>9, <2>2 DEF Sound, IdlesTo
    <2>3. course'[t].due = course[t].due /\ course'[t].adrift = course[t].adrift
      BY <1>8, <1>10
    <2> QED BY <1>1, <1>6, <1>7, <2>1, <2>2, <2>3, IdleTurn
  <1>11. CASE Continues(save)
    <2>0. PICK seek \in BOOLEAN : seek = FALSE
      OBVIOUS
    <2>9. PICK index \in Nat : index = save.from + 1
      BY <1>5
    <2>1. index = save.from + 1 /\ seek = FALSE
      BY <2>0, <2>9
    <2>2. /\ ~save.last /\ save.of = "page" /\ new.position = NoPosition
          /\ new.moves = Append(tab.moves, Navigation(tab, index, seek))
      BY <1>4, <1>11, <2>1 DEF MovesOn, Continues
    <2>3. course' = CourseAtStart(t, tab, index, seek)
      BY <1>8, <1>11, <2>1
    <2>4. /\ end.due = crs.due
          /\ \/ end.adrift
             \/ /\ ~crs.adrift /\ tab.moves = <<>>
                /\ Navigation(tab, index, seek).fresh \/ index = crs.due
      BY <1>1, <2>3, CourseStarts DEF CInv
    <2>5. ASSUME NEW paper, NEW table, Sound(tab, paper, table)
          PROVE  /\ Sound(new, paper, table) /\ HeldBy(new) \subseteq HeldBy(tab)
                 /\ crs.adrift \/ OnCourse(tab, crs.due, paper, table)
                    => end.adrift \/ OnCourse(new, end.due, paper, table)
      <3>1. Onward(tab.saves, tab.summary.questions)
        BY <2>5 DEF Sound
      <3>2. index < tab.summary.questions
        BY <1>2, <1>5, <2>1, <2>2, <3>1 DEF Onward
      <3>3. PICK due \in Int : due = crs.due
        BY <1>3 DEF Courses
      <3>4. Onward(new.saves, tab.summary.questions)
        BY <1>9, <3>1
      <3>5. /\ Sound(new, paper, table) /\ HeldBy(new) = HeldBy(tab)
            /\ /\ OnCourse(tab, due, paper, table) /\ tab.moves = <<>>
               /\ Navigation(tab, index, seek).fresh \/ index = due
               => OnCourse(new, due, paper, table)
        BY <1>3, <1>7, <2>2, <2>5, <3>2, <3>4, Begins
      <3> QED BY <2>4, <3>3, <3>5
    <2> QED BY <1>1, <1>6, <1>7, <2>5, QuietTurn
  <1> QED BY <1>10, <1>11

\* A page that loads starts afresh: nobody waits any more for what it had sent.
LEMMA StrayIsNobodys ==
    ASSUME NEW save, save # None => DOMAIN save = SavingFields, Stray(save) # None
    PROVE  Stray(save).of = "nobody"
  BY DEF Stray, SavingFields

LEMMA LoadTurn ==
    ASSUME TypeOK, TypeOK', CInv, SInv, LabelInv, NEW t \in Tabs, NEW id, Load(t, id)
    PROVE  Turn(t)
  <1>1. PICK tab, new, end, excerpt :
          tab = tabs[t] /\ new = tabs'[t] /\ end = course'[t] /\ excerpt = Excerpt(id)
    OBVIOUS
  <1>2. /\ UNCHANGED sessionsStore /\ id \in SessionsOf(UserOf[t])
        /\ course' = [course EXCEPT ![t] = [due |-> 0, adrift |-> FALSE, rewound |-> FALSE]]
    BY <1>1 DEF Load, apiVars, vars, serverVars
  <1>3. DOMAIN tabs = Tabs /\ DOMAIN course = Tabs /\ Turns(t, tab, new)
    BY <1>1, TabFacts DEF CInv
  <1>4. id \in DOMAIN sessionsStore
    BY <1>2, TabsAssumption DEF SInv, IndexInLockStep
  <1>5. Fresh(new, id, excerpt)
    BY <1>1, <1>3, LoadEffect
  <1>6. /\ new.page = id /\ new.summary = excerpt /\ new.position = NoPosition
        /\ new.moves = <<>> /\ new.cursor = NoCursor /\ new.news = None
    BY <1>5 DEF Fresh
  <1>7. \A s \in Slots : new.saves[s] # None => new.saves[s].of = "nobody"
    <2> DEFINE page == LoadedPage(id, excerpt)
               left == [s \in Slots |-> Stray(tab.saves[s])]
    <2>1. new = [page EXCEPT !.saves = left]
      BY <1>1, <1>3 DEF Load
    <2>2. DOMAIN page = TabFields
      BY DEF LoadedPage, TabFields
    <2> HIDE DEF page
    <2>3. new.saves = left
      BY <2>1, <2>2 DEF TabFields
    <2>4. \A s \in Slots : tab.saves[s] # None => DOMAIN tab.saves[s] = SavingFields
      BY <1>3 DEF Turns, IsTab
    <2> QED BY <2>3, <2>4, StrayIsNobodys
  <1>8. Onward(new.saves, excerpt.questions)
    BY <1>7 DEF Onward
  <1>9. end.due = 0
    BY <1>1, <1>2, <1>3
  <1>10. PICK paper, table, store : /\ store = sessionsStore /\ paper = store[id].paper
                                    /\ table = store[id].cursors
    OBVIOUS
  <1>11. /\ excerpt.questions \in Nat /\ DOMAIN paper = 0..(excerpt.questions - 1)
         /\ LabelOf(paper, excerpt)
    BY <1>1, <1>4, <1>10, ExcerptTrue DEF LabelInv
  <1>12. NoCursor \notin DOMAIN table
    BY <1>4, <1>10, NoCursorIsNone
  <1>13. Sound(new, paper, table) /\ OnCourse(new, 0, paper, table) /\ HeldBy(new) = {}
    BY <1>6, <1>8, <1>11, <1>12, Loads
  <1>14. Tracks(new, end, store)
    BY <1>6, <1>9, <1>10, <1>13 DEF Tracks
  <1> QED BY <1>1, <1>2, <1>10, <1>13, <1>14 DEF Turn, TabTracks

\* The page is left, by Home or at the end of its session or another.
LEMMA LeaveTurn ==
    ASSUME TypeOK, TypeOK', CInv, LabelInv, NEW t \in Tabs, CursorsMove({}), course' = course,
           tabs' = [tabs EXCEPT ![t] = LeftPage(tabs[t])]
    PROVE  Turn(t)
  <1>1. PICK tab, new, crs : tab = tabs[t] /\ new = tabs'[t] /\ crs = course[t]
    OBVIOUS
  <1>2. IsTab(tab) /\ tab.moves \in Seq(Navigations) /\ new = LeftPage(tab)
    BY <1>1, TabFacts DEF CInv
  <1>3. /\ Keeps(tab, new, LeftParts) /\ SavesGoOn(tab, new)
        /\ new.position = NoPosition /\ new.cursor = NoCursor /\ Departs(tab, new)
    BY <1>2, LeftEffect DEF Departs
  <1>7. \A questions : Onward(tab.saves, questions) => Onward(new.saves, questions)
    BY <1>3, GoOnOnward
  <1>4. new.page = tab.page /\ new.summary = tab.summary /\ new.news = tab.news
    BY <1>3 DEF Keeps, TabFields, LeftParts
  <1>5. ASSUME NEW paper, NEW table, table = sessionsStore[tab.page].cursors,
               tab.page \in DOMAIN sessionsStore, Sound(tab, paper, table)
        PROVE  /\ Sound(new, paper, table) /\ HeldBy(new) \subseteq HeldBy(tab)
               /\ crs.adrift \/ OnCourse(tab, crs.due, paper, table)
                  => crs.adrift \/ OnCourse(new, crs.due, paper, table)
    <2>1. NoCursor \notin DOMAIN table
      BY <1>5, NoCursorIsNone
    <2>2. Onward(new.saves, tab.summary.questions)
      BY <1>5, <1>7 DEF Sound
    <2>3. /\ Sound(new, paper, table) /\ HeldBy(new) \subseteq HeldBy(tab)
          /\ \A due : OnCourse(tab, due, paper, table) => OnCourse(new, due, paper, table)
      BY <1>2, <1>3, <1>4, <1>5, <2>1, <2>2, Leaves
    <2> QED BY <2>3
  <1>6. TabTracks(t)
    BY DEF LabelInv
  <1> QED BY <1>1, <1>4, <1>5, <1>6, QuietTurn

LEMMA ReadSteps ==
    ASSUME TypeOK, TypeOK', CInv, LabelInv, SessionsTrue', NEW t \in Tabs,
           NEW tab, tab = tabs[t], NEW nav, NEW id, id = tab.page,
           GetNextQuestion(UserOf[t], id, nav.cursor),
           NEW next, next = NextCursor(id, nav.cursor)
    PROVE  /\ id \in DOMAIN sessionsStore /\ id \in DOMAIN sessionsStore'
           /\ sessionsStore'[id].paper = sessionsStore[id].paper
           /\ \A paper \in {sessionsStore[id].paper}, table \in {sessionsStore[id].cursors},
                 after \in {sessionsStore'[id].cursors},
                 question \in {sessionsStore'[id].question} :
                ReadStep(tab, nav, paper, table, after, next, question)
           /\ \/ next \in {NoCursor, nav.cursor}
              \/ next = cursorCount + 1 /\ cursorCount' = cursorCount + 1
  <1>1. PICK old, new, c : old = sessionsStore[id] /\ new = sessionsStore'[id] /\ c = nav.cursor
    OBVIOUS
  <1>2. PICK paper, table, after, question, k :
          /\ paper = old.paper /\ table = old.cursors /\ after = new.cursors
          /\ question = new.question /\ k = PlaceOf(table, c)
    OBVIOUS
  <1>3. /\ WorksOn(id) /\ k \in DOMAIN paper /\ new.index = k
        /\ c = NoCursor \/ c \in DOMAIN table
        /\ next = NoCursor <=> k + 1 \notin DOMAIN paper
        /\ IF next = NoCursor THEN after = table ELSE after = Store(table, next, k + 1)
        /\ \/ next = NoCursor /\ cursorCount' = cursorCount
           \/ c = NoCursor /\ next = cursorCount + 1 /\ cursorCount' = cursorCount + 1
           \/ next = c /\ cursorCount' = cursorCount
    BY <1>1, <1>2, ReadDetail
  <1>4. /\ id \in DOMAIN sessionsStore /\ id \in DOMAIN sessionsStore' /\ new.paper = paper
    BY <1>1, <1>2, <1>3 DEF WorksOn
  <1>5. NoCursor \notin DOMAIN table /\ NoCursor \notin DOMAIN after
    BY <1>1, <1>2, <1>4, NoCursorIsNone, NoCursorIsNoneAfter
  <1>6. DOMAIN paper \subseteq Nat
    BY <1>1, <1>2, <1>4, TypeFacts DEF IsSession
  <1>7. question.position = paper[k]
    BY <1>1, <1>2, <1>3, <1>4, <1>6 DEF SessionsTrue
  <1>8. Sound(tab, paper, table)
    BY <1>1, <1>2, <1>4 DEF LabelInv, TabTracks, Tracks
  <1>9. HeldBy(tab) \subseteq 1..cursorCount /\ cursorCount \in Nat
    BY HeldAreHandedOut, TypeFacts
  <1>10. next # NoCursor => next \in DOMAIN after /\ after[next] = k + 1
    BY <1>3 DEF Store
  <1>11. ReadGives(nav, paper, table, after, next, question)
    BY <1>1, <1>2, <1>3, <1>7, <1>10 DEF ReadGives
  <1>12. next \in {NoCursor, c} \/ (next = cursorCount + 1 /\ cursorCount' = cursorCount + 1)
    BY <1>3
  <1>13. next \in {NoCursor, c} \/ next \notin HeldBy(tab)
    BY <1>9, <1>12
  <1>14. ASSUME NEW x \in HeldBy(tab), x # c PROVE StaysPut(table, after, x)
    <2>1. next = NoCursor \/ x # next
      BY <1>9, <1>12, <1>14
    <2> QED BY <1>3, <2>1 DEF StaysPut, Store
  <1>15. ReadStep(tab, nav, paper, table, after, next, question)
    BY <1>1, <1>2, <1>3, <1>5, <1>8, <1>11, <1>13, <1>14 DEF ReadStep
  <1> QED BY <1>1, <1>2, <1>4, <1>12, <1>15

LEMMA ArrivedFields ==
    ASSUME NEW tab, DOMAIN tab = TabFields, DOMAIN tab.summary = SummaryFields, NEW i,
           NEW question, NEW next, NEW new, new = Arrived(tab, i, question, next)
    PROVE  new.page = tab.page /\ ArrivesAs(tab, new, i, next, question)
  <1> DEFINE nav      == tab.moves[i]
             cursor   == IF nav.here THEN next ELSE tab.cursor
             onShow   == i = Len(tab.moves) /\ tab.watched
             moves    == RemoveAt(tab.moves, i)
             watched  == tab.watched /\ ~onShow
             summary  == [tab.summary EXCEPT !.index = nav.index, !.question = question]
             position == IF onShow THEN [index |-> nav.index, question |-> question]
                         ELSE tab.position
  <1>1. new = [tab EXCEPT !.moves = moves, !.watched = watched, !.cursor = cursor,
                          !.summary = summary, !.position = position]
    BY DEF Arrived, SyncedSummary
  <1>2. /\ summary.questions = tab.summary.questions /\ summary.index = nav.index
        /\ summary.question = question
    <2> HIDE DEF nav
    <2> QED BY DEF SummaryFields
  <1> HIDE DEF moves, watched, summary, position, cursor
  <1>3. /\ new.moves = moves /\ new.cursor = cursor /\ new.summary = summary
        /\ new.position = position /\ new.page = tab.page /\ new.saves = tab.saves
        /\ new.news = tab.news
    BY <1>1 DEF TabFields
  <1> HIDE DEF nav
  <1> QED BY <1>2, <1>3 DEF ArrivesAs, moves, position, cursor, nav

LEMMA HeldAfter ==
    ASSUME NEW new, NEW H, NEW H0, NEW nav, NEW c, HeldBy(new) \subseteq H0 \cup {c},
           H0 = H, c \in {NoCursor, nav.cursor} \/ c = cursorCount + 1,
           nav.cursor \in H \cup {NoCursor}
    PROVE  /\ HeldBy(new) \subseteq H \cup {cursorCount + 1}
           /\ c \in {NoCursor, nav.cursor} => HeldBy(new) \subseteq H
  <1>1. NoCursor \notin HeldBy(new)
    BY DEF HeldBy
  <1> QED BY <1>1

\* The last read of a navigation is answered.
LEMMA ArrivalTurn ==
    ASSUME TypeOK, TypeOK', CInv, LabelInv, SessionsTrue', NEW t \in Tabs,
           NEW i \in DOMAIN tabs[t].moves, ReadAnswered(t, i),
           \/ tabs[t].moves[i].stage = "read"
           \/ tabs[t].moves[i].at = tabs[t].moves[i].index
    PROVE  Turn(t)
  <1>1. PICK tab, new, crs, end : /\ tab = tabs[t] /\ new = tabs'[t]
                                  /\ crs = course[t] /\ end = course'[t]
    OBVIOUS
  <1>2. PICK nav, id, next, question :
          /\ nav = tab.moves[i] /\ id = tab.page /\ next = NextCursor(id, nav.cursor)
          /\ question = sessionsStore'[id].question
    OBVIOUS
  <1>3. /\ DOMAIN tab = TabFields /\ tab.moves \in Seq(Navigations) /\ DOMAIN tabs = Tabs
        /\ DOMAIN tab.summary = SummaryFields /\ i \in DOMAIN tab.moves
        /\ course \in [Tabs -> Courses]
    BY <1>1, TabFacts DEF CInv, Turns, IsTab, TabLives, SummaryOf
  <1>4. nav \in Navigations
    BY <1>2, <1>3
  <1>5. /\ nav.stage \in {"read", "replay"} /\ GetNextQuestion(UserOf[t], id, nav.cursor)
        /\ nav.stage = "read" \/ nav.at = nav.index
    BY <1>1, <1>2 DEF ReadAnswered, HandleGetNextQuestion
  <1>6. PICK paper, table, after, store :
          /\ store = sessionsStore' /\ paper = sessionsStore[id].paper
          /\ table = sessionsStore[id].cursors /\ after = store[id].cursors
    OBVIOUS
  <1>7. /\ id \in DOMAIN sessionsStore /\ id \in DOMAIN store
        /\ store[id].paper = paper
        /\ ReadStep(tab, nav, paper, table, after, next, question)
        /\ \/ next \in {NoCursor, nav.cursor}
           \/ next = cursorCount + 1 /\ cursorCount' = cursorCount + 1
    BY <1>1, <1>2, <1>5, <1>6, ReadSteps
  <1>8. tabs' = [tabs EXCEPT ![t] = Arrived(tab, i, question, next)]
        /\ course' = CourseAtEnd(t, i)
    BY <1>1, <1>2, <1>5 DEF ReadAnswered
  <1>9. new = Arrived(tab, i, question, next)
    BY <1>1, <1>3, <1>8
  <1>10. new.page = id /\ ArrivesAs(tab, new, i, next, question)
    BY <1>2, <1>3, <1>9, ArrivedFields
  <1>11. /\ Sound(new, paper, after)
         /\ HeldBy(new) \subseteq HeldBy(tab) \cup {next}
         /\ \A due : OnCourse(tab, due, paper, table) \/ Settles(tab, nav)
                     => OnCourse(new, DueAfter(nav, due), paper, after)
    <2>1. LastRead(nav)
      BY <1>5 DEF LastRead
    <2>2. PICK moves : moves = tab.moves
      OBVIOUS
    <2>3. moves \in Seq(Navigations) /\ i \in DOMAIN moves /\ nav = moves[i]
      BY <1>2, <1>3, <2>2
    <2>4. ReadStep(tab, nav, paper, table, after, next, question)
          /\ ArrivesAs(tab, new, i, next, question)
      BY <1>7, <1>10
    <2> QED BY <1>4, <2>1, <2>2, <2>3, <2>4, Arrives
  <1>12. end.due = DueAfter(nav, crs.due) /\ (end.adrift \/ ~crs.adrift \/ Settles(tab, nav))
    <2> DEFINE mends  == nav.here /\ nav.fresh /\ tab.watched /\ Len(tab.moves) = 1
               due    == IF nav.here THEN nav.index + 1 ELSE crs.due
               adrift == crs.adrift /\ ~mends
               c      == [due |-> due, adrift |-> adrift, rewound |-> FALSE]
    <2>1. course' = [course EXCEPT ![t] = c]
      BY <1>1, <1>2, <1>8 DEF CourseAtEnd
    <2>2. adrift \/ ~crs.adrift \/ mends
      BY <1>1, <1>3 DEF Courses
    <2> HIDE DEF adrift, mends, due
    <2>3. c.due = due /\ c.adrift = adrift
      OBVIOUS
    <2> HIDE DEF c
    <2>4. course'[t] = c
      BY <1>3, <2>1
    <2>5. end.adrift = adrift /\ end.due = due
      BY <1>1, <2>3, <2>4
    <2> QED BY <2>2, <2>5 DEF mends, due, Settles, DueAfter
  <1>13. Tracks(tab, crs, sessionsStore)
    BY <1>1 DEF LabelInv, TabTracks
  <1>14. crs.adrift \/ OnCourse(tab, crs.due, paper, table)
    BY <1>2, <1>6, <1>7, <1>13 DEF Tracks
  <1>15. end.adrift \/ OnCourse(new, end.due, paper, after)
    BY <1>11, <1>12, <1>14
  <1>16. Tracks(new, end, store)
    BY <1>6, <1>7, <1>10, <1>11, <1>15 DEF Tracks
  <1>17. nav.cursor \in HeldBy(tab) \cup {NoCursor}
    BY <1>2, <1>3 DEF HeldBy
  <1>18. /\ HeldBy(new) \subseteq HeldBy(tab) \cup {cursorCount + 1}
         /\ HeldBy(new) \subseteq HeldBy(tab) \/ cursorCount' = cursorCount + 1
    <2>1. PICK H : H = HeldBy(tab)
      OBVIOUS
    <2>2. /\ HeldBy(new) \subseteq H \cup {cursorCount + 1}
          /\ next \in {NoCursor, nav.cursor} => HeldBy(new) \subseteq H
      BY <1>7, <1>11, <1>17, <2>1, HeldAfter
    <2> QED BY <1>7, <2>1, <2>2
  <1>19. TabTracks(t)'
    BY <1>1, <1>6, <1>16 DEF TabTracks
  <1> QED BY <1>1, <1>2, <1>7, <1>18, <1>19 DEF Turn

\* ... to a cursor of the session after the step.
ContinuesIn(id, tab, i, on) ==
    \A paper \in {sessionsStore[id].paper}, table \in {sessionsStore[id].cursors},
       after \in {sessionsStore'[id].cursors} :
      Sound(tab, paper, table) => Proceeds(tab, i, on, table, after)

OwnOrNew(was, is) == is = was \/ (is = cursorCount + 1 /\ cursorCount' = cursorCount + 1)

\* A tab whose navigation goes on still tracks.
LEMMA GoOnTurn ==
    ASSUME TypeOK, TypeOK', CInv, LabelInv, NEW t \in Tabs, NEW tab, tab = tabs[t],
           NEW i \in DOMAIN tab.moves, NEW on \in Navigations,
           tabs'[t] = [tab EXCEPT !.moves = [tab.moves EXCEPT ![i] = on]],
           course' = course, NEW id, id = tab.page,
           id \in DOMAIN sessionsStore, id \in DOMAIN sessionsStore',
           sessionsStore'[id].paper = sessionsStore[id].paper,
           ContinuesIn(id, tab, i, on), OwnOrNew(tab.moves[i].cursor, on.cursor)
    PROVE  Turn(t)
  <1>1. PICK new, crs, moves, store :
          new = tabs'[t] /\ crs = course[t] /\ moves = tab.moves /\ store = sessionsStore'
    OBVIOUS
  <1>2. /\ DOMAIN tab = TabFields /\ moves \in Seq(Navigations) /\ i \in DOMAIN moves
    BY <1>1, TabFacts DEF Turns, IsTab
  <1>3. PICK paper, table, after : /\ paper = sessionsStore[id].paper
                                   /\ table = sessionsStore[id].cursors
                                   /\ after = store[id].cursors
    OBVIOUS
  <1>4. Tracks(tab, crs, sessionsStore)
    BY <1>1 DEF LabelInv, TabTracks
  <1>5. Sound(tab, paper, table) /\ (crs.adrift \/ OnCourse(tab, crs.due, paper, table))
    BY <1>3, <1>4 DEF Tracks
  <1>6. Proceeds(tab, i, on, table, after)
    BY <1>1, <1>3, <1>5 DEF ContinuesIn
  <1>7. new.moves = [moves EXCEPT ![i] = on] /\ new.page = id /\ SameBut(tab, new, "moves")
    <2> DEFINE m == [moves EXCEPT ![i] = on]
    <2>1. new = [tab EXCEPT !.moves = m]
      BY <1>1
    <2> HIDE DEF m
    <2>2. new.moves = m
      BY <1>2, <2>1 DEF TabFields
    <2>3. /\ new.page = tab.page /\ new.cursor = tab.cursor /\ new.summary = tab.summary
          /\ new.position = tab.position /\ new.saves = tab.saves /\ new.news = tab.news
      BY <1>2, <2>1 DEF TabFields
    <2> QED BY <2>2, <2>3 DEF m, SameBut
  <1>8. NoCursor \notin DOMAIN after
    BY <1>1, <1>3, NoCursorIsNoneAfter
  <1>9. /\ Sound(new, paper, after)
        /\ \A due : OnCourse(tab, due, paper, table) => OnCourse(new, due, paper, after)
        /\ HeldBy(new) \subseteq HeldBy(tab) \cup {on.cursor}
    <2>1. tab.moves \in Seq(Navigations) /\ new.moves = [tab.moves EXCEPT ![i] = on]
      BY <1>1, <1>2, <1>7
    <2> QED BY <1>5, <1>6, <1>7, <1>8, <2>1, GoesOn
  <1>10. Tracks(new, crs, store)
    BY <1>1, <1>3, <1>5, <1>7, <1>9 DEF Tracks
  <1>11. moves[i].cursor \in HeldBy(tab) \cup {NoCursor}
    BY <1>1, <1>2 DEF HeldBy
  <1>12. /\ HeldBy(new) \subseteq HeldBy(tab) \cup {cursorCount + 1}
         /\ HeldBy(new) \subseteq HeldBy(tab) \/ cursorCount' = cursorCount + 1
    <2>1. on.cursor # NoCursor
      BY <1>6 DEF Proceeds
    <2> QED BY <1>1, <1>9, <1>11, <2>1 DEF OwnOrNew
  <1>13. TabTracks(t)'
    BY <1>1, <1>10 DEF TabTracks
  <1> QED BY <1>1, <1>7, <1>12, <1>13 DEF Turn

\* One read of a replay, before the last.
LEMMA ReplayTurn ==
    ASSUME TypeOK, TypeOK', CInv, LabelInv, SessionsTrue', NEW t \in Tabs,
           NEW i \in DOMAIN tabs[t].moves, ReadAnswered(t, i),
           ~(tabs[t].moves[i].stage = "read" \/ tabs[t].moves[i].at = tabs[t].moves[i].index)
    PROVE  Turn(t)
  <1>1. PICK tab, moves : tab = tabs[t] /\ moves = tab.moves
    OBVIOUS
  <1>2. PICK nav, id, next :
          /\ nav = moves[i] /\ id = tab.page /\ next = NextCursor(id, nav.cursor)
    OBVIOUS
  <1>3. /\ DOMAIN tab = TabFields /\ moves \in Seq(Navigations) /\ i \in DOMAIN moves
        /\ DOMAIN tabs = Tabs /\ \A j \in DOMAIN moves : moves[j].cursor \in Presentable
    BY <1>1, TabFacts DEF Turns, IsTab, TabKnows
  <1>4. nav \in Navigations /\ nav.cursor \in Presentable
    BY <1>2, <1>3
  <1>5. /\ nav.stage = "replay" /\ nav.at # nav.index
        /\ GetNextQuestion(UserOf[t], id, nav.cursor)
        /\ tabs' = [tabs EXCEPT ![t].moves[i].at = @ + 1, ![t].moves[i].cursor = next]
        /\ course' = course
    BY <1>1, <1>2 DEF ReadAnswered, HandleGetNextQuestion
  <1> DEFINE on == [nav EXCEPT !.at = nav.at + 1, !.cursor = next]
  <1>6. tabs'[t] = [tab EXCEPT !.moves = [moves EXCEPT ![i] = on]]
    <2>1. /\ nav = tabs[t].moves[i] /\ tabs[t].moves \in Seq(Navigations)
          /\ DOMAIN tabs[t] = TabFields
      BY <1>1, <1>2, <1>3
    <2>2. tabs'[t] = [tabs[t] EXCEPT !.moves = [tabs[t].moves EXCEPT ![i] = on]]
      BY <1>3, <1>4, <1>5, <2>1 DEF Navigations, TabFields
    <2> HIDE DEF on
    <2> QED BY <1>1, <2>2
  <1>7. PICK paper, table, after, question :
          /\ paper = sessionsStore[id].paper /\ table = sessionsStore[id].cursors
          /\ after = sessionsStore'[id].cursors /\ question = sessionsStore'[id].question
    OBVIOUS
  <1>8. /\ id \in DOMAIN sessionsStore /\ id \in DOMAIN sessionsStore'
        /\ sessionsStore'[id].paper = paper
        /\ ReadStep(tab, nav, paper, table, after, next, question)
        /\ \/ next \in {NoCursor, nav.cursor}
           \/ next = cursorCount + 1 /\ cursorCount' = cursorCount + 1
    BY <1>1, <1>2, <1>5, <1>7, ReadSteps
  <1>9. NavTrue(nav, tab.summary.questions, table) /\ tab.summary.questions \in Nat
        /\ DOMAIN paper = 0..(tab.summary.questions - 1)
    BY <1>1, <1>2, <1>3, <1>8 DEF ReadStep, Sound
  <1>10. PlaceOf(table, nav.cursor) = nav.at /\ nav.at + 1 <= nav.index /\ nav.fresh
    BY <1>4, <1>5, <1>8, <1>9 DEF NavTrue, Due, PlaceOf, ReadStep, ReadGives, Navigations
  <1>11. next # NoCursor
    <2>1. nav.at + 1 \in DOMAIN paper
      BY <1>4, <1>9, <1>10 DEF NavTrue, Navigations
    <2> QED BY <1>8, <1>10, <2>1 DEF ReadStep
  <1>12. /\ on.index = nav.index /\ on.stage = "replay" /\ on.fresh = nav.fresh
         /\ on.at = nav.at + 1 /\ on.cursor = next /\ on.here = nav.here
         /\ on \in Navigations
    <2>1. nav.at + 1 \in Nat /\ next \in Cursor
      <3>1. cursorCount \in Nat
        BY TypeFacts
      <3> QED BY <1>4, <1>8, <3>1 DEF Navigations, Cursor, Presentable
    <2> QED BY <1>4, <1>5, <2>1 DEF Navigations
  <1> HIDE DEF on
  <1>13. NavTrue(on, tab.summary.questions, after)
    <2>1. after[next] = nav.at + 1
      BY <1>8, <1>10, <1>11 DEF ReadStep, ReadGives
    <2>2. Due(after, next, nav.at + 1)
      BY <1>11, <2>1 DEF Due
    <2> QED BY <1>9, <1>10, <1>12, <2>2 DEF NavTrue
  <1>14. OwnCursor(nav) <=> nav.cursor # NoCursor
    BY <1>5, <1>10 DEF OwnCursor
  <1>15. Proceeds(tab, i, on, table, after)
    <2>1. /\ \A c \in HeldBy(tab) \ {nav.cursor} : StaysPut(table, after, c)
          /\ next \in {NoCursor, nav.cursor} \/ next \notin HeldBy(tab)
      BY <1>8 DEF ReadStep
    <2>2. NoCursor \notin HeldBy(tab)
      BY DEF HeldBy
    <2> QED BY <1>1, <1>2, <1>10, <1>11, <1>12, <1>13, <1>14, <2>1, <2>2 DEF Proceeds
  <1>16. \/ on.cursor = moves[i].cursor
         \/ on.cursor = cursorCount + 1 /\ cursorCount' = cursorCount + 1
    BY <1>2, <1>8, <1>11, <1>12
  <1>17. ContinuesIn(id, tab, i, on)
    BY <1>7, <1>15 DEF ContinuesIn
  <1>18. /\ i \in DOMAIN tab.moves /\ on \in Navigations
         /\ tabs'[t] = [tab EXCEPT !.moves = [tab.moves EXCEPT ![i] = on]]
         /\ OwnOrNew(tab.moves[i].cursor, on.cursor)
    BY <1>1, <1>3, <1>6, <1>12, <1>16 DEF OwnOrNew
  <1>19. /\ id \in DOMAIN sessionsStore /\ id \in DOMAIN sessionsStore'
         /\ sessionsStore'[id].paper = sessionsStore[id].paper
    BY <1>7, <1>8
  <1> QED BY <1>1, <1>2, <1>5, <1>17, <1>18, <1>19, GoOnTurn

\* The response to a read is lost: a cursor the tab keeps may have moved on.
LEMMA ReadLostTurn ==
    ASSUME TypeOK, TypeOK', CInv, LabelInv, SessionsTrue', NEW t \in Tabs,
           NEW i \in DOMAIN tabs[t].moves, ReadLost(t, i)
    PROVE  Turn(t)
  <1>1. PICK tab, new, crs, end : /\ tab = tabs[t] /\ new = tabs'[t]
                                  /\ crs = course[t] /\ end = course'[t]
    OBVIOUS
  <1>2. PICK nav, id, next, moves :
          /\ moves = tab.moves /\ nav = moves[i] /\ id = tab.page
          /\ next = NextCursor(id, nav.cursor)
    OBVIOUS
  <1>3. /\ DOMAIN tab = TabFields /\ moves \in Seq(Navigations) /\ i \in DOMAIN moves
        /\ DOMAIN tabs = Tabs /\ course \in [Tabs -> Courses]
    BY <1>1, <1>2, TabFacts DEF CInv, Turns, IsTab
  <1>4. nav \in Navigations
    BY <1>2, <1>3
  <1>5. /\ nav.stage \in {"read", "replay"} /\ GetNextQuestion(UserOf[t], id, nav.cursor)
        /\ tabs' = [tabs EXCEPT ![t] = WithoutMove(tab, i)]
        /\ course' = [course EXCEPT ![t].adrift =
                        @ \/ (nav.here /\ ~nav.fresh /\ next # NoCursor)]
    BY <1>1, <1>2 DEF ReadLost, HandleGetNextQuestion
  <1>6. PICK paper, table, after, question, store :
          /\ paper = sessionsStore[id].paper /\ table = sessionsStore[id].cursors
          /\ store = sessionsStore' /\ after = store[id].cursors
          /\ question = store[id].question
    OBVIOUS
  <1>7. /\ id \in DOMAIN sessionsStore /\ id \in DOMAIN store /\ store[id].paper = paper
        /\ ReadStep(tab, nav, paper, table, after, next, question)
    BY <1>1, <1>2, <1>5, <1>6, ReadSteps
  <1>8. /\ new.moves = RemoveAt(moves, i) /\ new.page = id /\ SameBut(tab, new, "moves")
    <2>1. new = WithoutMove(tab, i)
      BY <1>1, <1>3, <1>5
    <2> QED BY <1>2, <1>3, <2>1, WithoutMoveEffect, MovesAlone
  <1>9. /\ Sound(new, paper, after) /\ HeldBy(new) \subseteq HeldBy(tab)
        /\ \A due : /\ OnCourse(tab, due, paper, table)
                    /\ ~nav.here \/ nav.fresh \/ after = table
                    => OnCourse(new, due, paper, after)
    <2>1. /\ Sound(tab, paper, table) /\ NoCursor \notin DOMAIN after
          /\ \A c \in HeldBy(tab) \ {nav.cursor} : StaysPut(table, after, c)
      BY <1>7 DEF ReadStep
    <2> QED BY <1>2, <1>3, <1>4, <1>5, <1>8, <2>1, LosesRead
  <1>10. /\ end.due = crs.due
         /\ end.adrift \/ (~crs.adrift /\ (~nav.here \/ nav.fresh \/ next = NoCursor))
    <2> DEFINE adrift == crs.adrift \/ (nav.here /\ ~nav.fresh /\ next # NoCursor)
               c      == [crs EXCEPT !.adrift = adrift]
    <2>1. course' = [course EXCEPT ![t] = c]
      BY <1>1, <1>5
    <2>2. adrift \/ (~crs.adrift /\ (~nav.here \/ nav.fresh \/ next = NoCursor))
      OBVIOUS
    <2> HIDE DEF adrift
    <2>3. crs \in Courses
      BY <1>1, <1>3
    <2>4. c.due = crs.due /\ c.adrift = adrift
      BY <2>3 DEF Courses
    <2> HIDE DEF c
    <2>5. course'[t] = c
      BY <1>3, <2>1
    <2> QED BY <1>1, <2>2, <2>4, <2>5
  <1>11. Tracks(tab, crs, sessionsStore)
    BY <1>1 DEF LabelInv, TabTracks
  <1>12. crs.adrift \/ OnCourse(tab, crs.due, paper, table)
    BY <1>2, <1>6, <1>7, <1>11 DEF Tracks
  <1>13. next = NoCursor => after = table
    BY <1>7 DEF ReadStep
  <1>14. end.adrift \/ OnCourse(new, end.due, paper, after)
    BY <1>9, <1>10, <1>12, <1>13
  <1>15. Tracks(new, end, store)
    BY <1>6, <1>7, <1>8, <1>9, <1>14 DEF Tracks
  <1>16. TabTracks(t)'
    BY <1>1, <1>6, <1>15 DEF TabTracks
  <1> QED BY <1>1, <1>2, <1>7, <1>9, <1>16 DEF Turn

\* A reposition leaves every cursor a tab holds where it is, or removes it.
LEMMA SeekSteps ==
    ASSUME TypeOK, TypeOK', CInv, NEW t \in Tabs, NEW tab, tab = tabs[t],
           NEW id, NEW c, NEW index, SeekCursorTo(UserOf[t], id, c, index)
    PROVE  /\ id \in DOMAIN sessionsStore /\ id \in DOMAIN sessionsStore'
           /\ sessionsStore'[id].paper = sessionsStore[id].paper
           /\ cursorCount \in Nat /\ cursorCount' = cursorCount + 1
           /\ cursorCount + 1 \notin HeldBy(tab)
           /\ \A table \in {sessionsStore[id].cursors}, after \in {sessionsStore'[id].cursors} :
                /\ \A x \in HeldBy(tab) : StaysPut(table, after, x)
                /\ Due(after, cursorCount + 1, index)
  <1>1. /\ sessionsStore'[id].cursors =
             Delete(Store(sessionsStore[id].cursors, cursorCount + 1, index), c)
        /\ WorksOn(id) /\ cursorCount' = cursorCount + 1
    BY SeekDetail
  <1>2. HeldBy(tab) \subseteq 1..cursorCount /\ cursorCount \in Nat
    BY HeldAreHandedOut, TypeFacts
  <1>3. cursorCount + 1 \notin HeldBy(tab) /\ cursorCount + 1 # NoCursor
    BY <1>2, CursorAssumption
  <1>4. ASSUME NEW table, table = sessionsStore[id].cursors, NEW after,
               after = sessionsStore'[id].cursors
        PROVE  /\ \A x \in HeldBy(tab) : StaysPut(table, after, x)
               /\ Due(after, cursorCount + 1, index)
    BY <1>1, <1>3, <1>4 DEF StaysPut, Due, Store, Delete, Restrict
  <1>5. /\ id \in DOMAIN sessionsStore /\ id \in DOMAIN sessionsStore'
        /\ sessionsStore'[id].paper = sessionsStore[id].paper
    BY <1>1 DEF WorksOn
  <1> QED BY <1>1, <1>2, <1>3, <1>4, <1>5

LEMMA SeekTurn ==
    ASSUME TypeOK, TypeOK', CInv, LabelInv, NEW t \in Tabs,
           NEW i \in DOMAIN tabs[t].moves, SeekAnswered(t, i)
    PROVE  Turn(t)
  <1>1. PICK tab, moves, nav, id :
          tab = tabs[t] /\ moves = tab.moves /\ nav = moves[i] /\ id = tab.page
    OBVIOUS
  <1>2. /\ DOMAIN tab = TabFields /\ moves \in Seq(Navigations) /\ i \in DOMAIN moves
        /\ DOMAIN tabs = Tabs
    BY <1>1, TabFacts DEF Turns, IsTab
  <1>3. nav \in Navigations
    BY <1>1, <1>2
  <1>4. /\ nav.stage = "seek" /\ SeekCursorTo(UserOf[t], id, nav.cursor, nav.index)
        /\ course' = course
        /\ tabs' = [tabs EXCEPT ![t].moves[i].stage = "read",
                                ![t].moves[i].cursor = RepositionedCursor]
    BY <1>1 DEF SeekAnswered, HandleSeekCursor
  <1> DEFINE on == [nav EXCEPT !.stage = "read", !.cursor = RepositionedCursor]
  <1>5. tabs'[t] = [tab EXCEPT !.moves = [moves EXCEPT ![i] = on]]
    <2>1. /\ nav = tabs[t].moves[i] /\ tabs[t].moves \in Seq(Navigations)
          /\ DOMAIN tabs[t] = TabFields
      BY <1>1, <1>2
    <2>2. tabs'[t] = [tabs[t] EXCEPT !.moves = [tabs[t].moves EXCEPT ![i] = on]]
      BY <1>2, <1>3, <1>4, <2>1 DEF Navigations, TabFields
    <2> HIDE DEF on
    <2> QED BY <1>1, <2>2
  <1>6. PICK paper, table, after :
          /\ paper = sessionsStore[id].paper /\ table = sessionsStore[id].cursors
          /\ after = sessionsStore'[id].cursors
    OBVIOUS
  <1>7. /\ id \in DOMAIN sessionsStore /\ id \in DOMAIN sessionsStore'
        /\ sessionsStore'[id].paper = sessionsStore[id].paper
        /\ cursorCount \in Nat /\ cursorCount' = cursorCount + 1
        /\ cursorCount + 1 \notin HeldBy(tab)
        /\ \A x \in HeldBy(tab) : StaysPut(table, after, x)
        /\ Due(after, cursorCount + 1, nav.index)
    BY <1>1, <1>4, <1>6, SeekSteps
  <1>8. /\ on.index = nav.index /\ on.stage = "read" /\ on.fresh = nav.fresh
        /\ on.cursor = cursorCount + 1 /\ on.here = nav.here /\ on \in Navigations
    <2>1. RepositionedCursor \in Cursor
      BY <1>7 DEF RepositionedCursor, Cursor
    <2> QED BY <1>3, <2>1 DEF Navigations, RepositionedCursor
  <1> HIDE DEF on
  <1>9. ASSUME Sound(tab, paper, table) PROVE Proceeds(tab, i, on, table, after)
    <2>1. NavTrue(nav, tab.summary.questions, table)
      BY <1>1, <1>2, <1>9 DEF Sound
    <2>2. nav.fresh /\ nav.index < tab.summary.questions
      BY <1>4, <2>1 DEF NavTrue
    <2>3. NavTrue(on, tab.summary.questions, after)
      BY <1>7, <1>8, <2>2 DEF NavTrue
    <2>4. on.cursor # NoCursor
      BY <1>7, <1>8, CursorAssumption
    <2> QED BY <1>1, <1>7, <1>8, <2>2, <2>3, <2>4 DEF Proceeds
  <1>10. ContinuesIn(id, tab, i, on)
    BY <1>6, <1>9 DEF ContinuesIn
  <1>11. /\ i \in DOMAIN tab.moves /\ on \in Navigations
         /\ tabs'[t] = [tab EXCEPT !.moves = [tab.moves EXCEPT ![i] = on]]
         /\ OwnOrNew(tab.moves[i].cursor, on.cursor)
    BY <1>1, <1>2, <1>5, <1>7, <1>8 DEF OwnOrNew
  <1> QED BY <1>1, <1>4, <1>7, <1>10, <1>11, GoOnTurn

\* The response to a reposition is lost: the cursor it removed is not the tab's any more,
\* or is refused from now on.
LEMMA SeekLostTurn ==
    ASSUME TypeOK, TypeOK', CInv, LabelInv, NEW t \in Tabs,
           NEW i \in DOMAIN tabs[t].moves, SeekLost(t, i)
    PROVE  Turn(t)
  <1>1. PICK tab, new, crs, moves, nav, id, store :
          /\ tab = tabs[t] /\ new = tabs'[t] /\ crs = course[t] /\ moves = tab.moves
          /\ nav = moves[i] /\ id = tab.page /\ store = sessionsStore'
    OBVIOUS
  <1>2. /\ DOMAIN tab = TabFields /\ moves \in Seq(Navigations) /\ i \in DOMAIN moves
        /\ DOMAIN tabs = Tabs
    BY <1>1, TabFacts DEF Turns, IsTab
  <1>3. /\ SeekCursorTo(UserOf[t], id, nav.cursor, nav.index) /\ course' = course
        /\ tabs' = [tabs EXCEPT ![t] = WithoutMove(tab, i)]
    BY <1>1 DEF SeekLost, HandleSeekCursor
  <1>4. PICK paper, table, after :
          /\ paper = sessionsStore[id].paper /\ table = sessionsStore[id].cursors
          /\ after = store[id].cursors
    OBVIOUS
  <1>5. /\ id \in DOMAIN sessionsStore /\ id \in DOMAIN store /\ store[id].paper = paper
        /\ \A x \in HeldBy(tab) : StaysPut(table, after, x)
    BY <1>1, <1>3, <1>4, SeekSteps
  <1>6. /\ new.moves = RemoveAt(moves, i) /\ new.page = id /\ SameBut(tab, new, "moves")
    <2>1. new = WithoutMove(tab, i)
      BY <1>1, <1>2, <1>3
    <2> QED BY <1>1, <1>2, <2>1, WithoutMoveEffect, MovesAlone
  <1>7. Tracks(tab, crs, sessionsStore)
    BY <1>1 DEF LabelInv, TabTracks
  <1>8. Sound(tab, paper, table) /\ (crs.adrift \/ OnCourse(tab, crs.due, paper, table))
    BY <1>1, <1>4, <1>5, <1>7 DEF Tracks
  <1>9. /\ Sound(new, paper, table) /\ HeldBy(new) \subseteq HeldBy(tab)
        /\ \A due : OnCourse(tab, due, paper, table) => OnCourse(new, due, paper, table)
    BY <1>1, <1>2, <1>6, <1>8, GivenUp
  <1>10. NoCursor \notin DOMAIN after
    BY <1>1, <1>4, <1>5, NoCursorIsNoneAfter
  <1>11. \A c \in HeldBy(new) : StaysPut(table, after, c)
    BY <1>5, <1>9
  <1>12. Sound(new, paper, after)
    BY <1>9, <1>11, OwnedIsHeld, StaysSound
  <1>13. crs.adrift \/ OnCourse(new, crs.due, paper, after)
    BY <1>8, <1>9, <1>10, <1>11, StaysOnCourse
  <1>14. Tracks(new, crs, store)
    BY <1>1, <1>4, <1>5, <1>6, <1>12, <1>13 DEF Tracks
  <1>15. TabTracks(t)'
    BY <1>1, <1>3, <1>14 DEF TabTracks
  <1> QED BY <1>1, <1>5, <1>9, <1>15 DEF Turn
-------------------------------------------------------------------------------
(***************************************************************************)
(* A step of one tab, and what it leaves of the others.                    *)
(***************************************************************************)
\* The cursors a request moves are those of the tab that sent it, or new.
Reach(t) ==
    \E S : /\ CursorsMove(S)
           /\ \A tab \in {tabs[t]} :
                /\ S \subseteq HeldBy(tab) \cup {NoCursor, cursorCount + 1}
                /\ S = {} \/ tab.page \in DOMAIN sessionsStore

OthersRest(t) == \A x \in Tabs \ {t} : tabs'[x] = tabs[x] /\ course'[x] = course[x]

TabMoves(t) == Turn(t) /\ Reach(t) /\ OthersRest(t)

LEMMA NoReach == ASSUME CursorsMove({}), NEW t PROVE Reach(t)
  BY DEF Reach

LEMMA NavigationMoves ==
    ASSUME TypeOK, TypeOK', SessionsTrue', CInv, LabelInv, NEW t \in Tabs, NavigationSteps(t)
    PROVE  TabMoves(t)
  <1>1. OthersRest(t)
    BY OthersStay DEF OthersRest
  <1>2. ASSUME NEW index, PressMove(t, index) PROVE TabMoves(t)
    <2>1. UNCHANGED sessionsStore
      BY <1>2 DEF PressMove, StartMove, apiVars, vars, serverVars
    <2>2. Reach(t)
      BY <2>1, OthersTouchNone, NoReach
    <2> QED BY <1>1, <1>2, <2>2, PressTurn DEF TabMoves
  <1>3. ASSUME NEW i \in DOMAIN tabs[t].moves, MoveFails(t, i) PROVE TabMoves(t)
    <2>1. UNCHANGED sessionsStore
      BY <1>3 DEF MoveFails, apiVars, vars, serverVars
    <2>2. Reach(t)
      BY <2>1, OthersTouchNone, NoReach
    <2> QED BY <1>1, <1>3, <2>2, FailTurn DEF TabMoves
  <1>4. ASSUME NEW i \in DOMAIN tabs[t].moves,
               \/ ReadAnswered(t, i) \/ ReadLost(t, i) \/ SeekAnswered(t, i) \/ SeekLost(t, i)
        PROVE  Reach(t)
    <2>1. PICK tab, c : tab = tabs[t] /\ c = tab.moves[i].cursor
      OBVIOUS
    <2>2. CursorsMove({c, cursorCount + 1}) /\ tab.page \in DOMAIN sessionsStore
      <3>1. CASE ReadAnswered(t, i) \/ ReadLost(t, i)
        <4>1. GetNextQuestion(UserOf[t], tab.page, c)
          BY <2>1, <3>1 DEF ReadAnswered, ReadLost, HandleGetNextQuestion
        <4> QED BY <4>1, ReadTouches DEF GetNextQuestion, Owns
      <3>2. CASE SeekAnswered(t, i) \/ SeekLost(t, i)
        <4>1. PICK index : SeekCursorTo(UserOf[t], tab.page, c, index)
          BY <2>1, <3>2 DEF SeekAnswered, SeekLost, HandleSeekCursor
        <4> QED BY <4>1, SeekTouches DEF SeekCursorTo, Owns
      <3> QED BY <1>4, <3>1, <3>2
    <2>3. c \in HeldBy(tab) \cup {NoCursor}
      BY <2>1 DEF HeldBy
    <2>4. {c, cursorCount + 1} \subseteq HeldBy(tab) \cup {NoCursor, cursorCount + 1}
      BY <2>3
    <2> QED BY <2>1, <2>2, <2>4 DEF Reach
  <1>5. ASSUME NEW i \in DOMAIN tabs[t].moves, ReadAnswered(t, i) PROVE TabMoves(t)
    <2>1. CASE tabs[t].moves[i].stage = "read" \/ tabs[t].moves[i].at = tabs[t].moves[i].index
      BY <1>1, <1>4, <1>5, <2>1, ArrivalTurn DEF TabMoves
    <2>2. CASE ~(tabs[t].moves[i].stage = "read" \/ tabs[t].moves[i].at = tabs[t].moves[i].index)
      BY <1>1, <1>4, <1>5, <2>2, ReplayTurn DEF TabMoves
    <2> QED BY <2>1, <2>2
  <1>6. ASSUME NEW i \in DOMAIN tabs[t].moves, ReadLost(t, i) PROVE TabMoves(t)
    BY <1>1, <1>4, <1>6, ReadLostTurn DEF TabMoves
  <1>7. ASSUME NEW i \in DOMAIN tabs[t].moves, SeekAnswered(t, i) PROVE TabMoves(t)
    BY <1>1, <1>4, <1>7, SeekTurn DEF TabMoves
  <1>8. ASSUME NEW i \in DOMAIN tabs[t].moves, SeekLost(t, i) PROVE TabMoves(t)
    BY <1>1, <1>4, <1>8, SeekLostTurn DEF TabMoves
  <1> QED BY <1>2, <1>3, <1>5, <1>6, <1>7, <1>8 DEF NavigationSteps

LEMMA StillMoves ==
    ASSUME TypeOK, TypeOK', CInv, LabelInv, NEW t \in Tabs, StillSteps(t), OthersRest(t)
    PROVE  TabMoves(t)
  BY StillTurn, StillTouchNone, NoReach DEF TabMoves

LEMMA AnswerMoves ==
    ASSUME TypeOK, TypeOK', CInv, LabelInv, NEW t \in Tabs, AnswerSteps(t)
    PROVE  TabMoves(t)
  <1>1. OthersRest(t)
    BY OthersStay DEF OthersRest
  <1>2. ASSUME NEW s \in Slots, NEW answer, NEW checkOnly \in BOOLEAN,
               PressSubmit(t, s, answer, checkOnly)
        PROVE  TabMoves(t)
    <2>1. UNCHANGED sessionsStore
      BY <1>2 DEF PressSubmit, apiVars, vars, serverVars
    <2>2. Reach(t)
      BY <2>1, OthersTouchNone, NoReach
    <2> QED BY <1>1, <1>2, <2>2, SubmitTurn DEF TabMoves
  <1>3. ASSUME NEW s \in Slots, PostAnswered(t, s) PROVE TabMoves(t)
    <2>1. UNCHANGED sessionsStore
      BY <1>3 DEF PostAnswered, apiVars, vars, serverVars
    <2>2. Reach(t)
      BY <2>1, OthersTouchNone, NoReach
    <2> QED BY <1>1, <1>3, <2>2, SavedTurn DEF TabMoves
  <1>4. CASE StillSteps(t)
    BY <1>1, <1>4, StillMoves
  <1>5. \/ \E s \in Slots, answer \in AnswerOfUser, checkOnly \in BOOLEAN :
             PressSubmit(t, s, answer, checkOnly)
        \/ \E s \in Slots : PostAnswered(t, s)
        \/ StillSteps(t)
    BY DEF AnswerSteps, StillSteps
  <1> QED BY <1>2, <1>3, <1>4, <1>5

\* A step that leaves every page as it is.
LEMMA RestTurn ==
    ASSUME TypeOK, TypeOK', CInv, LabelInv, CursorsMove({}), tabs' = tabs, course' = course,
           NEW t \in Tabs
    PROVE  TabMoves(t)
  <1>1. PICK S : S = {} /\ CursorsMove(S)
    OBVIOUS
  <1>2. TabTracks(t)'
    BY <1>1, Bystander DEF LabelInv
  <1>3. ASSUME NEW tab, tab = tabs[t], tab.page \in DOMAIN sessionsStore'
        PROVE  tab.page \in DOMAIN sessionsStore
    BY <1>1, <1>3, LivesOn
  <1>4. Turn(t)
    BY <1>2, <1>3 DEF Turn
  <1> QED BY <1>4, NoReach DEF TabMoves, OthersRest

LEMMA SessionMoves ==
    ASSUME TypeOK, TypeOK', SInv, CInv, LabelInv, NEW t \in Tabs, SessionSteps(t)
    PROVE  TabMoves(t)
  <1>1. OthersRest(t)
    BY OthersStay DEF OthersRest
  <1>2. ASSUME NEW id, Load(t, id) PROVE TabMoves(t)
    <2>1. UNCHANGED sessionsStore
      BY <1>2 DEF Load, apiVars, vars, serverVars
    <2> QED BY <1>1, <1>2, <2>1, LoadTurn, OthersTouchNone, NoReach DEF TabMoves
  <1>3. ASSUME NEW id, EndAnswered(t, id) PROVE TabMoves(t)
    <2>1. /\ EndExamSession(UserOf[t], id) /\ course' = course
          /\ tabs' = [tabs EXCEPT ![t] = LeftPage(tabs[t])]
      BY <1>3 DEF EndAnswered, Ends, HandleDelete
    <2>2. CursorsMove({})
      BY <2>1, OthersTouchNone
    <2> QED BY <1>1, <2>1, <2>2, LeaveTurn, NoReach DEF TabMoves
  <1>4. CASE Leave(t)
    <2>1. /\ UNCHANGED <<sessionsStore, course>>
          /\ tabs' = [tabs EXCEPT ![t] = LeftPage(tabs[t])]
      BY <1>4 DEF Leave, apiVars, vars, serverVars
    <2>2. CursorsMove({})
      BY <2>1, OthersTouchNone
    <2> QED BY <1>1, <2>1, <2>2, LeaveTurn, NoReach DEF TabMoves
  <1>5. CASE Open(t) \/ PressEnd(t) \/ CancelEnd(t)
    BY <1>1, <1>5, StillMoves DEF StillSteps
  <1>6. CASE SummaryAnswered(t) \/ SummaryArrives(t)
    <2>1. UNCHANGED sessionsStore
      BY <1>6 DEF SummaryAnswered, SummaryArrives, apiVars, vars, serverVars
    <2>2. CursorsMove({})
      BY <2>1, OthersTouchNone
    <2> QED BY <1>1, <1>6, <2>2, NewsTurn, SummaryTurn, NoReach DEF TabMoves
  <1>7. ASSUME NEW id, EndLost(t, id) PROVE TabMoves(t)
    <2>1. tabs' = tabs /\ course' = course /\ EndExamSession(UserOf[t], id)
      BY <1>7 DEF EndLost, Ends, HandleDelete
    <2>2. CursorsMove({})
      BY <2>1, OthersTouchNone
    <2> QED BY <2>1, <2>2, RestTurn
  <1>8. ASSUME NEW e \in budget.exams, NEW options \in budget.options, NEW accept,
               Create(t, e, options, accept)
        PROVE  TabMoves(t)
    <2>1. /\ tabs' = tabs /\ course' = course
          /\ StartNewExamSession(UserOf[t], e, options, accept)
      BY <1>8 DEF Create, HandleCreate
    <2>2. UserOf[t] \in Users /\ e \in Exams /\ options \in OptionChoices
      BY TabsAssumption DEF CInv, BudgetKept, Budget
    <2>3. CursorsMove({})
      BY <2>1, <2>2, OthersTouchNone
    <2> QED BY <2>1, <2>3, RestTurn
  <1> QED BY <1>2, <1>3, <1>4, <1>5, <1>6, <1>7, <1>8 DEF SessionSteps

\* If no tab acts: another client deletes a report, or posts.
OtherClients ==
    \E u \in Users :
      \/ \E i \in DOMAIN reports : DeleteTracking(u, i)
      \/ \E id \in DOMAIN sessionsStore :
           \E submission \in budget.raw, checkOnly \in BOOLEAN :
             RawPost(u, id, submission, checkOnly)

LEMMA OthersMove ==
    ASSUME TypeOK, TypeOK', CInv, LabelInv, OtherClients, NEW t \in Tabs
    PROVE  TabMoves(t)
  <1>1. tabs' = tabs /\ course' = course
    BY DEF OtherClients, DeleteTracking, RawPost
  <1>2. CursorsMove({})
    <2>1. CASE \E u, i : DeleteTracking(u, i)
      <3>1. UNCHANGED sessionsStore
        BY <2>1 DEF DeleteTracking, HandleDeleteTracking, vars, serverVars
      <3> QED BY <3>1, OthersTouchNone
    <2>2. CASE \E u, id, a : \E checkOnly \in BOOLEAN : RawPost(u, id, a, checkOnly)
      <3>1. \E u, id, a : \E checkOnly \in BOOLEAN : SubmitAnswer(u, id, a, checkOnly)
        BY <2>2 DEF RawPost, HandleSubmitAnswer
      <3> QED BY <3>1, OthersTouchNone
    <2> QED BY <2>1, <2>2 DEF OtherClients
  <1> QED BY <1>1, <1>2, RestTurn

LEMMA SomeTabMoves ==
    ASSUME TypeOK, TypeOK', SessionsTrue', SInv, CInv, LabelInv, ClientNext
    PROVE  (\E t \in Tabs : TabMoves(t)) \/ (\A t \in Tabs : TabMoves(t))
  <1>1. budget.tabs \subseteq Tabs
    BY DEF CInv, BudgetKept, Budget
  <1> QED BY <1>1, NavigationMoves, AnswerMoves, SessionMoves, OthersMove
          DEF ClientNext, OtherClients

\* The other tabs still track, and no two tabs come to hold the same cursor.
LEMMA TheRestTracks ==
    ASSUME TypeOK, TypeOK', SInv, CInv, LabelInv, NEW t \in Tabs, TabMoves(t)
    PROVE  \A x \in Tabs : TabTracks(x)'
  <1>1. PICK S : /\ CursorsMove(S)
                 /\ \A tab \in {tabs[t]} :
                      /\ S \subseteq HeldBy(tab) \cup {NoCursor, cursorCount + 1}
                      /\ S = {} \/ tab.page \in DOMAIN sessionsStore
    BY DEF TabMoves, Reach
  <1>2. ASSUME NEW x \in Tabs \ {t} PROVE TabTracks(x)'
    <2>1. ASSUME NEW tab, tab = tabs[x], tab.page \in DOMAIN sessionsStore
          PROVE  HeldBy(tab) \cap S = {}
      <3>1. HeldBy(tab) \subseteq 1..cursorCount /\ cursorCount \in Nat
        BY <2>1, HeldAreHandedOut, TypeFacts
      <3>2. NoCursor \notin HeldBy(tab) /\ cursorCount + 1 \notin HeldBy(tab)
        BY <3>1 DEF HeldBy
      <3>3. PICK a : a = tabs[t]
        OBVIOUS
      <3>4. a.page \in DOMAIN sessionsStore => HeldBy(a) \cap HeldBy(tab) = {}
        BY <2>1, <3>3 DEF LabelInv, Apart
      <3>5. /\ S \subseteq HeldBy(a) \cup {NoCursor, cursorCount + 1}
            /\ S = {} \/ a.page \in DOMAIN sessionsStore
        BY <1>1, <3>3
      <3> QED BY <3>2, <3>4, <3>5
    <2>2. TabTracks(x) /\ tabs'[x] = tabs[x] /\ course'[x] = course[x]
      BY DEF TabMoves, OthersRest, LabelInv
    <2> QED BY <1>1, <2>1, <2>2, Bystander
  <1> QED BY <1>2 DEF TabMoves, Turn

\* Of two pages that are live after a step of a tab.
LEMMA KeepsApart ==
    ASSUME TypeOK, TypeOK', CInv, LabelInv, NEW t \in Tabs, TabMoves(t),
           NEW x \in Tabs \ {t}, NEW a, NEW b, a = tabs'[t], b = tabs'[x],
           a.page \in DOMAIN sessionsStore', b.page \in DOMAIN sessionsStore'
    PROVE  HeldBy(a) \cap HeldBy(b) = {}
  <1>1. PICK S : CursorsMove(S)
    BY DEF TabMoves, Reach
  <1>2. b = tabs[x]
    BY DEF TabMoves, OthersRest
  <1>3. b.page \in DOMAIN sessionsStore
    BY <1>1, <1>2, LivesOn
  <1>4. PICK old : old = tabs[t]
    OBVIOUS
  <1>5. \/ HeldBy(a) = {}
        \/ /\ old.page \in DOMAIN sessionsStore
           /\ HeldBy(a) \subseteq HeldBy(old) \cup {cursorCount + 1}
    BY <1>4 DEF TabMoves, Turn
  <1>6. old.page \in DOMAIN sessionsStore => HeldBy(old) \cap HeldBy(b) = {}
    BY <1>2, <1>3, <1>4 DEF LabelInv, Apart
  <1>7. cursorCount + 1 \notin HeldBy(b)
    <2>1. HeldBy(b) \subseteq 1..cursorCount /\ cursorCount \in Nat
      BY <1>2, HeldAreHandedOut, TypeFacts
    <2> QED BY <2>1
  <1> QED BY <1>5, <1>6, <1>7

LEMMA RestsApart ==
    ASSUME TypeOK, TypeOK', CInv, LabelInv, NEW S, CursorsMove(S),
           NEW x \in Tabs, NEW y \in Tabs, x # y,
           tabs'[x] = tabs[x], tabs'[y] = tabs[y]
    PROVE  Apart(x, y)'
  <1>1. ASSUME NEW a, a = tabs'[x], NEW b, b = tabs'[y],
               a.page \in DOMAIN sessionsStore', b.page \in DOMAIN sessionsStore'
        PROVE  HeldBy(a) \cap HeldBy(b) = {}
    <2>1. a.page \in DOMAIN sessionsStore /\ b.page \in DOMAIN sessionsStore
      BY <1>1, LivesOn
    <2> QED BY <1>1, <2>1 DEF LabelInv, Apart
  <1> QED BY <1>1 DEF Apart

LEMMA LabelStep ==
    ASSUME IdsAreUnique, TypeOK, TypeOK', SInv, CInv, LabelInv, [Next]_vars, ClientNext
    PROVE  LabelInv'
  <1>1. CopiesAreTrue'
    BY NextCopies DEF LabelInv
  <1>2. SessionsTrue'
    BY <1>1, NextTrue DEF LabelInv
  <1>3. ASSUME NEW t \in Tabs, TabMoves(t) PROVE LabelInv'
    <2>1. \A x \in Tabs : TabTracks(x)'
      BY <1>3, TheRestTracks
    <2>2. PICK S : CursorsMove(S)
      BY <1>3 DEF TabMoves, Reach
    <2>3. ASSUME NEW x \in Tabs \ {t} PROVE Apart(t, x)' /\ Apart(x, t)'
      BY <1>3, KeepsApart DEF Apart
    <2>4. ASSUME NEW x \in Tabs \ {t}, NEW y \in Tabs \ {t}, x # y PROVE Apart(x, y)'
      BY <1>3, <2>2, <2>4, RestsApart DEF TabMoves, OthersRest
    <2> QED BY <1>1, <1>2, <2>1, <2>3, <2>4 DEF LabelInv
  <1>4. CASE \A t \in Tabs : TabMoves(t)
    <2>1. CASE Tabs = {}
      BY <1>1, <1>2, <2>1 DEF LabelInv
    <2>2. CASE Tabs # {}
      BY <1>3, <1>4, <2>2
    <2> QED BY <2>1, <2>2
  <1> QED BY <1>2, <1>3, <1>4, SomeTabMoves

LEMMA LabelStutter == ASSUME LabelInv, UNCHANGED allVars PROVE LabelInv'
  <1>1. UNCHANGED <<sessionsStore, tabs, course>>
    BY DEF allVars, apiVars, clientVars, vars, serverVars
  <1>2. CopiesAreTrue' /\ SessionsTrue'
    BY <1>1 DEF LabelInv, CopiesAreTrue, SessionsTrue
  <1>3. \A t \in Tabs : TabTracks(t)'
    BY <1>1 DEF LabelInv, TabTracks
  <1>4. \A t, x \in Tabs : t # x => Apart(t, x)'
    BY <1>1 DEF LabelInv, Apart
  <1> QED BY <1>2, <1>3, <1>4 DEF LabelInv

LEMMA LabelInit == ClientInit => LabelInv
  <1>1. SUFFICES ASSUME ClientInit PROVE LabelInv
    OBVIOUS
  <1>2. sessionsStore = <<>>
    BY <1>1 DEF ClientInit, ApiInit, Init
  <1>3. CopiesAreTrue /\ SessionsTrue
    BY <1>2 DEF CopiesAreTrue, SessionsTrue
  <1>4. (\A t \in Tabs : TabTracks(t)) /\ (\A t, x \in Tabs : t # x => Apart(t, x))
    BY <1>2 DEF TabTracks, Tracks, Apart
  <1> QED BY <1>3, <1>4 DEF LabelInv

LEMMA LabelsFollow == ASSUME LabelInv PROVE LabelIsTrue
  <1>1. SUFFICES ASSUME NEW t \in Tabs, NEW tab, tab = tabs[t],
                        NEW store, store = sessionsStore,
                        tab.page \in DOMAIN store, ~course[t].adrift,
                        Displayed(tab).index >= 0
                 PROVE  Displayed(tab).question.position =
                          store[tab.page].paper[Displayed(tab).index]
    BY DEF LabelIsTrue
  <1>2. PICK crs, paper, table : /\ crs = course[t] /\ paper = store[tab.page].paper
                                 /\ table = store[tab.page].cursors
    OBVIOUS
  <1>3. Tracks(tab, crs, store)
    BY <1>1, <1>2 DEF LabelInv, TabTracks
  <1>4. OnCourse(tab, crs.due, paper, table)
    BY <1>1, <1>2, <1>3 DEF Tracks
  <1>5. LabelOf(paper, tab.position) /\ LabelOf(paper, tab.summary)
    BY <1>4 DEF OnCourse
  <1> QED BY <1>1, <1>2, <1>5 DEF LabelOf, Displayed

\* The number over a question is its place in the paper of the session, however many tabs
\* share it and whatever requests fail, are lost or overlap, until the labels of the tab
\* have drifted in one of the ways the page cannot see: if the ids of an exam's questions
\* are unique.
THEOREM LabelsAreTrue ==
    ASSUME IdsAreUnique
    PROVE  ClientSpec => []LabelIsTrue
  <1>1. TypeOK /\ SInv /\ CInv /\ LabelInv /\ [ClientNext]_allVars => LabelInv'
    <2>1. SUFFICES ASSUME TypeOK, SInv, CInv, LabelInv, [ClientNext]_allVars PROVE LabelInv'
      OBVIOUS
    <2>2. [Next]_vars /\ TypeOK'
      BY <2>1, StepKnows
    <2> QED BY <2>1, <2>2, LabelStep, LabelStutter
  <1>2. LabelInv => LabelIsTrue
    BY LabelsFollow
  <1> QED BY <1>1, <1>2, LabelInit, ClientInvariant, PTL DEF ClientSpec
-------------------------------------------------------------------------------
(***************************************************************************)
(* What a tab was told is saved stays saved.                               *)
(*                                                                         *)
(* The invariant follows an answer from the submission in flight to the    *)
(* report: every submission that has its copy of the saved answers has, of *)
(* those the tab had heard of then, all it does not replace; the cache has *)
(* what the tab was told; the session, or its report, has that too, and    *)
(* the answer of the save of the tab that was carried out last, whose      *)
(* response may still be on its way.  mem is what the tab was told.        *)
(***************************************************************************)
LEMMA EntriesFacts ==
    ASSUME NEW s \in Known
    PROVE  Entries(s) \in Seq(Range(Entries(s)))
  <1>1. CASE s = NoAnswer
    BY <1>1 DEF Entries
  <1>2. CASE s # NoAnswer
    BY <1>2, MergingAssumption DEF Entries, Known
  <1> QED BY <1>1, <1>2

\* A merged submission has the new answer, and the earlier ones to other questions.
LEMMA MergedFacts ==
    ASSUME NEW S, NEW s, Entries(s) \in Seq(S), NEW a \in S
    PROVE  /\ Merged(s, a) \in Seq(S)
           /\ a \in Range(Merged(s, a))
           /\ \A b \in Range(Entries(s)) :
                b.question # a.question => b \in Range(Merged(s, a))
           /\ AnswersOnce(Entries(s)) => AnswersOnce(Merged(s, a))
  <1> DEFINE earlier == Entries(s)
             others  == {b \in Range(earlier) : b.question # a.question}
             kept    == Selected(earlier, others)
  <1>1. Merged(s, a) = Append(kept, a)
    BY DEF Merged
  <1>2. /\ kept \in Seq(S) /\ Range(kept) = others
        /\ AnswersOnce(earlier) => AnswersOnce(kept)
    <2>1. others \subseteq Range(earlier)
      OBVIOUS
    <2> HIDE DEF others, earlier
    <2>2. /\ Selected(earlier, others) \in Seq(S)
          /\ Range(Selected(earlier, others)) = Range(earlier) \cap others
          /\ AnswersOnce(earlier) => AnswersOnce(Selected(earlier, others))
      BY SelectedFacts DEF earlier
    <2> QED BY <2>1, <2>2
  <1>3. \A b \in others : b.question # a.question
    OBVIOUS
  <1> HIDE DEF kept
  <1>4. /\ Append(kept, a) \in Seq(S) /\ DOMAIN Append(kept, a) = DOMAIN kept \cup {Len(kept) + 1}
        /\ Len(kept) + 1 \notin DOMAIN kept
        /\ Append(kept, a)[Len(kept) + 1] = a
        /\ \A j \in DOMAIN kept : Append(kept, a)[j] = kept[j]
    BY <1>2
  <1>5. Range(Append(kept, a)) = Range(kept) \cup {a}
    BY <1>4 DEF Range
  <1>6. \A j \in DOMAIN kept : kept[j] \in others
    BY <1>2 DEF Range
  <1>7. AnswersOnce(kept) => AnswersOnce(Append(kept, a))
    <2> HIDE DEF others
    <2> QED BY <1>3, <1>4, <1>6 DEF AnswersOnce
  <1> QED BY <1>1, <1>2, <1>4, <1>5, <1>7

LEMMA KnownMerges ==
    ASSUME NEW s \in Known, NEW a
    PROVE  /\ a \in Range(Merged(s, a))
           /\ \A b \in Range(Entries(s)) :
                b.question # a.question => b \in Range(Merged(s, a))
  <1> DEFINE S == Range(Entries(s)) \cup {a}
  <1>1. Entries(s) \in Seq(Range(Entries(s)))
    BY EntriesFacts
  <1>2. PICK R : R = Range(Entries(s))
    OBVIOUS
  <1>3. Entries(s) \in Seq(R \cup {a})
    BY <1>1, <1>2
  <1>4. a \in R \cup {a}
    OBVIOUS
  <1> QED BY <1>3, <1>4, MergedFacts

\* A submission with its copy: its answer, and what was heard of the others.
CopyTrue(save) ==
    /\ save.answer \in Range(save.merged)
    /\ \A a \in save.heard : a.question # save.answer.question => a \in Range(save.merged)

SavesTrue(tab) ==
    /\ DOMAIN tab.saves = Slots
    /\ \A s \in Slots : tab.saves[s] # None =>
         (tab.saves[s].merged # None => CopyTrue(tab.saves[s]))

CacheTrue(tab, mem) ==
    tab.answers # Cold => mem.answers \subseteq Range(Entries(tab.answers))

MemFields == {"answers", "saved"}

\* The part that is safe with the tab ...
MemTrue(tab, mem) ==
    /\ DOMAIN mem = MemFields
    /\ tab.page = 0 => mem.answers = {} /\ mem.saved = {}
    /\ CacheTrue(tab, mem) /\ SavesTrue(tab)

\* ... and the part that is safe with the server.
FiledTrue(page, mem) ==
    /\ page \in DOMAIN sessionsStore =>
         mem.answers \cup mem.saved \subseteq Range(Entries(sessionsStore[page].answer))
    /\ \A i \in DOMAIN reports : reports[i].session = page =>
         mem.answers \cup mem.saved \subseteq Range(reports[i].answer)

SavedAt(t) ==
    \A tab \in {tabs[t]}, mem \in {told[t]} : MemTrue(tab, mem) /\ FiledTrue(tab.page, mem)

SavedInv == DOMAIN told = Tabs /\ \A t \in Tabs : SavedAt(t)

\* A tab that is told less has lost nothing.
Less0(mem, new) ==
    /\ DOMAIN new = MemFields /\ new.answers \subseteq mem.answers
    /\ new.saved \subseteq mem.saved

LEMMA ToldLess ==
    ASSUME NEW tab, NEW mem, NEW new, Less0(mem, new)
    PROVE  /\ MemTrue(tab, mem) => MemTrue(tab, new)
           /\ \A page : FiledTrue(page, mem) => FiledTrue(page, new)
  BY DEF Less0, MemTrue, FiledTrue, CacheTrue

\* Submissions that go on, or are given up, keep their copies.
LEMMA CopiesGoOn ==
    ASSUME NEW tab, NEW new, SavesTrue(tab), SavesGoOn(tab, new)
    PROVE  SavesTrue(new)
  <1>1. ASSUME NEW old, NEW on, SameSave(old, on), old.merged # None => CopyTrue(old),
               on.merged # None
        PROVE  CopyTrue(on)
    <2>1. on.merged = old.merged /\ on.answer = old.answer /\ on.heard = old.heard
      BY <1>1 DEF SameSave, SavingFields
    <2> QED BY <1>1, <2>1 DEF CopyTrue
  <1>2. ASSUME NEW s \in Slots, new.saves[s] # None, new.saves[s].merged # None
        PROVE  CopyTrue(new.saves[s])
    <2>1. PICK old, on : old = tab.saves[s] /\ on = new.saves[s]
      OBVIOUS
    <2>2. SameSave(old, on) /\ old # None
      BY <1>2, <2>1 DEF SavesGoOn, SameSave
    <2>3. old.merged # None => CopyTrue(old)
      BY <2>1, <2>2 DEF SavesTrue
    <2>4. CopyTrue(on)
      BY <1>1, <1>2, <2>1, <2>2, <2>3
    <2> QED BY <2>1, <2>4
  <1> QED BY <1>2 DEF SavesTrue, SavesGoOn

\* A tab that stays on its page, whose cache stays or is empty.
LEMMA MemGoesOn ==
    ASSUME NEW tab, NEW new, NEW mem, MemTrue(tab, mem), SavesGoOn(tab, new),
           tab.page = 0 \/ new.page = tab.page, new.answers \in {tab.answers, Cold}
    PROVE  MemTrue(new, mem)
  <1>1. SavesTrue(new)
    BY CopiesGoOn DEF MemTrue
  <1> QED BY <1>1 DEF MemTrue, CacheTrue

LEMMA MemKept ==
    ASSUME NEW tab, NEW new, NEW mem, NEW F, Keeps(tab, new, F),
           F \cap {"page", "answers", "saves"} = {}, MemTrue(tab, mem)
    PROVE  MemTrue(new, mem) /\ new.page = tab.page
  <1>1. new.page = tab.page /\ new.answers = tab.answers /\ new.saves = tab.saves
    BY DEF Keeps, TabFields
  <1> QED BY <1>1 DEF MemTrue, CacheTrue, SavesTrue
-------------------------------------------------------------------------------
\* Requests that save nothing and end nothing.
SameAnswers ==
    /\ reports' = reports /\ sessionCount' \in Nat /\ sessionCount' >= sessionCount
    /\ \A id \in DOMAIN sessionsStore' : id \in 1..sessionCount =>
         id \in DOMAIN sessionsStore /\ sessionsStore'[id].answer = sessionsStore[id].answer

LEMMA SameStaysTrue ==
    ASSUME TypeOK, TypeOK', SameAnswers, NEW page \in 0..sessionCount, NEW mem,
           FiledTrue(page, mem)
    PROVE  FiledTrue(page, mem)'
  <1>1. sessionCount \in Nat /\ DOMAIN sessionsStore' \subseteq 1..sessionCount'
    BY TypeFacts DEF TypeOK, SessionsTyped
  <1>2. page \in DOMAIN sessionsStore' => page \in 1..sessionCount
    BY <1>1
  <1> QED BY <1>2 DEF SameAnswers, FiledTrue

\* A save: the session has the submission, and no report.
LEMMA SaveStaysTrue ==
    ASSUME TypeOK, SInv, NEW u, NEW id, NEW a, NEW checkOnly \in BOOLEAN,
           SubmitAnswer(u, id, a, checkOnly), ~checkOnly, NEW page, NEW mem,
           page = id => mem.answers \cup mem.saved \subseteq Range(Entries(a)),
           page # id => FiledTrue(page, mem)
    PROVE  FiledTrue(page, mem)'
  <1>1. /\ WorksOn(id)
        /\ sessionsStore'[id].answer =
             IF checkOnly THEN sessionsStore[id].answer ELSE a
    BY SubmitSummary
  <1>2. \A i \in DOMAIN reports : reports[i].session # id
    <2>1. id \in 1..sessionCount /\ id \in DOMAIN sessionsStore
      BY <1>1, TypeFacts DEF WorksOn
    <2>2. ReportsOf(id) = {}
      BY <2>1 DEF SInv, EndedSessionsAccounted
    <2> QED BY <2>2 DEF ReportsOf
  <1>3. CASE page = id
    BY <1>1, <1>2, <1>3 DEF FiledTrue, WorksOn
  <1>4. CASE page # id
    BY <1>1, <1>2, <1>4 DEF FiledTrue, WorksOn
  <1> QED BY <1>3, <1>4

\* The end of a session: its report, if it has one, has its submission.
LEMMA EndStaysTrue ==
    ASSUME TypeOK, SInv, NEW u, NEW id, EndExamSession(u, id), NEW page, NEW mem,
           FiledTrue(page, mem)
    PROVE  FiledTrue(page, mem)'
  <1> DEFINE all == mem.answers \cup mem.saved
  <1>1. PICK old : old = sessionsStore[id]
    OBVIOUS
  <1>2. /\ id \in DOMAIN sessionsStore
        /\ DOMAIN sessionsStore' = DOMAIN sessionsStore \ {id}
        /\ \A i \in DOMAIN sessionsStore' : sessionsStore'[i] = sessionsStore[i]
        /\ reports' = IF old.answer = NoAnswer THEN reports ELSE Append(reports, ReportOf(id))
        /\ sessionCount' = sessionCount
    BY <1>1, EndSummary
  <1>3. reports \in Seq(Report)
    BY DEF TypeOK
  <1>4. /\ ReportOf(id).session = id /\ ReportOf(id).answer = old.answer
    BY <1>1 DEF ReportOf
  <1>5. ASSUME NEW i \in DOMAIN reports', reports'[i].session = page
        PROVE  all \subseteq Range(reports'[i].answer)
    <2>1. CASE i \in DOMAIN reports
      <3>1. reports'[i] = reports[i]
        BY <1>2, <1>3, <2>1
      <3> QED BY <1>5, <2>1, <3>1 DEF FiledTrue
    <2>2. CASE i \notin DOMAIN reports
      <3>1. old.answer # NoAnswer
        BY <1>2, <1>5, <2>2
      <3>2. reports'[i] = ReportOf(id)
        BY <1>2, <1>3, <1>5, <2>2, <3>1
      <3>3. page = id /\ reports'[i].answer = old.answer
        BY <1>4, <1>5, <3>2
      <3>4. all \subseteq Range(Entries(old.answer))
        BY <1>1, <1>2, <3>3 DEF FiledTrue
      <3> QED BY <3>1, <3>3, <3>4 DEF Entries
    <2> QED BY <2>1, <2>2
  <1> QED BY <1>2, <1>5 DEF FiledTrue

LEMMA NothingSaved ==
    ASSUME TypeOK, UNCHANGED vars PROVE SameAnswers
  BY TypeFacts DEF vars, serverVars, SameAnswers

LEMMA WorkSavesNothing ==
    ASSUME TypeOK, NEW id, WorksOn(id), sessionsStore'[id].answer = sessionsStore[id].answer
    PROVE  SameAnswers
  BY TypeFacts DEF SameAnswers, WorksOn

LEMMA CheckSavesNothing ==
    ASSUME TypeOK, NEW u, NEW id, NEW a, NEW checkOnly \in BOOLEAN,
           SubmitAnswer(u, id, a, checkOnly), checkOnly
    PROVE  SameAnswers
  <1>1. /\ WorksOn(id)
        /\ sessionsStore'[id].answer =
             IF checkOnly THEN sessionsStore[id].answer ELSE a
    BY SubmitSummary
  <1> QED BY <1>1, WorkSavesNothing

LEMMA StartSavesNothing ==
    ASSUME TypeOK, NEW u \in Users, NEW e \in Exams, NEW options \in OptionChoices,
           NEW accept, StartNewExamSession(u, e, options, accept)
    PROVE  SameAnswers
  <1> DEFINE id == sessionCount + 1
  <1>1. /\ DOMAIN sessionsStore' = DOMAIN sessionsStore \cup {id}
        /\ \A i \in DOMAIN sessionsStore : sessionsStore'[i] = sessionsStore[i]
        /\ sessionCount' = id /\ reports' = reports
    BY StartSummary
  <1>2. sessionCount \in Nat
    BY TypeFacts
  <1> QED BY <1>1, <1>2 DEF SameAnswers

LEMMA NavigationSavesNothing ==
    ASSUME TypeOK, CInv, NEW t \in Tabs, NavigationSteps(t) PROVE SameAnswers
  <1>1. CASE \E index : PressMove(t, index)
    BY <1>1, NothingSaved DEF PressMove, StartMove, apiVars
  <1>2. CASE \E i : MoveFails(t, i)
    BY <1>2, NothingSaved DEF MoveFails, apiVars
  <1>3. ASSUME NEW u, NEW id, NEW cursor, GetNextQuestion(u, id, cursor) PROVE SameAnswers
    <2>1. WorksOn(id) /\ sessionsStore'[id].answer = sessionsStore[id].answer
      BY <1>3, GetNextSummary
    <2> QED BY <2>1, WorkSavesNothing
  <1>4. ASSUME NEW u, NEW id, NEW cursor, NEW i, SeekCursorTo(u, id, cursor, i)
        PROVE  SameAnswers
    <2>1. WorksOn(id) /\ sessionsStore'[id].answer = sessionsStore[id].answer
      BY <1>4, SeekSummary
    <2> QED BY <2>1, WorkSavesNothing
  <1>5. CASE \E i : ReadAnswered(t, i) \/ ReadLost(t, i)
    BY <1>3, <1>5 DEF ReadAnswered, ReadLost, HandleGetNextQuestion
  <1>6. CASE \E i : SeekAnswered(t, i) \/ SeekLost(t, i)
    BY <1>4, <1>6 DEF SeekAnswered, SeekLost, HandleSeekCursor
  <1> QED BY <1>1, <1>2, <1>5, <1>6 DEF NavigationSteps
-------------------------------------------------------------------------------
-------------------------------------------------------------------------------
\* What a tab, and its memory, look like after a step.
LEMMA QuietSaved ==
    ASSUME TypeOK, TypeOK', SameAnswers, NEW t, NEW page \in 0..sessionCount,
           NEW new, NEW mem, new = tabs'[t], mem = told'[t],
           MemTrue(new, mem), FiledTrue(page, mem),
           page = new.page \/ (mem.answers = {} /\ mem.saved = {})
    PROVE  SavedAt(t)'
  <1>1. FiledTrue(new.page, mem)'
    <2>1. CASE page = new.page
      BY <2>1, SameStaysTrue
    <2>2. CASE mem.answers = {} /\ mem.saved = {}
      BY <2>2 DEF FiledTrue
    <2> QED BY <2>1, <2>2
  <1> QED BY <1>1 DEF SavedAt

LEMMA NavigationSaved ==
    ASSUME TypeOK, TypeOK', CInv, SavedInv, NEW t \in Tabs, NavigationSteps(t)
    PROVE  SavedAt(t)'
  <1>1. PICK tab, new, mem : tab = tabs[t] /\ new = tabs'[t] /\ mem = told[t]
    OBVIOUS
  <1>2. MemTrue(tab, mem) /\ FiledTrue(tab.page, mem)
    BY <1>1 DEF SavedInv, SavedAt
  <1>3. Turns(t, tab, new) /\ tab.moves \in Seq(Navigations) /\ tab.page \in 0..sessionCount
    BY <1>1, TabFacts
  <1>4. Keeps(tab, new, MoveParts) /\ told' = told
    BY <1>3, NavigationEffect
  <1>5. MoveParts \cap {"page", "answers", "saves"} = {}
    BY DEF MoveParts
  <1>6. MemTrue(new, mem) /\ new.page = tab.page
    BY <1>2, <1>4, <1>5, MemKept
  <1>7. mem = told'[t]
    BY <1>1, <1>4
  <1> QED BY <1>1, <1>2, <1>3, <1>6, <1>7, NavigationSavesNothing, QuietSaved

LEMMA SubmitSaved ==
    ASSUME TypeOK, TypeOK', CInv, SavedInv, NEW t \in Tabs, NEW s \in Slots,
           NEW answer, NEW checkOnly, PressSubmit(t, s, answer, checkOnly)
    PROVE  SavedAt(t)'
  <1>1. PICK tab, new, mem : tab = tabs[t] /\ new = tabs'[t] /\ mem = told[t]
    OBVIOUS
  <1>2. MemTrue(tab, mem) /\ FiledTrue(tab.page, mem)
    BY <1>1 DEF SavedInv, SavedAt
  <1>3. told' = told /\ UNCHANGED apiVars
    BY DEF PressSubmit
  <1>4. Turns(t, tab, new)
    BY <1>1, TabFacts
  <1>5. tab.page \in 0..sessionCount /\ tab.answers \in Known \cup {Cold}
    BY <1>1, TabFacts
  <1>6. PICK save, heard : save = new.saves[s] /\ heard = mem.answers
    OBVIOUS
  <1>7. /\ Keeps(tab, new, {"saves"}) /\ OtherSaves(tab, new, s)
        /\ Submitted(save, tab, heard, answer, checkOnly)
    BY <1>1, <1>4, <1>6, SubmitEffect
  <1>8. new.page = tab.page /\ new.answers = tab.answers
    BY <1>7 DEF Keeps, TabFields
  <1>9. save.merged # None => CopyTrue(save)
    <2>1. CASE tab.answers = Cold
      BY <1>7, <2>1 DEF Submitted
    <2>2. CASE tab.answers # Cold
      <3>1. PICK all : all = tab.answers
        OBVIOUS
      <3>2. all \in Known
        BY <1>5, <2>2, <3>1
      <3>3. heard \subseteq Range(Entries(all))
        BY <1>2, <1>6, <2>2, <3>1 DEF MemTrue, CacheTrue
      <3>4. /\ answer \in Range(Merged(all, answer))
            /\ \A b \in Range(Entries(all)) :
                 b.question # answer.question => b \in Range(Merged(all, answer))
        BY <3>2, KnownMerges
      <3>5. save.merged = Merged(all, answer) /\ save.heard = heard /\ save.answer = answer
        BY <1>7, <2>2, <3>1 DEF Submitted
      <3> QED BY <3>3, <3>4, <3>5 DEF CopyTrue
    <2> QED BY <2>1, <2>2
  <1>10. SavesTrue(new)
    BY <1>2, <1>6, <1>7, <1>9 DEF MemTrue, SavesTrue, OtherSaves
  <1>11. MemTrue(new, mem)
    BY <1>2, <1>8, <1>10 DEF MemTrue, CacheTrue
  <1>12. SameAnswers
    BY <1>3, NothingSaved DEF apiVars
  <1>13. mem = told'[t]
    BY <1>1, <1>3
  <1> QED BY <1>1, <1>2, <1>5, <1>8, <1>11, <1>12, <1>13, QuietSaved

\* Nothing of the answers and of the submissions changes.
LEMMA StillSaved ==
    ASSUME TypeOK, TypeOK', CInv, SavedInv, NEW t \in Tabs, UNCHANGED apiVars, told' = told,
           NEW F, \A tab \in {tabs[t]}, new \in {tabs'[t]} : Keeps(tab, new, F),
           F \cap {"page", "answers", "saves"} = {}
    PROVE  SavedAt(t)'
  <1>1. PICK tab, new, mem : tab = tabs[t] /\ new = tabs'[t] /\ mem = told[t]
    OBVIOUS
  <1>2. MemTrue(tab, mem) /\ FiledTrue(tab.page, mem)
    BY <1>1 DEF SavedInv, SavedAt
  <1>3. Keeps(tab, new, F) /\ tab.page \in 0..sessionCount
    BY <1>1, TabFacts
  <1>4. MemTrue(new, mem) /\ new.page = tab.page
    BY <1>2, <1>3, MemKept
  <1>5. SameAnswers
    BY NothingSaved DEF apiVars
  <1>6. mem = told'[t]
    BY <1>1
  <1> QED BY <1>1, <1>2, <1>3, <1>4, <1>5, <1>6, QuietSaved

LEMMA RefreshSaved ==
    ASSUME TypeOK, TypeOK', CInv, SavedInv, NEW t \in Tabs,
           \/ FetchAnswered(t) \/ Open(t) \/ SummaryAnswered(t) \/ SummaryArrives(t)
           \/ PressEnd(t) \/ CancelEnd(t)
    PROVE  SavedAt(t)'
  <1>1. UNCHANGED apiVars /\ told' = told
    BY DEF FetchAnswered, Open, SummaryAnswered, SummaryArrives, PressEnd, CancelEnd
  <1> DEFINE parts == {"refetch", "shown", "news", "summary", "confirm"}
  <1>2. ASSUME NEW tab, NEW new, tab = tabs[t], new = tabs'[t] PROVE Keeps(tab, new, parts)
    <2>1. Turns(t, tab, new)
      BY <1>2, TabFacts
    <2>2. CASE FetchAnswered(t)
      <3>1. Keeps(tab, new, {"refetch"})
        BY <2>1, <2>2, FetchEffect
      <3> QED BY <3>1, KeepsMore
    <2>3. CASE Open(t)
      <3>1. Keeps(tab, new, {"shown"})
        BY <2>1, <2>3, OpenEffect
      <3> QED BY <3>1, KeepsMore
    <2>4. CASE SummaryAnswered(t)
      <3>1. Keeps(tab, new, {"news"})
        BY <2>1, <2>4, NewsEffect
      <3> QED BY <3>1, KeepsMore
    <2>5. CASE SummaryArrives(t)
      <3>1. Keeps(tab, new, {"news", "summary"})
        BY <2>1, <2>5, SummaryEffect
      <3> QED BY <3>1, KeepsMore
    <2>6. CASE PressEnd(t) \/ CancelEnd(t)
      <3>1. Keeps(tab, new, {"confirm"})
        BY <2>1, <2>6, ConfirmEffect
      <3> QED BY <3>1, KeepsMore
    <2> QED BY <2>2, <2>3, <2>4, <2>5, <2>6
  <1>3. parts \cap {"page", "answers", "saves"} = {}
    OBVIOUS
  <1> HIDE DEF parts
  <1>4. \A tab \in {tabs[t]}, new \in {tabs'[t]} : Keeps(tab, new, parts)
    BY <1>2
  <1> QED BY <1>1, <1>3, <1>4, StillSaved

\* What a fetch brings is what the tab merges into; it is told no more than that.
LEMMA ArrivesSaved ==
    ASSUME TypeOK, TypeOK', CInv, SavedInv, NEW t \in Tabs, FetchArrives(t)
    PROVE  SavedAt(t)'
  <1>1. PICK tab, new, mem, less : /\ tab = tabs[t] /\ new = tabs'[t]
                                   /\ mem = told[t] /\ less = told'[t]
    OBVIOUS
  <1>2. MemTrue(tab, mem) /\ FiledTrue(tab.page, mem) /\ DOMAIN told = Tabs
    BY <1>1 DEF SavedInv, SavedAt
  <1>3. UNCHANGED apiVars /\ tab.refetch # None
    BY <1>1 DEF FetchArrives
  <1>4. Turns(t, tab, new)
    BY <1>1, TabFacts
  <1>5. tab.page \in 0..sessionCount /\ tab.refetch[1] \in Known
    BY <1>1, <1>3, TabFacts
  <1>6. PICK saved, known : /\ saved = tab.refetch[1]
                            /\ known = mem.answers \cap Range(Entries(saved))
    OBVIOUS
  <1>7. known = told[t].answers \cap Range(Entries(saved)) /\ saved \in Known
    BY <1>1, <1>5, <1>6
  <1>8. /\ Keeps(tab, new, {"answers", "refetch", "saves"})
        /\ new.answers = saved /\ told' = [told EXCEPT ![t].answers = known]
        /\ DOMAIN new.saves = Slots
        /\ \A s \in Slots : \/ /\ new.saves[s] = tab.saves[s]
                               /\ new.saves[s] # None => new.saves[s].merged # None
                            \/ Filled(tab.saves[s], new.saves[s], saved, known)
    BY <1>4, <1>6, <1>7, <1>3, ArrivesEffect
  <1>9. /\ DOMAIN less = MemFields /\ less.answers = known /\ less.saved = mem.saved
    <2>1. less = [mem EXCEPT !.answers = known]
      BY <1>1, <1>2, <1>8
    <2> QED BY <1>2, <2>1 DEF MemTrue, MemFields
  <1>10. Less0(mem, less)
    BY <1>6, <1>9 DEF Less0
  <1>11. MemTrue(tab, less) /\ FiledTrue(tab.page, less)
    BY <1>2, <1>10, ToldLess
  <1>12. new.page = tab.page
    BY <1>8 DEF Keeps, TabFields
  <1>13. SavesTrue(new)
    <2>1. ASSUME NEW old, NEW full, Filled(old, full, saved, known) PROVE CopyTrue(full)
      <3>1. PICK answer : answer = old.answer
        OBVIOUS
      <3>2. full.answer = answer /\ full.merged = Merged(saved, answer) /\ full.heard = known
        BY <2>1, <3>1 DEF Filled, SavingFields
      <3>3. /\ answer \in Range(Merged(saved, answer))
            /\ \A b \in Range(Entries(saved)) :
                 b.question # answer.question => b \in Range(Merged(saved, answer))
        BY <1>7, KnownMerges
      <3>4. known \subseteq Range(Entries(saved))
        BY <1>6
      <3> QED BY <3>2, <3>3, <3>4 DEF CopyTrue
    <2>2. ASSUME NEW s \in Slots, new.saves[s] # None, new.saves[s].merged # None
          PROVE  CopyTrue(new.saves[s])
      <3>1. CASE new.saves[s] = tab.saves[s]
        BY <1>2, <2>2, <3>1 DEF MemTrue, SavesTrue
      <3>2. CASE Filled(tab.saves[s], new.saves[s], saved, known)
        <4>1. PICK old, full : old = tab.saves[s] /\ full = new.saves[s]
          OBVIOUS
        <4>2. CopyTrue(full)
          BY <2>1, <3>2, <4>1
        <4> QED BY <4>1, <4>2
      <3> QED BY <1>8, <3>1, <3>2
    <2> QED BY <1>8, <2>2 DEF SavesTrue
  <1>14. MemTrue(new, less)
    BY <1>6, <1>8, <1>9, <1>11, <1>12, <1>13 DEF MemTrue, CacheTrue
  <1>15. SameAnswers
    BY <1>3, NothingSaved DEF apiVars
  <1> QED BY <1>1, <1>5, <1>11, <1>12, <1>14, <1>15, QuietSaved

LEMMA FailSaved ==
    ASSUME TypeOK, TypeOK', CInv, SavedInv, NEW t \in Tabs, NEW s \in Slots, SaveFails(t, s)
    PROVE  SavedAt(t)'
  <1>1. PICK tab, new, mem : tab = tabs[t] /\ new = tabs'[t] /\ mem = told[t]
    OBVIOUS
  <1>2. MemTrue(tab, mem) /\ FiledTrue(tab.page, mem)
    BY <1>1 DEF SavedInv, SavedAt
  <1>3. told' = told /\ UNCHANGED apiVars
    BY DEF SaveFails
  <1>4. Turns(t, tab, new)
    BY <1>1, TabFacts
  <1>5. tab.page \in 0..sessionCount
    BY <1>1, TabFacts
  <1>6. Keeps(tab, new, {"saves"}) /\ SavesGoOn(tab, new)
    BY <1>4, DropEffect
  <1>7. new.page = tab.page /\ new.answers = tab.answers
    BY <1>6 DEF Keeps, TabFields
  <1>8. MemTrue(new, mem)
    BY <1>2, <1>6, <1>7, MemGoesOn
  <1>9. SameAnswers
    BY <1>3, NothingSaved DEF apiVars
  <1>10. mem = told'[t]
    BY <1>1, <1>3
  <1> QED BY <1>1, <1>2, <1>5, <1>7, <1>8, <1>9, <1>10, QuietSaved

\* The response to a submission: the cache has what was posted.
LEMMA AnsweredSaved ==
    ASSUME TypeOK, TypeOK', CInv, SavedInv, NEW t \in Tabs, NEW s \in Slots, PostAnswered(t, s)
    PROVE  SavedAt(t)'
  <1>1. PICK tab, new, mem, less : /\ tab = tabs[t] /\ new = tabs'[t]
                                   /\ mem = told[t] /\ less = told'[t]
    OBVIOUS
  <1>2. MemTrue(tab, mem) /\ FiledTrue(tab.page, mem) /\ DOMAIN told = Tabs
    BY <1>1 DEF SavedInv, SavedAt
  <1>3. PICK save : save = tab.saves[s]
    OBVIOUS
  <1>4. UNCHANGED apiVars /\ save # None /\ save.done
    BY <1>1, <1>3 DEF PostAnswered
  <1>5. Turns(t, tab, new)
    BY <1>1, TabFacts
  <1>6. /\ tab.page \in 0..sessionCount /\ IsSave(save)
    BY <1>1, <1>3, <1>4, TabFacts
  <1>7. save.merged # None /\ save.merged \in Answers /\ CopyTrue(save)
    BY <1>2, <1>3, <1>4, <1>6 DEF IsSave, MemTrue, SavesTrue
  <1>8. /\ Keeps(tab, new, PostParts) /\ SavesGoOn(tab, new)
        /\ new.answers = IF save.checkOnly THEN tab.answers ELSE save.merged
    BY <1>3, <1>5, PostEffect
  <1>9. new.page = tab.page
    BY <1>8 DEF Keeps, TabFields, PostParts
  <1>10. SameAnswers
    BY <1>4, NothingSaved DEF apiVars
  <1>11. CASE save.checkOnly
    <2>1. MemTrue(new, mem)
      BY <1>2, <1>8, <1>9, <1>11, MemGoesOn
    <2>2. mem = told'[t]
      BY <1>1, <1>3, <1>11 DEF PostAnswered
    <2> QED BY <1>1, <1>2, <1>6, <1>9, <1>10, <2>1, <2>2, QuietSaved
  <1>12. CASE ~save.checkOnly
    <2>1. PICK known : known = Carried(t, save) \cup ({save.answer} \cap mem.saved)
      OBVIOUS
    <2>2. told' = [told EXCEPT ![t].answers = known]
      BY <1>1, <1>3, <1>12, <2>1 DEF PostAnswered
    <2>3. DOMAIN less = MemFields /\ less.answers = known /\ less.saved = mem.saved
      <3>1. less = [mem EXCEPT !.answers = known]
        BY <1>1, <1>2, <2>2
      <3> QED BY <1>2, <3>1 DEF MemTrue, MemFields
    <2>4. known \subseteq mem.answers \cup mem.saved
      BY <1>1, <2>1 DEF Carried
    <2>5. FiledTrue(tab.page, less)
      BY <1>2, <2>3, <2>4 DEF FiledTrue
    <2>6. known \subseteq Range(save.merged)
      BY <1>7, <2>1 DEF Carried, CopyTrue
    <2>7. new.answers = save.merged /\ Entries(save.merged) = save.merged
      BY <1>7, <1>8, <1>12, AnswersAssumption DEF Entries
    <2>8. SavesTrue(new)
      BY <1>2, <1>8, CopiesGoOn DEF MemTrue
    <2>9. less.answers \subseteq Range(Entries(new.answers))
      BY <2>3, <2>6, <2>7
    <2>10. tab.page = 0 => less.answers = {} /\ less.saved = {}
      BY <1>2, <2>3, <2>4 DEF MemTrue
    <2>11. MemTrue(new, less)
      BY <1>9, <2>3, <2>8, <2>9, <2>10 DEF MemTrue, CacheTrue
    <2> QED BY <1>1, <1>6, <1>9, <1>10, <2>5, <2>11, QuietSaved
  <1> QED BY <1>11, <1>12

\* What another tab was told of a session is forgotten when a submission to it is saved.
Forgets(x, id) ==
    told'[x] = IF tabs[x].page = id THEN [answers |-> {}, saved |-> {}] ELSE told[x]

LEMMA OthersSaved ==
    ASSUME TypeOK, SInv, SavedInv, NEW x \in Tabs, tabs'[x] = tabs[x],
           NEW u, NEW id, NEW a, NEW checkOnly \in BOOLEAN,
           SubmitAnswer(u, id, a, checkOnly), ~checkOnly, Forgets(x, id)
    PROVE  SavedAt(x)'
  <1>1. PICK tab, mem, less : tab = tabs[x] /\ mem = told[x] /\ less = told'[x]
    OBVIOUS
  <1>2. MemTrue(tab, mem) /\ FiledTrue(tab.page, mem)
    BY <1>1 DEF SavedInv, SavedAt
  <1>3. DOMAIN mem = MemFields
    BY <1>2 DEF MemTrue
  <1>4. less = IF tab.page = id THEN [answers |-> {}, saved |-> {}] ELSE mem
    BY <1>1 DEF Forgets
  <1>5. Less0(mem, less) /\ (tab.page = id => less.answers \cup less.saved = {})
    BY <1>3, <1>4 DEF Less0, MemFields
  <1>6. MemTrue(tab, less) /\ FiledTrue(tab.page, less)
    BY <1>2, <1>5, ToldLess
  <1>7. FiledTrue(tab.page, less)'
    BY <1>5, <1>6, SaveStaysTrue
  <1>8. tab = tabs'[x]
    BY <1>1
  <1> QED BY <1>1, <1>6, <1>7, <1>8 DEF SavedAt

LEMMA OthersEnded ==
    ASSUME TypeOK, SInv, CInv, SavedInv, NEW x \in Tabs, told'[x] = told[x],
           tabs'[x] \in {tabs[x], LeftPage(tabs[x])}, NEW u, NEW id, EndExamSession(u, id)
    PROVE  SavedAt(x)'
  <1>1. PICK tab, new, mem : tab = tabs[x] /\ new = tabs'[x] /\ mem = told[x]
    OBVIOUS
  <1>2. MemTrue(tab, mem) /\ FiledTrue(tab.page, mem)
    BY <1>1 DEF SavedInv, SavedAt
  <1>3. MemTrue(new, mem) /\ new.page = tab.page
    <2>1. CASE new = tab
      BY <1>2, <2>1
    <2>2. CASE new = LeftPage(tab)
      <3>1. IsTab(tab)
        BY <1>1, TabFacts
      <3>2. Keeps(tab, new, LeftParts) /\ SavesGoOn(tab, new)
        BY <2>2, <3>1, LeftEffect
      <3>3. new.page = tab.page /\ new.answers = tab.answers
        BY <3>2 DEF Keeps, TabFields, LeftParts
      <3> QED BY <1>2, <3>2, <3>3, MemGoesOn
    <2> QED BY <1>1, <2>1, <2>2
  <1>4. FiledTrue(new.page, mem)'
    BY <1>2, <1>3, EndStaysTrue
  <1>5. mem = told'[x]
    BY <1>1
  <1> QED BY <1>1, <1>3, <1>4, <1>5 DEF SavedAt

LEMMA StaysSaved ==
    ASSUME TypeOK, TypeOK', SameAnswers, CInv, SavedInv, NEW x \in Tabs,
           tabs'[x] = tabs[x], told'[x] = told[x]
    PROVE  SavedAt(x)'
  <1>1. PICK tab, mem : tab = tabs[x] /\ mem = told[x]
    OBVIOUS
  <1>2. MemTrue(tab, mem) /\ FiledTrue(tab.page, mem)
    BY <1>1 DEF SavedInv, SavedAt
  <1>3. tab.page \in 0..sessionCount
    BY <1>1, TabFacts
  <1>4. tab = tabs'[x] /\ mem = told'[x]
    BY <1>1
  <1> QED BY <1>2, <1>3, <1>4, QuietSaved

Saves == (\A x \in Tabs : SavedAt(x)') /\ DOMAIN told' = Tabs

LEMMA OneSaves ==
    ASSUME TypeOK, TypeOK', SameAnswers, CInv, SavedInv, NEW t \in Tabs, SavedAt(t)',
           \A x \in Tabs \ {t} : tabs'[x] = tabs[x],
           \A x \in Tabs \ {t} : told'[x] = told[x], DOMAIN told' = Tabs
    PROVE  Saves
  <1>1. \A x \in Tabs \ {t} : SavedAt(x)'
    BY StaysSaved
  <1> QED BY <1>1 DEF Saves

LEMMA NoneSaves ==
    ASSUME TypeOK, TypeOK', SameAnswers, CInv, SavedInv, tabs' = tabs, told' = told
    PROVE  Saves
  <1>1. \A x \in Tabs : SavedAt(x)'
    BY StaysSaved
  <1> QED BY <1>1 DEF Saves, SavedInv

\* A submission of a tab is carried out: checked, or saved.
LEMMA PostsSaved ==
    ASSUME TypeOK, TypeOK', SInv, CInv, SavedInv, NEW t \in Tabs, NEW s \in Slots, Posts(t, s),
           \A x \in Tabs \ {t} : tabs'[x] = tabs[x]
    PROVE  Saves
  <1>1. PICK tab, new, mem : tab = tabs[t] /\ new = tabs'[t] /\ mem = told[t]
    OBVIOUS
  <1>2. MemTrue(tab, mem) /\ FiledTrue(tab.page, mem) /\ DOMAIN told = Tabs
    BY <1>1 DEF SavedInv, SavedAt
  <1>3. PICK save : save = tab.saves[s]
    OBVIOUS
  <1>4. PICK u, id, a, checkOnly : /\ u = UserOf[t] /\ id = tab.page /\ a = save.merged
                                   /\ checkOnly = save.checkOnly
    OBVIOUS
  <1>5. save # None /\ a # None /\ SubmitAnswer(u, id, a, checkOnly)
    BY <1>1, <1>3, <1>4 DEF Posts, HandleSubmitAnswer
  <1>6. Turns(t, tab, new)
    BY <1>1, TabFacts
  <1>7. tab.page \in 0..sessionCount /\ IsSave(save)
    BY <1>1, <1>3, <1>5, TabFacts
  <1>8. checkOnly \in BOOLEAN /\ a \in Answers /\ CopyTrue(save)
    BY <1>2, <1>3, <1>4, <1>5, <1>7 DEF IsSave, MemTrue, SavesTrue
  <1>9. Keeps(tab, new, {"saves"}) /\ SavesGoOn(tab, new)
    BY <1>6, SendEffect
  <1>10. new.page = tab.page /\ new.answers = tab.answers
    BY <1>9 DEF Keeps, TabFields
  <1>11. MemTrue(new, mem)
    BY <1>2, <1>9, <1>10, MemGoesOn
  <1>12. CASE checkOnly
    <2>1. told' = told
      BY <1>1, <1>3, <1>4, <1>12 DEF Posts
    <2>2. SameAnswers
      BY <1>5, <1>8, <1>12, CheckSavesNothing
    <2>3. mem = told'[t]
      BY <1>1, <2>1
    <2>4. SavedAt(t)'
      BY <1>1, <1>2, <1>7, <1>10, <1>11, <2>2, <2>3, QuietSaved
    <2> QED BY <1>2, <2>1, <2>2, <2>4, OneSaves
  <1>13. CASE ~checkOnly
    <2>1. told' = ToldAt(id, t, save)
      BY <1>1, <1>3, <1>4, <1>13 DEF Posts
    <2>2. DOMAIN told' = Tabs /\ \A x \in Tabs \ {t} : Forgets(x, id)
      BY <2>1 DEF ToldAt, Forgets
    <2>3. PICK less, known : less = told'[t] /\ known = Carried(t, save)
      OBVIOUS
    <2>4. /\ DOMAIN less = MemFields /\ less.answers = known /\ less.saved = {save.answer}
      BY <2>1, <2>3 DEF ToldAt, MemFields
    <2>5. known \subseteq mem.answers /\ known \subseteq save.heard
          /\ \A b \in known : b.question # save.answer.question
      BY <1>1, <2>3 DEF Carried
    <2>6. Entries(a) = a
      BY <1>8, AnswersAssumption DEF Entries
    <2>7. less.answers \cup less.saved \subseteq Range(Entries(a))
      BY <1>4, <1>8, <2>4, <2>5, <2>6 DEF CopyTrue
    <2>8. FiledTrue(id, less)'
      BY <1>5, <1>8, <1>13, <2>7, SaveStaysTrue
    <2>9. id # 0
      <3>1. id \in 1..sessionCount
        BY <1>5, <1>8, SubmitSummary, TypeFacts DEF WorksOn
      <3> QED BY <3>1
    <2>10. MemTrue(new, less)
      BY <1>4, <1>10, <1>11, <2>4, <2>5, <2>9 DEF MemTrue, CacheTrue
    <2>11. SavedAt(t)'
      BY <1>1, <1>4, <1>10, <2>3, <2>8, <2>10 DEF SavedAt
    <2>12. ASSUME NEW x \in Tabs \ {t} PROVE SavedAt(x)'
      BY <1>5, <1>8, <1>13, <2>2, OthersSaved
    <2> QED BY <2>2, <2>11, <2>12 DEF Saves
  <1> QED BY <1>8, <1>12, <1>13

LEMMA LoadSaved ==
    ASSUME TypeOK, TypeOK', CInv, SavedInv, NEW t \in Tabs, NEW id, Load(t, id)
    PROVE  SavedAt(t)'
  <1>1. PICK tab, new, mem : tab = tabs[t] /\ new = tabs'[t] /\ mem = told[t]
    OBVIOUS
  <1>2. MemTrue(tab, mem) /\ FiledTrue(tab.page, mem)
    BY <1>1 DEF SavedInv, SavedAt
  <1>3. PICK excerpt : excerpt = Excerpt(id)
    OBVIOUS
  <1>4. Turns(t, tab, new)
    BY <1>1, TabFacts
  <1>5. told' = told /\ UNCHANGED apiVars /\ tab.page \in {0, id} /\ tab.page \in 0..sessionCount
    BY <1>1, TabFacts DEF Load
  <1>6. Fresh(new, id, excerpt) /\ SavesGoOn(tab, new)
    BY <1>3, <1>4, LoadEffect
  <1>7. new.page = id /\ new.answers = Cold
    BY <1>6 DEF Fresh
  <1>8. MemTrue(new, mem)
    BY <1>2, <1>5, <1>6, <1>7, MemGoesOn
  <1>9. tab.page = new.page \/ (mem.answers = {} /\ mem.saved = {})
    BY <1>2, <1>5, <1>7 DEF MemTrue
  <1>10. SameAnswers
    BY <1>5, NothingSaved DEF apiVars
  <1>11. mem = told'[t]
    BY <1>1, <1>5
  <1> QED BY <1>1, <1>2, <1>5, <1>8, <1>9, <1>10, <1>11, QuietSaved

LEMMA LeaveSaved ==
    ASSUME TypeOK, TypeOK', CInv, SavedInv, NEW t \in Tabs, Leave(t)
    PROVE  SavedAt(t)'
  <1>1. PICK tab, new, mem : tab = tabs[t] /\ new = tabs'[t] /\ mem = told[t]
    OBVIOUS
  <1>2. MemTrue(tab, mem) /\ FiledTrue(tab.page, mem)
    BY <1>1 DEF SavedInv, SavedAt
  <1>3. /\ told' = told /\ UNCHANGED apiVars /\ tab.page \in 0..sessionCount
        /\ IsTab(tab) /\ DOMAIN tabs = Tabs
    BY <1>1, TabFacts DEF Leave, CInv
  <1>4. new = LeftPage(tab)
    BY <1>1, <1>3 DEF Leave
  <1>5. Keeps(tab, new, LeftParts) /\ SavesGoOn(tab, new)
    BY <1>3, <1>4, LeftEffect
  <1>6. new.page = tab.page /\ new.answers = tab.answers
    BY <1>5 DEF Keeps, TabFields, LeftParts
  <1>7. MemTrue(new, mem)
    BY <1>2, <1>5, <1>6, MemGoesOn
  <1>8. SameAnswers
    BY <1>3, NothingSaved DEF apiVars
  <1>9. mem = told'[t]
    BY <1>1, <1>3
  <1> QED BY <1>1, <1>2, <1>3, <1>6, <1>7, <1>8, <1>9, QuietSaved

LEMMA AnswersSave ==
    ASSUME TypeOK, TypeOK', SInv, CInv, SavedInv, NEW t \in Tabs, AnswerSteps(t)
    PROVE  Saves
  <1>1. \A x \in Tabs \ {t} : tabs'[x] = tabs[x]
    BY OthersStay
  <1>2. DOMAIN told = Tabs
    BY DEF SavedInv
  <1>3. ASSUME UNCHANGED apiVars, SavedAt(t)', NEW mem, told' = [told EXCEPT ![t] = mem]
        PROVE  Saves
    <2>1. SameAnswers
      BY <1>3, NothingSaved DEF apiVars
    <2>2. DOMAIN told' = Tabs /\ \A x \in Tabs \ {t} : told'[x] = told[x]
      BY <1>2, <1>3
    <2> QED BY <1>1, <1>3, <2>1, <2>2, OneSaves
  <1>4. ASSUME UNCHANGED apiVars, SavedAt(t)', told' = told PROVE Saves
    <2>1. SameAnswers
      BY <1>4, NothingSaved DEF apiVars
    <2> QED BY <1>1, <1>2, <1>4, <2>1, OneSaves
  <1>5. CASE FetchAnswered(t)
    BY <1>4, <1>5, RefreshSaved DEF FetchAnswered
  <1>6. CASE FetchArrives(t)
    <2>1. PICK known : told' = [told EXCEPT ![t].answers = known]
      BY <1>6 DEF FetchArrives
    <2>2. PICK mem : mem = [told[t] EXCEPT !.answers = known]
      OBVIOUS
    <2>3. told' = [told EXCEPT ![t] = mem]
      BY <2>1, <2>2
    <2>4. UNCHANGED apiVars /\ SavedAt(t)'
      BY <1>6, ArrivesSaved DEF FetchArrives
    <2> QED BY <1>3, <2>3, <2>4
  <1>7. ASSUME NEW s \in Slots, NEW answer, NEW checkOnly, PressSubmit(t, s, answer, checkOnly)
        PROVE  Saves
    <2>1. UNCHANGED apiVars /\ told' = told
      BY <1>7 DEF PressSubmit
    <2>2. SavedAt(t)'
      BY <1>7, SubmitSaved
    <2> QED BY <1>4, <2>1, <2>2
  <1>8. ASSUME NEW s \in Slots, Posts(t, s) PROVE Saves
    BY <1>1, <1>8, PostsSaved
  <1>9. ASSUME NEW s \in Slots, PostAnswered(t, s) PROVE Saves
    <2>1. UNCHANGED apiVars /\ SavedAt(t)'
      BY <1>9, AnsweredSaved DEF PostAnswered
    <2>2. CASE told' = told
      BY <1>4, <2>1, <2>2
    <2>3. CASE told' # told
      <3>1. PICK known : told' = [told EXCEPT ![t].answers = known]
        BY <1>9, <2>3 DEF PostAnswered
      <3>2. PICK mem : mem = [told[t] EXCEPT !.answers = known]
        OBVIOUS
      <3>3. told' = [told EXCEPT ![t] = mem]
        BY <3>1, <3>2
      <3> QED BY <1>3, <2>1, <3>3
    <2> QED BY <2>2, <2>3
  <1>10. ASSUME NEW s \in Slots, SaveFails(t, s) PROVE Saves
    BY <1>4, <1>10, FailSaved DEF SaveFails
  <1> QED BY <1>5, <1>6, <1>7, <1>8, <1>9, <1>10 DEF AnswerSteps

LEMMA EndSaves ==
    ASSUME TypeOK, SInv, CInv, SavedInv, NEW t \in Tabs, NEW id,
           EndAnswered(t, id) \/ EndLost(t, id)
    PROVE  Saves
  <1>1. EndExamSession(UserOf[t], id) /\ told' = told
    BY DEF EndAnswered, EndLost, Ends, HandleDelete
  <1>2. \A x \in Tabs : tabs'[x] \in {tabs[x], LeftPage(tabs[x])}
    <2>1. PICK page : page = LeftPage(tabs[t])
      OBVIOUS
    <2>2. tabs' = [tabs EXCEPT ![t] = page] \/ tabs' = tabs
      BY <2>1 DEF EndAnswered, EndLost
    <2>3. DOMAIN tabs = Tabs
      BY DEF CInv
    <2> QED BY <2>1, <2>2, <2>3
  <1>3. \A x \in Tabs : SavedAt(x)'
    BY <1>1, <1>2, OthersEnded
  <1> QED BY <1>1, <1>3 DEF Saves, SavedInv

LEMMA SessionsSave ==
    ASSUME TypeOK, TypeOK', SInv, CInv, SavedInv, NEW t \in Tabs, SessionSteps(t)
    PROVE  Saves
  <1>1. CASE \E id : EndAnswered(t, id) \/ EndLost(t, id)
    BY <1>1, EndSaves
  <1>2. ASSUME NEW e \in budget.exams, NEW options \in budget.options, NEW accept,
               Create(t, e, options, accept)
        PROVE  Saves
    <2>1. e \in Exams /\ options \in OptionChoices /\ UserOf[t] \in Users
      BY TabsAssumption DEF CInv, BudgetKept, Budget
    <2>2. StartNewExamSession(UserOf[t], e, options, accept) /\ tabs' = tabs /\ told' = told
      BY <1>2 DEF Create, HandleCreate
    <2>3. PICK u : u = UserOf[t]
      OBVIOUS
    <2>4. SameAnswers
      BY <2>1, <2>2, <2>3, StartSavesNothing
    <2> QED BY <2>2, <2>4, NoneSaves
  <1>3. ASSUME UNCHANGED apiVars, told' = told, SavedAt(t)' PROVE Saves
    <2>1. SameAnswers
      BY <1>3, NothingSaved DEF apiVars
    <2>2. \A x \in Tabs \ {t} : tabs'[x] = tabs[x]
      BY OthersStay
    <2> QED BY <1>3, <2>1, <2>2, OneSaves DEF SavedInv
  <1>4. ASSUME NEW id, Load(t, id) PROVE Saves
    BY <1>3, <1>4, LoadSaved DEF Load
  <1>5. CASE Leave(t)
    BY <1>3, <1>5, LeaveSaved DEF Leave
  <1>6. CASE \/ Open(t) \/ SummaryAnswered(t) \/ SummaryArrives(t)
             \/ PressEnd(t) \/ CancelEnd(t)
    <2>1. UNCHANGED apiVars /\ told' = told
      BY <1>6 DEF Open, SummaryAnswered, SummaryArrives, PressEnd, CancelEnd
    <2> QED BY <1>3, <1>6, <2>1, RefreshSaved
  <1> QED BY <1>1, <1>2, <1>4, <1>5, <1>6 DEF SessionSteps

LEMMA NavigationSaves ==
    ASSUME TypeOK, TypeOK', CInv, SavedInv, NEW t \in Tabs, NavigationSteps(t)
    PROVE  Saves
  <1>1. PICK tab, new : tab = tabs[t] /\ new = tabs'[t]
    OBVIOUS
  <1>2. Turns(t, tab, new) /\ tab.moves \in Seq(Navigations)
    BY <1>1, TabFacts
  <1>3. told' = told
    BY <1>2, NavigationEffect
  <1>4. SavedAt(t)' /\ SameAnswers
    BY NavigationSaved, NavigationSavesNothing
  <1>5. \A x \in Tabs \ {t} : tabs'[x] = tabs[x]
    BY OthersStay
  <1> QED BY <1>3, <1>4, <1>5, OneSaves DEF SavedInv

LEMMA RawSaves ==
    ASSUME TypeOK, TypeOK', SInv, CInv, SavedInv, NEW u, NEW id, NEW a,
           NEW checkOnly \in BOOLEAN, RawPost(u, id, a, checkOnly)
    PROVE  Saves
  <1>1. SubmitAnswer(u, id, a, checkOnly) /\ tabs' = tabs
    BY DEF RawPost, HandleSubmitAnswer
  <1>2. CASE checkOnly
    <2>1. told' = told
      BY <1>2 DEF RawPost
    <2> QED BY <1>1, <1>2, <2>1, CheckSavesNothing, NoneSaves
  <1>3. CASE ~checkOnly
    <2>1. DOMAIN told' = Tabs /\ \A x \in Tabs : Forgets(x, id)
      BY <1>3 DEF RawPost, Forgets
    <2>2. ASSUME NEW x \in Tabs PROVE SavedAt(x)'
      BY <1>1, <1>3, <2>1, OthersSaved
    <2> QED BY <2>1, <2>2 DEF Saves
  <1> QED BY <1>2, <1>3

LEMMA SavedStep ==
    ASSUME TypeOK, TypeOK', SInv, CInv, SavedInv, ClientNext PROVE SavedInv'
  <1>1. budget.tabs \subseteq Tabs
    BY DEF CInv, BudgetKept, Budget
  <1>2. ASSUME NEW u, NEW i, DeleteTracking(u, i) PROVE Saves
    <2>1. SameAnswers /\ tabs' = tabs /\ told' = told
      BY <1>2, NothingSaved DEF DeleteTracking, HandleDeleteTracking
    <2> QED BY <2>1, NoneSaves
  <1>3. Saves
    BY <1>1, <1>2, NavigationSaves, AnswersSave, SessionsSave, RawSaves DEF ClientNext
  <1> QED BY <1>3 DEF Saves, SavedInv

LEMMA SavedStutter == ASSUME SavedInv, UNCHANGED allVars PROVE SavedInv'
  <1>1. UNCHANGED <<sessionsStore, sessionCount, reports, tabs, told>>
    BY DEF allVars, apiVars, vars, serverVars, clientVars
  <1> QED BY <1>1 DEF SavedInv, SavedAt, FiledTrue

LEMMA SavedInit == ClientInit => SavedInv
  <1>1. SUFFICES ASSUME ClientInit PROVE SavedInv
    OBVIOUS
  <1>2. sessionsStore = <<>> /\ reports = <<>>
    BY <1>1 DEF ClientInit, ApiInit, Init
  <1>3. DOMAIN told = Tabs
    BY <1>1 DEF ClientInit
  <1>4. ASSUME NEW t \in Tabs, NEW tab, NEW mem, tab = tabs[t], mem = told[t]
        PROVE  MemTrue(tab, mem) /\ FiledTrue(tab.page, mem)
    <2>1. tab = ListPage /\ mem = [answers |-> {}, saved |-> {}]
      BY <1>1, <1>4 DEF ClientInit
    <2>2. Fresh(tab, 0, NoExcerpt) /\ tab.saves = [s \in Slots |-> None]
      BY <2>1, ListEffect
    <2>3. DOMAIN mem = MemFields /\ mem.answers = {} /\ mem.saved = {}
      BY <2>1 DEF MemFields
    <2>4. SavesTrue(tab)
      BY <2>2 DEF SavesTrue
    <2> QED BY <1>2, <2>2, <2>3, <2>4 DEF MemTrue, CacheTrue, FiledTrue, Fresh
  <1> QED BY <1>3, <1>4 DEF SavedInv, SavedAt

LEMMA SavedFollows == ASSUME SavedInv PROVE SavedAnswersKept
  <1>1. \A t \in Tabs : FiledTrue(tabs[t].page, told[t])
    BY DEF SavedInv, SavedAt
  <1> QED BY <1>1 DEF SavedAnswersKept, FiledTrue, MyAnswer

\* What a tab was told is saved is in the submission of the session, and in its report
\* once it has ended, whatever is checked, lost, refused, retried, left, reopened or loaded
\* again: until another client posts to the session, a fetch answered before the save
\* arrives after it, or an earlier submission of the tab itself is carried out after it.
THEOREM SavedAreKept == ClientSpec => []SavedAnswersKept
  <1>1. TypeOK /\ SInv /\ CInv /\ (TypeOK /\ SInv /\ CInv)' /\ SavedInv /\ [ClientNext]_allVars
          => SavedInv'
    BY SavedStep, SavedStutter
  <1> QED BY <1>1, SavedInit, SavedFollows, ClientInvariant, PTL DEF ClientSpec
-------------------------------------------------------------------------------
(***************************************************************************)
(* What a page may hold.  The indexes it asks for stay within its session  *)
(* because the paper of a session never changes and its id is never used   *)
(* again, so that whatever summary a tab still shows counts its questions. *)
(***************************************************************************)
PapersFill ==
    \A id \in DOMAIN sessionsStore : \E n \in Nat : DOMAIN sessionsStore[id].paper = 0..n

PapersStay ==
    \A id \in DOMAIN sessionsStore' : id \in 1..sessionCount =>
      id \in DOMAIN sessionsStore /\ sessionsStore'[id].paper = sessionsStore[id].paper

LEMMA WorkKeepsPapers ==
    ASSUME PapersFill, NEW id, WorksOn(id) PROVE PapersFill' /\ PapersStay
  <1>1. \A i \in DOMAIN sessionsStore' :
          i \in DOMAIN sessionsStore /\ sessionsStore'[i].paper = sessionsStore[i].paper
    BY DEF WorksOn
  <1> QED BY <1>1 DEF PapersFill, PapersStay

LEMMA NextPapers ==
    ASSUME TypeOK, TypeOK', PapersFill, [Next]_vars PROVE PapersFill' /\ PapersStay
  <1>1. ASSUME NEW u \in Users, NEW e \in Exams, NEW options \in OptionChoices, NEW accept,
               StartNewExamSession(u, e, options, accept)
        PROVE  PapersFill' /\ PapersStay
    <2> DEFINE id == sessionCount + 1
    <2>1. /\ DOMAIN sessionsStore' = DOMAIN sessionsStore \cup {id}
          /\ \A i \in DOMAIN sessionsStore : sessionsStore'[i] = sessionsStore[i]
          /\ \E n \in Nat : DOMAIN sessionsStore'[id].paper = 0..n
      BY <1>1, StartDetail
    <2>2. id \notin 1..sessionCount
      BY TypeFacts
    <2> HIDE DEF id
    <2> QED BY <2>1, <2>2 DEF PapersFill, PapersStay
  <1>2. ASSUME NEW u, NEW id, NEW c, GetNextQuestion(u, id, c) PROVE PapersFill' /\ PapersStay
    BY <1>2, GetNextSummary, WorkKeepsPapers
  <1>3. ASSUME NEW u, NEW id, NEW c, NEW i, SeekCursorTo(u, id, c, i)
        PROVE  PapersFill' /\ PapersStay
    BY <1>3, SeekSummary, WorkKeepsPapers
  <1>4. ASSUME NEW u, NEW id, NEW a, NEW checkOnly \in BOOLEAN, SubmitAnswer(u, id, a, checkOnly)
        PROVE  PapersFill' /\ PapersStay
    BY <1>4, SubmitSummary, WorkKeepsPapers
  <1>5. ASSUME NEW u, NEW id, EndExamSession(u, id) PROVE PapersFill' /\ PapersStay
    <2>1. /\ DOMAIN sessionsStore' = DOMAIN sessionsStore \ {id}
          /\ \A i \in DOMAIN sessionsStore' : sessionsStore'[i] = sessionsStore[i]
      BY <1>5, EndSummary
    <2> QED BY <2>1 DEF PapersFill, PapersStay
  <1>6. ASSUME \/ UNCHANGED vars \/ \E u, id : EndExamSessionFails(u, id)
        PROVE  PapersFill' /\ PapersStay
    <2>1. UNCHANGED sessionsStore
      BY <1>6 DEF EndExamSessionFails, AfterFailedReport, vars, serverVars
    <2> QED BY <2>1 DEF PapersFill, PapersStay
  <1> QED BY <1>1, <1>2, <1>3, <1>4, <1>5, <1>6 DEF Next

LEMMA ExcerptTyped ==
    ASSUME TypeOK, PapersFill, NEW id \in DOMAIN sessionsStore, NEW excerpt,
           excerpt = Excerpt(id)
    PROVE  /\ excerpt \in Excerpts
           /\ excerpt.questions = Cardinality(DOMAIN sessionsStore[id].paper)
  <1>1. PICK sess : sess = sessionsStore[id]
    OBVIOUS
  <1>2. /\ sess.exam \in Exams /\ sess.index \in Int
        /\ sess.question \in Served \cup {NoQuestion}
    BY <1>1, TypeFacts DEF IsSession
  <1>3. PICK questions, practice, seekable :
              /\ questions = Cardinality(DOMAIN sess.paper)
              /\ practice = (Catalogue[sess.exam].category = "practice")
              /\ seekable = ("seekable" \in sess.options)
    OBVIOUS
  <1>4. practice \in BOOLEAN /\ seekable \in BOOLEAN
    BY <1>3
  <1>5. questions \in Nat
    <2>1. PICK n \in Nat : DOMAIN sess.paper = 0..n
      BY <1>1 DEF PapersFill
    <2>2. IsFiniteSet(0..n)
      BY FS_Interval
    <2> QED BY <1>3, <2>1, <2>2, FS_CardinalityType
  <1>6. excerpt = [exam |-> sess.exam, index |-> sess.index, question |-> sess.question,
                   questions |-> questions, seekable |-> seekable, practice |-> practice]
    BY <1>1, <1>3 DEF Excerpt
  <1>7. excerpt \in Excerpts /\ excerpt.questions = questions
    BY <1>2, <1>4, <1>5, <1>6 DEF Excerpts
  <1> QED BY <1>1, <1>3, <1>7
-------------------------------------------------------------------------------
\* Of a tab: what it shows, asks for and waits for.
Looks(tab) ==
    /\ tab.summary \in Excerpts /\ tab.position \in Shown
    /\ tab.news # None => tab.news[1] \in Excerpts /\ tab.news[1].questions = tab.summary.questions
    /\ tab.shown \in BOOLEAN /\ tab.watched \in BOOLEAN /\ tab.confirm \in BOOLEAN
    /\ tab.checked \in AnswerOfUser \cup {None}

MovesFit(tab) ==
    /\ Len(tab.moves) <= 2
    /\ \A i \in DOMAIN tab.moves : tab.moves[i].index < tab.summary.questions

SavesFit(tab) ==
    /\ Onward(tab.saves, tab.summary.questions)
    /\ \A s \in Slots : tab.saves[s] # None => tab.saves[s].of \in {"page", "tab", "nobody"}

Shaped(tab) == Looks(tab) /\ MovesFit(tab) /\ SavesFit(tab)

Counted(tab, store) ==
    tab.page \in DOMAIN store =>
      tab.summary.questions = Cardinality(DOMAIN store[tab.page].paper)

ShapedAt(t) == \A tab \in {tabs[t]}, store \in {sessionsStore} :
                 Shaped(tab) /\ Counted(tab, store)

ShapesInv == PapersFill /\ \A t \in Tabs : ShapedAt(t)

LEMMA NoPositionShown == NoPosition \in Shown
  BY DEF NoPosition, Shown

\* The session of a tab counts as many questions as before, if it is live at all.
LEMMA StaysCounted ==
    ASSUME CInv, PapersStay, NEW t \in Tabs, NEW tab, NEW new, tab = tabs[t],
           TypeOK, TypeOK',
           new.page = tab.page, new.summary.questions = tab.summary.questions,
           Counted(tab, sessionsStore), Shaped(new), new = tabs'[t]
    PROVE  ShapedAt(t)'
  <1>1. tab.page \in 0..sessionCount /\ sessionCount \in Nat
    BY TabFacts, TypeFacts
  <1>2. DOMAIN sessionsStore' \subseteq 1..sessionCount'
    BY TypeFacts DEF TypeOK, SessionsTyped
  <1>3. PICK store : store = sessionsStore'
    OBVIOUS
  <1>4. 0 \notin DOMAIN store
    <2>1. 0 \notin 1..sessionCount'
      BY DEF TypeOK
    <2> QED BY <1>2, <1>3, <2>1
  <1>5. Counted(new, store)
    BY <1>1, <1>3, <1>4 DEF Counted, PapersStay
  <1> QED BY <1>3, <1>5 DEF ShapedAt

Ready(tab) == IsTab(tab) /\ Shaped(tab) /\ tab.moves \in Seq(Navigations)

LEMMA ShapeOpen ==
    ASSUME ShapesInv, CInv, NEW t \in Tabs, NEW tab, NEW new, tab = tabs[t], new = tabs'[t]
    PROVE  /\ Shaped(tab) /\ Counted(tab, sessionsStore) /\ Ready(tab) /\ Turns(t, tab, new)
           /\ DOMAIN tabs = Tabs
  BY TabFacts DEF ShapesInv, ShapedAt, Ready, CInv

\* What the parts of a shape that stay are worth.
LEMMA ShapeKept ==
    ASSUME NEW tab, NEW new, NEW F, Keeps(tab, new, F), Looks(tab)
    PROVE  /\ F \cap {"summary", "position", "news", "shown", "watched", "confirm", "checked"} = {}
              => Looks(new)
           /\ F \cap {"moves", "summary"} = {} /\ MovesFit(tab) => MovesFit(new)
           /\ F \cap {"saves", "summary"} = {} /\ SavesFit(tab) => SavesFit(new)
  BY DEF Keeps, TabFields, Looks, MovesFit, SavesFit

LEMMA SavesFitOn ==
    ASSUME NEW tab, NEW new, SavesFit(tab), SavesGoOn(tab, new), new.summary = tab.summary
    PROVE  SavesFit(new)
  <1>1. Onward(new.saves, tab.summary.questions)
    BY GoOnOnward DEF SavesFit
  <1>2. ASSUME NEW s \in Slots, new.saves[s] # None
        PROVE  new.saves[s].of \in {"page", "tab", "nobody"}
    <2>1. SameSave(tab.saves[s], new.saves[s])
      BY <1>2 DEF SavesGoOn
    <2>2. tab.saves[s] # None /\ new.saves[s].of \in {tab.saves[s].of, "tab", "nobody"}
      BY <2>1 DEF SameSave
    <2> QED BY <2>2 DEF SavesFit
  <1> QED BY <1>1, <1>2 DEF SavesFit

LEMMA MoveFits ==
    ASSUME NEW moves \in Seq(Navigations), NEW nav, NEW n, Len(moves) < 2, nav.index < n,
           \A i \in DOMAIN moves : moves[i].index < n, NEW more, more = Append(moves, nav)
    PROVE  Len(more) <= 2 /\ \A i \in DOMAIN more : more[i].index < n
  <1>1. PICK S : S = Navigations \cup {nav}
    OBVIOUS
  <1>2. moves \in Seq(S) /\ nav \in S
    BY <1>1
  <1>3. /\ Len(more) = Len(moves) + 1 /\ Len(moves) \in Nat
        /\ \A i \in DOMAIN more : \/ i \in DOMAIN moves /\ more[i] = moves[i]
                                  \/ more[i] = nav
    BY <1>2
  <1> QED BY <1>3

LEMMA PressShape ==
    ASSUME NEW tab, Ready(tab),
           NEW index, NEW seek, NEW new, new = WithMove(tab, index, seek),
           InExam(tab, index), Len(tab.moves) < 2
    PROVE  Shaped(new) /\ new.page = tab.page /\ new.summary = tab.summary
  <1>0. /\ DOMAIN tab = TabFields /\ Looks(tab) /\ MovesFit(tab) /\ SavesFit(tab)
        /\ tab.moves \in Seq(Navigations)
    BY DEF Ready, IsTab, Shaped
  <1>1. PICK nav : nav = Navigation(tab, index, seek)
    OBVIOUS
  <1>2. /\ Keeps(tab, new, {"moves", "watched", "position"})
        /\ new.moves = Append(tab.moves, nav)
        /\ new.watched = TRUE /\ new.position = NoPosition
    BY <1>0, <1>1, WithMoveEffect
  <1>3. nav.index = index
    BY <1>1 DEF Navigation
  <1>4. /\ new.page = tab.page /\ new.summary = tab.summary /\ new.checked = tab.checked
        /\ new.shown = tab.shown /\ new.confirm = tab.confirm /\ new.news = tab.news
        /\ new.saves = tab.saves
    BY <1>2 DEF Keeps, TabFields
  <1>5. tab.summary.questions \in Nat
    BY <1>0 DEF Looks, Excerpts
  <1>6. index < tab.summary.questions
    BY <1>5 DEF InExam
  <1>7. MovesFit(new)
    BY <1>0, <1>2, <1>3, <1>4, <1>6, MoveFits DEF MovesFit
  <1>8. Looks(new) /\ SavesFit(new)
    BY <1>0, <1>2, <1>4, NoPositionShown DEF Looks, SavesFit
  <1> QED BY <1>4, <1>7, <1>8 DEF Shaped

LEMMA DropShape ==
    ASSUME NEW tab, Ready(tab),
           NEW i \in DOMAIN tab.moves, NEW new, new = WithoutMove(tab, i)
    PROVE  Shaped(new) /\ new.page = tab.page /\ new.summary = tab.summary
  <1>0. /\ DOMAIN tab = TabFields /\ Looks(tab) /\ MovesFit(tab) /\ SavesFit(tab)
        /\ tab.moves \in Seq(Navigations)
    BY DEF Ready, IsTab, Shaped
  <1>1. /\ Keeps(tab, new, {"moves", "watched"}) /\ new.moves = RemoveAt(tab.moves, i)
        /\ new.watched = (tab.watched /\ i # Len(tab.moves))
    BY <1>0, WithoutMoveEffect
  <1>2. /\ new.page = tab.page /\ new.summary = tab.summary /\ new.checked = tab.checked
        /\ new.shown = tab.shown /\ new.confirm = tab.confirm /\ new.news = tab.news
        /\ new.saves = tab.saves /\ new.position = tab.position
    BY <1>1 DEF Keeps, TabFields
  <1>3. /\ Len(new.moves) = Len(tab.moves) - 1 /\ Len(tab.moves) \in Nat
        /\ \A j \in DOMAIN new.moves : \E k \in DOMAIN tab.moves : new.moves[j] = tab.moves[k]
    BY <1>0, <1>1, RemoveExact, RemoveFacts
  <1>4. new.watched \in BOOLEAN
    BY <1>1
  <1>5. MovesFit(new)
    BY <1>0, <1>2, <1>3 DEF MovesFit
  <1>6. Looks(new) /\ SavesFit(new)
    BY <1>0, <1>2, <1>4 DEF Looks, SavesFit
  <1> QED BY <1>2, <1>5, <1>6 DEF Shaped

LEMMA ArriveShape ==
    ASSUME NEW tab, Ready(tab),
           NEW i \in DOMAIN tab.moves, NEW question \in Served \cup {NoQuestion}, NEW next,
           NEW new, new = Arrived(tab, i, question, next)
    PROVE  /\ Shaped(new) /\ new.page = tab.page
           /\ new.summary.questions = tab.summary.questions
  <1>0. /\ DOMAIN tab = TabFields /\ Looks(tab) /\ MovesFit(tab) /\ SavesFit(tab)
        /\ tab.moves \in Seq(Navigations)
    BY DEF Ready, IsTab, Shaped
  <1>1. PICK index, moves : index = tab.moves[i].index /\ moves = tab.moves
    OBVIOUS
  <1>2. /\ Keeps(tab, new, MoveParts) /\ Shows(tab, new, index, question)
        /\ new.moves = RemoveAt(moves, i) /\ new.watched \in BOOLEAN
    BY <1>0, <1>1, ArrivedEffect
  <1>3. /\ new.page = tab.page /\ new.checked = tab.checked /\ new.news = tab.news
        /\ new.shown = tab.shown /\ new.confirm = tab.confirm /\ new.saves = tab.saves
    BY <1>2 DEF Keeps, TabFields, MoveParts
  <1>4. /\ Len(new.moves) = Len(moves) - 1 /\ Len(moves) \in Nat
        /\ \A j \in DOMAIN new.moves : \E k \in DOMAIN moves : new.moves[j] = moves[k]
    BY <1>0, <1>1, <1>2, RemoveExact, RemoveFacts
  <1>5. index \in Int
    <2>1. PICK nav : nav = tab.moves[i]
      OBVIOUS
    <2>2. nav \in Navigations
      BY <1>0, <2>1
    <2> QED BY <1>1, <2>1, <2>2 DEF Navigations
  <1>6. new.summary \in Excerpts /\ new.summary.questions = tab.summary.questions
    <2>1. PICK summary, after : summary = tab.summary /\ after = new.summary
      OBVIOUS
    <2>2. summary \in Excerpts /\ after = [summary EXCEPT !.index = index, !.question = question]
      BY <1>0, <1>2, <2>1 DEF Looks, Shows
    <2>3. PICK asked : asked = Served \cup {NoQuestion} /\ question \in asked
      OBVIOUS
    <2>4. after \in Excerpts /\ after.questions = summary.questions
      BY <1>5, <2>2, <2>3 DEF Excerpts
    <2> QED BY <2>1, <2>4
  <1>7. new.position \in Shown
    <2>1. [index |-> index, question |-> question] \in Shown
      BY <1>5 DEF Shown
    <2> QED BY <1>0, <1>2, <2>1 DEF Looks, Shows
  <1>8. MovesFit(new)
    BY <1>0, <1>1, <1>4, <1>6 DEF MovesFit
  <1>9. Looks(new)
    BY <1>0, <1>2, <1>3, <1>6, <1>7 DEF Looks
  <1>10. SavesFit(new)
    BY <1>0, <1>3, <1>6 DEF SavesFit
  <1> QED BY <1>3, <1>6, <1>8, <1>9, <1>10 DEF Shaped

LEMMA GoOnShape ==
    ASSUME NEW tab, Ready(tab),
           NEW i \in DOMAIN tab.moves, NEW on, on.index = tab.moves[i].index,
           NEW new, new = [tab EXCEPT !.moves = [tab.moves EXCEPT ![i] = on]]
    PROVE  Shaped(new) /\ new.page = tab.page /\ new.summary = tab.summary
  <1>0. /\ DOMAIN tab = TabFields /\ Looks(tab) /\ MovesFit(tab) /\ SavesFit(tab)
        /\ tab.moves \in Seq(Navigations)
    BY DEF Ready, IsTab, Shaped
  <1>1. PICK m, moves : moves = tab.moves /\ m = [moves EXCEPT ![i] = on]
    OBVIOUS
  <1>2. Keeps(tab, new, {"moves"}) /\ new.moves = m
    BY <1>0, <1>1, GoOnEffect
  <1>3. new.page = tab.page /\ new.summary = tab.summary
    BY <1>2 DEF Keeps, TabFields
  <1>4. /\ Len(m) = Len(moves) /\ DOMAIN m = DOMAIN moves
        /\ \A j \in DOMAIN m : m[j] = IF j = i THEN on ELSE moves[j]
    <2>1. PICK S : S = Navigations \cup {on}
      OBVIOUS
    <2>2. moves \in Seq(S) /\ on \in S /\ i \in DOMAIN moves
      BY <1>0, <1>1, <2>1
    <2> QED BY <1>1, <2>2
  <1>5. MovesFit(new)
    BY <1>0, <1>1, <1>2, <1>3, <1>4 DEF MovesFit
  <1>6. Looks(new) /\ SavesFit(new)
    BY <1>0, <1>2, ShapeKept
  <1> QED BY <1>3, <1>5, <1>6 DEF Shaped

LEMMA PressShapes ==
    ASSUME TypeOK, TypeOK', CInv, ShapesInv, PapersStay, NEW t \in Tabs,
           NEW index, PressMove(t, index)
    PROVE  ShapedAt(t)'
  <1>1. PICK tab, new, seek : tab = tabs[t] /\ new = tabs'[t] /\ seek = ~GoesNext(tab, index)
    OBVIOUS
  <1>2. /\ Shaped(tab) /\ Counted(tab, sessionsStore) /\ Ready(tab) /\ Turns(t, tab, new)
        /\ DOMAIN tabs = Tabs
    BY <1>1, ShapeOpen
  <1>3. new = WithMove(tab, index, seek) /\ InExam(tab, index) /\ Len(tab.moves) < 2
    BY <1>1, <1>2 DEF PressMove, StartMove
  <1>4. Shaped(new) /\ new.page = tab.page /\ new.summary = tab.summary
    BY <1>2, <1>3, PressShape
  <1> QED BY <1>1, <1>2, <1>4, StaysCounted

LEMMA DropShapes ==
    ASSUME TypeOK, TypeOK', CInv, ShapesInv, PapersStay, NEW t \in Tabs,
           NEW i \in DOMAIN tabs[t].moves, ReadLost(t, i) \/ SeekLost(t, i) \/ MoveFails(t, i)
    PROVE  ShapedAt(t)'
  <1>1. PICK tab, new : tab = tabs[t] /\ new = tabs'[t]
    OBVIOUS
  <1>2. /\ Shaped(tab) /\ Counted(tab, sessionsStore) /\ Ready(tab) /\ Turns(t, tab, new)
        /\ DOMAIN tabs = Tabs
    BY <1>1, ShapeOpen
  <1>3. new = WithoutMove(tab, i) /\ i \in DOMAIN tab.moves
    BY <1>1, <1>2 DEF ReadLost, SeekLost, MoveFails
  <1>4. Shaped(new) /\ new.page = tab.page /\ new.summary = tab.summary
    BY <1>2, <1>3, DropShape
  <1> QED BY <1>1, <1>2, <1>4, StaysCounted

LEMMA ReadShapes ==
    ASSUME TypeOK, TypeOK', CInv, ShapesInv, PapersStay, NEW t \in Tabs,
           NEW i \in DOMAIN tabs[t].moves, ReadAnswered(t, i)
    PROVE  ShapedAt(t)'
  <1>1. PICK tab, new, id, nav, next, question :
              /\ tab = tabs[t] /\ new = tabs'[t] /\ id = tab.page /\ nav = tab.moves[i]
              /\ next = NextCursor(id, nav.cursor) /\ question = sessionsStore'[id].question
    OBVIOUS
  <1>2. /\ Shaped(tab) /\ Counted(tab, sessionsStore) /\ Ready(tab) /\ Turns(t, tab, new)
        /\ DOMAIN tabs = Tabs
    BY <1>1, ShapeOpen
  <1>3. nav \in Navigations /\ i \in DOMAIN tab.moves /\ DOMAIN tab = TabFields
        /\ tab.moves \in Seq(Navigations)
    BY <1>1, <1>2 DEF Ready, IsTab
  <1>4. question \in Served \cup {NoQuestion}
    <2>1. GetNextQuestion(UserOf[t], id, nav.cursor)
      BY <1>1 DEF ReadAnswered, HandleGetNextQuestion
    <2>2. PICK u, c : u = UserOf[t] /\ c = nav.cursor
      OBVIOUS
    <2>3. WorksOn(id)
      BY <2>1, <2>2, GetNextSummary
    <2>4. id \in DOMAIN sessionsStore'
      BY <2>3 DEF WorksOn
    <2>5. IsSession(sessionsStore'[id])
      BY <2>4 DEF TypeOK, SessionsTyped
    <2> QED BY <1>1, <2>5 DEF IsSession
  <1>5. CASE nav.stage = "read" \/ nav.at = nav.index
    <2>1. new = Arrived(tab, i, question, next)
      BY <1>1, <1>2, <1>5 DEF ReadAnswered
    <2>2. Ready(tab) /\ i \in DOMAIN tab.moves
      BY <1>2, <1>3
    <2>3. question \in Served \cup {NoQuestion}
      BY <1>4
    <2>4. Shaped(new) /\ new.page = tab.page /\ new.summary.questions = tab.summary.questions
      BY <2>1, <2>2, <2>3, ArriveShape
    <2> QED BY <1>1, <1>2, <2>4, StaysCounted
  <1>6. CASE ~(nav.stage = "read" \/ nav.at = nav.index)
    <2>1. tabs' = [tabs EXCEPT ![t].moves[i].at = @ + 1, ![t].moves[i].cursor = next]
      BY <1>1, <1>6 DEF ReadAnswered
    <2>2. PICK on : on = [nav EXCEPT !.at = nav.at + 1, !.cursor = next]
      OBVIOUS
    <2>3. on.index = nav.index
      BY <1>3, <2>2 DEF Navigations
    <2>4. new = [tab EXCEPT !.moves = [tab.moves EXCEPT ![i] = on]]
      <3>1. /\ nav = tabs[t].moves[i] /\ tabs[t].moves \in Seq(Navigations)
            /\ DOMAIN tabs[t] = TabFields /\ DOMAIN tabs = Tabs
        BY <1>1, <1>2, <1>3
      <3>2. tabs'[t] = [tabs[t] EXCEPT !.moves = [tabs[t].moves EXCEPT ![i] = on]]
        BY <1>3, <2>1, <2>2, <3>1 DEF Navigations, TabFields
      <3> QED BY <1>1, <3>2
    <2>5. Shaped(new) /\ new.page = tab.page /\ new.summary = tab.summary
      BY <1>1, <1>2, <1>3, <2>3, <2>4, GoOnShape
    <2> QED BY <1>1, <1>2, <2>5, StaysCounted
  <1> QED BY <1>5, <1>6

LEMMA SeekShapes ==
    ASSUME TypeOK, TypeOK', CInv, ShapesInv, PapersStay, NEW t \in Tabs,
           NEW i \in DOMAIN tabs[t].moves, SeekAnswered(t, i)
    PROVE  ShapedAt(t)'
  <1>1. PICK tab, new, nav : tab = tabs[t] /\ new = tabs'[t] /\ nav = tab.moves[i]
    OBVIOUS
  <1>2. /\ Shaped(tab) /\ Counted(tab, sessionsStore) /\ Ready(tab) /\ Turns(t, tab, new)
        /\ DOMAIN tabs = Tabs
    BY <1>1, ShapeOpen
  <1>3. nav \in Navigations /\ i \in DOMAIN tab.moves /\ DOMAIN tab = TabFields
        /\ tab.moves \in Seq(Navigations)
    BY <1>1, <1>2 DEF Ready, IsTab
  <1>4. PICK on : on = [nav EXCEPT !.stage = "read", !.cursor = RepositionedCursor]
    OBVIOUS
  <1>5. on.index = nav.index
    BY <1>3, <1>4 DEF Navigations
  <1>6. new = [tab EXCEPT !.moves = [tab.moves EXCEPT ![i] = on]]
    <2>1. /\ nav = tabs[t].moves[i] /\ tabs[t].moves \in Seq(Navigations)
          /\ DOMAIN tabs[t] = TabFields /\ DOMAIN tabs = Tabs
      BY <1>1, <1>2, <1>3
    <2>2. tabs' = [tabs EXCEPT ![t].moves[i].stage = "read",
                               ![t].moves[i].cursor = RepositionedCursor]
      BY DEF SeekAnswered
    <2>3. tabs'[t] = [tabs[t] EXCEPT !.moves = [tabs[t].moves EXCEPT ![i] = on]]
      BY <1>3, <1>4, <2>1, <2>2 DEF Navigations, TabFields
    <2> QED BY <1>1, <2>3
  <1>7. Shaped(new) /\ new.page = tab.page /\ new.summary = tab.summary
    BY <1>1, <1>2, <1>3, <1>5, <1>6, GoOnShape
  <1> QED BY <1>1, <1>2, <1>7, StaysCounted

LEMMA NavigationShapes ==
    ASSUME TypeOK, TypeOK', CInv, ShapesInv, PapersStay, NEW t \in Tabs, NavigationSteps(t)
    PROVE  ShapedAt(t)'
  BY PressShapes, DropShapes, ReadShapes, SeekShapes DEF NavigationSteps

LEMMA SubmitShapes ==
    ASSUME TypeOK, TypeOK', CInv, ShapesInv, PapersStay, NEW t \in Tabs, NEW s \in Slots,
           NEW answer, NEW checkOnly, PressSubmit(t, s, answer, checkOnly)
    PROVE  ShapedAt(t)'
  <1>1. PICK tab, new, save : tab = tabs[t] /\ new = tabs'[t] /\ save = new.saves[s]
    OBVIOUS
  <1>2. /\ Shaped(tab) /\ Counted(tab, sessionsStore) /\ Ready(tab) /\ Turns(t, tab, new)
    BY <1>1, ShapeOpen
  <1>3. PICK heard : heard = told[t].answers
    OBVIOUS
  <1>4. /\ Keeps(tab, new, {"saves"}) /\ OtherSaves(tab, new, s)
        /\ Submitted(save, tab, heard, answer, checkOnly)
    BY <1>1, <1>2, <1>3, SubmitEffect
  <1>5. Looks(tab) /\ MovesFit(tab) /\ SavesFit(tab)
    BY <1>2 DEF Shaped
  <1>6. new.page = tab.page /\ new.summary = tab.summary
    BY <1>4 DEF Keeps, TabFields
  <1>7. Displayed(tab).index \in Int /\ tab.summary.questions \in Nat
    <2>1. tab.position.index \in Int /\ tab.summary.index \in Int /\ tab.summary.questions \in Nat
      BY <1>5 DEF Looks, Shown, Excerpts
    <2> QED BY <2>1 DEF Displayed
  <1>8. ~save.last => save.from + 1 < tab.summary.questions
    BY <1>4, <1>7 DEF Submitted, IsLastQuestion
  <1>9. SavesFit(new)
    BY <1>1, <1>4, <1>5, <1>6, <1>8 DEF SavesFit, Onward, OtherSaves, Submitted
  <1>10. Looks(new) /\ MovesFit(new)
    BY <1>4, <1>5, ShapeKept
  <1> QED BY <1>1, <1>2, <1>6, <1>9, <1>10, StaysCounted DEF Shaped

LEMMA ArrivesShapes ==
    ASSUME TypeOK, TypeOK', CInv, ShapesInv, PapersStay, NEW t \in Tabs, FetchArrives(t)
    PROVE  ShapedAt(t)'
  <1>1. PICK tab, new, saved, known :
          /\ tab = tabs[t] /\ new = tabs'[t] /\ saved = tab.refetch[1]
          /\ known = told[t].answers \cap Range(Entries(saved))
    OBVIOUS
  <1>2. Shaped(tab) /\ Counted(tab, sessionsStore) /\ Turns(t, tab, new)
    BY <1>1, ShapeOpen
  <1>3. /\ Keeps(tab, new, {"answers", "refetch", "saves"})
        /\ \A s \in Slots : \/ /\ new.saves[s] = tab.saves[s]
                               /\ new.saves[s] # None => new.saves[s].merged # None
                            \/ Filled(tab.saves[s], new.saves[s], saved, known)
    BY <1>1, <1>2, ArrivesEffect
  <1>4. Looks(tab) /\ MovesFit(tab) /\ SavesFit(tab)
    BY <1>2 DEF Shaped
  <1>5. new.page = tab.page /\ new.summary = tab.summary
    BY <1>3 DEF Keeps, TabFields
  <1>6. ASSUME NEW old, NEW full, Filled(old, full, saved, known)
        PROVE  old # None /\ full.of = old.of /\ full.last = old.last /\ full.from = old.from
    BY <1>6 DEF Filled, SavingFields
  <1>7. \A s \in Slots : new.saves[s] # None =>
          /\ tab.saves[s] # None /\ new.saves[s].of = tab.saves[s].of
          /\ new.saves[s].last = tab.saves[s].last /\ new.saves[s].from = tab.saves[s].from
    <2>1. SUFFICES ASSUME NEW s \in Slots, new.saves[s] # None
                   PROVE  /\ tab.saves[s] # None /\ new.saves[s].of = tab.saves[s].of
                          /\ new.saves[s].last = tab.saves[s].last
                          /\ new.saves[s].from = tab.saves[s].from
      OBVIOUS
    <2>2. PICK old, full : old = tab.saves[s] /\ full = new.saves[s]
      OBVIOUS
    <2>3. full = old \/ Filled(old, full, saved, known)
      BY <1>3, <2>2
    <2> QED BY <1>6, <2>1, <2>2, <2>3
  <1>8. SavesFit(new)
    BY <1>4, <1>5, <1>7 DEF SavesFit, Onward
  <1>9. Looks(new) /\ MovesFit(new)
    BY <1>3, <1>4, ShapeKept
  <1> QED BY <1>1, <1>2, <1>5, <1>8, <1>9, StaysCounted DEF Shaped

LEMMA StillShapes ==
    ASSUME TypeOK, TypeOK', CInv, ShapesInv, PapersStay, NEW t \in Tabs,
           FetchAnswered(t) \/ \E s \in Slots : Posts(t, s) \/ SaveFails(t, s)
    PROVE  ShapedAt(t)'
  <1>1. PICK tab, new : tab = tabs[t] /\ new = tabs'[t]
    OBVIOUS
  <1>2. Shaped(tab) /\ Counted(tab, sessionsStore) /\ Turns(t, tab, new)
    BY <1>1, ShapeOpen
  <1>3. Looks(tab) /\ MovesFit(tab) /\ SavesFit(tab)
    BY <1>2 DEF Shaped
  <1>4. CASE FetchAnswered(t)
    <2>1. Keeps(tab, new, {"refetch"})
      BY <1>2, <1>4, FetchEffect
    <2>2. Looks(new) /\ MovesFit(new) /\ SavesFit(new)
      BY <1>3, <2>1, ShapeKept
    <2>3. new.page = tab.page /\ new.summary = tab.summary
      BY <2>1 DEF Keeps, TabFields
    <2> QED BY <1>1, <1>2, <2>2, <2>3, StaysCounted DEF Shaped
  <1>5. ASSUME NEW s \in Slots, Posts(t, s) \/ SaveFails(t, s) PROVE ShapedAt(t)'
    <2>1. Keeps(tab, new, {"saves"}) /\ SavesGoOn(tab, new)
      BY <1>2, <1>5, SendEffect, DropEffect
    <2>2. Looks(new) /\ MovesFit(new)
      BY <1>3, <2>1, ShapeKept
    <2>3. new.page = tab.page /\ new.summary = tab.summary
      BY <2>1 DEF Keeps, TabFields
    <2>4. SavesFit(new)
      BY <1>3, <2>1, <2>3, SavesFitOn
    <2> QED BY <1>1, <1>2, <2>2, <2>3, <2>4, StaysCounted DEF Shaped
  <1> QED BY <1>4, <1>5

LEMMA AnsweredShapes ==
    ASSUME TypeOK, TypeOK', CInv, ShapesInv, PapersStay, NEW t \in Tabs, NEW s \in Slots,
           PostAnswered(t, s)
    PROVE  ShapedAt(t)'
  <1>1. PICK tab, new, save : tab = tabs[t] /\ new = tabs'[t] /\ save = tab.saves[s]
    OBVIOUS
  <1>2. /\ Shaped(tab) /\ Counted(tab, sessionsStore) /\ Ready(tab) /\ Turns(t, tab, new)
    BY <1>1, ShapeOpen
  <1>3. Looks(tab) /\ MovesFit(tab) /\ SavesFit(tab) /\ tab.moves \in Seq(Navigations)
    BY <1>2 DEF Shaped, Ready
  <1>4. save # None /\ Len(tab.moves) < 2 /\ save.answer \in AnswerOfUser
    <2>1. save # None /\ Len(tab.moves) < 2
      BY <1>1 DEF PostAnswered
    <2>2. IsSave(save)
      BY <1>1, <2>1, TabFacts
    <2> QED BY <2>1, <2>2 DEF IsSave
  <1>5. /\ Keeps(tab, new, PostParts) /\ new.checked \in {tab.checked, save.answer}
        /\ new.confirm \in BOOLEAN /\ SavesGoOn(tab, new) /\ MovesOn(tab, new, save)
    BY <1>1, <1>2, PostEffect
  <1>6. /\ new.page = tab.page /\ new.summary = tab.summary /\ new.news = tab.news
        /\ new.shown = tab.shown
    BY <1>5 DEF Keeps, TabFields, PostParts
  <1>7. new.checked \in AnswerOfUser \cup {None}
    BY <1>3, <1>4, <1>5 DEF Looks
  <1>8. SavesFit(new)
    BY <1>3, <1>5, <1>6, SavesFitOn
  <1>9. Looks(new)
    BY <1>3, <1>5, <1>6, <1>7, NoPositionShown DEF Looks, MovesOn
  <1>10. MovesFit(new)
    <2>1. CASE ~Continues(save)
      BY <1>3, <1>5, <1>6, <2>1 DEF MovesFit, MovesOn
    <2>2. CASE Continues(save)
      <3>1. PICK nav : nav = Navigation(tab, save.from + 1, FALSE)
        OBVIOUS
      <3>2. new.moves = Append(tab.moves, nav) /\ ~save.last /\ save.of = "page"
        BY <1>5, <2>2, <3>1 DEF MovesOn, Continues
      <3>3. nav.index = save.from + 1
        BY <3>1 DEF Navigation
      <3>4. save.from + 1 < tab.summary.questions
        BY <1>1, <1>3, <1>4, <3>2 DEF SavesFit, Onward
      <3>5. nav.index < tab.summary.questions
        BY <3>3, <3>4
      <3> QED BY <1>3, <1>4, <1>6, <3>2, <3>5, MoveFits DEF MovesFit
    <2> QED BY <2>1, <2>2
  <1> QED BY <1>1, <1>2, <1>6, <1>8, <1>9, <1>10, StaysCounted DEF Shaped

LEMMA AnswerShapes ==
    ASSUME TypeOK, TypeOK', CInv, ShapesInv, PapersStay, NEW t \in Tabs, AnswerSteps(t)
    PROVE  ShapedAt(t)'
  <1>1. ASSUME NEW s \in Slots, NEW answer, NEW checkOnly, PressSubmit(t, s, answer, checkOnly)
        PROVE  ShapedAt(t)'
    BY <1>1, SubmitShapes
  <1>2. ASSUME NEW s \in Slots, PostAnswered(t, s) PROVE ShapedAt(t)'
    BY <1>2, AnsweredShapes
  <1> QED BY <1>1, <1>2, ArrivesShapes, StillShapes DEF AnswerSteps

LEMMA StaysShaped ==
    ASSUME TypeOK, TypeOK', CInv, ShapesInv, PapersStay, NEW t \in Tabs, tabs'[t] = tabs[t]
    PROVE  ShapedAt(t)'
  <1>1. PICK tab : tab = tabs[t] /\ tab = tabs'[t]
    OBVIOUS
  <1>2. Shaped(tab) /\ Counted(tab, sessionsStore)
    BY <1>1, ShapeOpen
  <1> QED BY <1>1, <1>2, StaysCounted

LEMMA FreshLooks ==
    ASSUME NEW id, NEW excerpt \in Excerpts, NEW new, Fresh(new, id, excerpt)
    PROVE  Looks(new) /\ MovesFit(new) /\ new.page = id /\ new.summary = excerpt
  <1>1. /\ new.page = id /\ new.summary = excerpt /\ new.position = NoPosition
        /\ new.moves = <<>> /\ new.watched = FALSE /\ new.confirm = FALSE /\ new.checked = None
        /\ new.news = None /\ new.shown \in BOOLEAN
    BY DEF Fresh
  <1>2. Len(new.moves) <= 2 /\ DOMAIN new.moves = {}
    BY <1>1
  <1> QED BY <1>1, <1>2, NoPositionShown DEF Looks, MovesFit

LEMMA ListShape == ASSUME NEW new, new = ListPage PROVE Shaped(new) /\ new.page = 0
  <1>1. NoExcerpt \in Excerpts
    BY DEF NoExcerpt, Excerpts
  <1>2. Fresh(new, 0, NoExcerpt) /\ new.saves = [s \in Slots |-> None]
    BY ListEffect
  <1>3. SavesFit(new)
    BY <1>2 DEF SavesFit, Onward
  <1> QED BY <1>1, <1>2, <1>3, FreshLooks DEF Shaped

LEMMA LoadShapes ==
    ASSUME TypeOK, SInv, CInv, ShapesInv, NEW t \in Tabs, NEW id, Load(t, id)
    PROVE  ShapedAt(t)'
  <1>1. PICK tab, new, excerpt, store :
          /\ tab = tabs[t] /\ new = tabs'[t] /\ excerpt = Excerpt(id)
          /\ store = sessionsStore'
    OBVIOUS
  <1>2. Turns(t, tab, new) /\ sessionsStore' = sessionsStore
    BY <1>1, ShapeOpen DEF Load, apiVars, vars, serverVars
  <1>3. id \in DOMAIN sessionsStore
    BY TabsAssumption DEF Load, SInv, IndexInLockStep
  <1>4. /\ excerpt \in Excerpts
        /\ excerpt.questions = Cardinality(DOMAIN sessionsStore[id].paper)
    BY <1>1, <1>3, ExcerptTyped DEF ShapesInv
  <1>5. Fresh(new, id, excerpt)
    BY <1>1, <1>2, LoadEffect
  <1>6. Looks(new) /\ MovesFit(new) /\ new.page = id /\ new.summary = excerpt
    BY <1>4, <1>5, FreshLooks
  <1>7. \A s \in Slots : new.saves[s] # None => new.saves[s].of = "nobody"
    <2> DEFINE page == LoadedPage(id, excerpt)
               left == [s \in Slots |-> Stray(tab.saves[s])]
    <2>1. new = [page EXCEPT !.saves = left]
      BY <1>1, <1>2 DEF Load, Turns
    <2>2. DOMAIN page = TabFields
      BY DEF LoadedPage, TabFields
    <2> HIDE DEF page
    <2>3. new.saves = left
      BY <2>1, <2>2 DEF TabFields
    <2>4. \A s \in Slots : tab.saves[s] # None => DOMAIN tab.saves[s] = SavingFields
      BY <1>2 DEF Turns, IsTab
    <2> QED BY <2>3, <2>4, StrayIsNobodys
  <1>8. SavesFit(new)
    BY <1>7 DEF SavesFit, Onward
  <1>9. Counted(new, store)
    BY <1>1, <1>2, <1>4, <1>6 DEF Counted
  <1> QED BY <1>1, <1>6, <1>8, <1>9 DEF ShapedAt, Shaped

LEMMA LeftShapes ==
    ASSUME TypeOK, TypeOK', CInv, ShapesInv, PapersStay, NEW t \in Tabs,
           tabs' = [tabs EXCEPT ![t] = LeftPage(tabs[t])]
    PROVE  ShapedAt(t)'
  <1>1. PICK tab, new : tab = tabs[t] /\ new = tabs'[t]
    OBVIOUS
  <1>2. /\ Shaped(tab) /\ Counted(tab, sessionsStore) /\ Ready(tab) /\ DOMAIN tabs = Tabs
    BY <1>1, ShapeOpen
  <1>3. /\ Looks(tab) /\ MovesFit(tab) /\ SavesFit(tab) /\ IsTab(tab)
        /\ tab.moves \in Seq(Navigations)
    BY <1>2 DEF Shaped, Ready
  <1>4. new = LeftPage(tab)
    BY <1>1, <1>2
  <1>5. PICK moves : moves = [i \in DOMAIN tab.moves |-> [tab.moves[i] EXCEPT !.here = FALSE]]
    OBVIOUS
  <1>6. /\ Keeps(tab, new, LeftParts) /\ SavesGoOn(tab, new)
        /\ new.shown = FALSE /\ new.position = NoPosition /\ new.watched = FALSE
        /\ new.checked = None /\ new.confirm = FALSE /\ new.moves = moves
    BY <1>3, <1>4, <1>5, LeftEffect
  <1>7. new.page = tab.page /\ new.summary = tab.summary /\ new.news = tab.news
    BY <1>6 DEF Keeps, TabFields, LeftParts
  <1>8. Looks(new)
    BY <1>3, <1>6, <1>7, NoPositionShown DEF Looks
  <1>9. MovesFit(new)
    <2>1. DOMAIN moves = DOMAIN tab.moves /\ Len(moves) = Len(tab.moves)
      BY <1>3, <1>5
    <2>2. ASSUME NEW i \in DOMAIN tab.moves PROVE moves[i].index = tab.moves[i].index
      <3>1. PICK nav : nav = tab.moves[i]
        OBVIOUS
      <3>2. nav \in Navigations /\ moves[i] = [nav EXCEPT !.here = FALSE]
        BY <1>3, <1>5, <3>1
      <3> QED BY <3>1, <3>2 DEF Navigations
    <2> QED BY <1>3, <1>6, <1>7, <2>1, <2>2 DEF MovesFit
  <1>10. SavesFit(new)
    BY <1>3, <1>6, <1>7, SavesFitOn
  <1> QED BY <1>1, <1>2, <1>7, <1>8, <1>9, <1>10, StaysCounted DEF Shaped

LEMMA NewsShapes ==
    ASSUME TypeOK, TypeOK', CInv, ShapesInv, PapersStay, NEW t \in Tabs,
           SummaryAnswered(t) \/ SummaryArrives(t)
    PROVE  ShapedAt(t)'
  <1>1. PICK tab, new, id, excerpt :
          tab = tabs[t] /\ new = tabs'[t] /\ id = tab.page /\ excerpt = Excerpt(id)
    OBVIOUS
  <1>2. Shaped(tab) /\ Counted(tab, sessionsStore) /\ Turns(t, tab, new)
    BY <1>1, ShapeOpen
  <1>3. Looks(tab) /\ MovesFit(tab) /\ SavesFit(tab)
    BY <1>2 DEF Shaped
  <1>4. CASE SummaryAnswered(t)
    <2>1. id \in DOMAIN sessionsStore
      BY <1>1, <1>4 DEF SummaryAnswered, Owns
    <2>2. /\ excerpt \in Excerpts
          /\ excerpt.questions = Cardinality(DOMAIN sessionsStore[id].paper)
      BY <1>1, <2>1, ExcerptTyped DEF ShapesInv
    <2>3. Keeps(tab, new, {"news"}) /\ new.news = <<excerpt>>
      BY <1>1, <1>2, <1>4, NewsEffect
    <2>4. /\ new.page = tab.page /\ new.summary = tab.summary /\ new.position = tab.position
          /\ new.shown = tab.shown /\ new.watched = tab.watched /\ new.confirm = tab.confirm
          /\ new.checked = tab.checked
      BY <2>3 DEF Keeps, TabFields
    <2>5. new.news[1] = excerpt /\ excerpt.questions = tab.summary.questions
      BY <1>1, <1>2, <2>1, <2>2, <2>3 DEF Counted
    <2>6. Looks(new)
      BY <1>3, <2>2, <2>4, <2>5 DEF Looks
    <2>7. MovesFit(new) /\ SavesFit(new)
      BY <1>3, <2>3, ShapeKept
    <2> QED BY <1>1, <1>2, <2>4, <2>6, <2>7, StaysCounted DEF Shaped
  <1>5. CASE SummaryArrives(t)
    <2>1. /\ Keeps(tab, new, {"news", "summary"}) /\ new.news = None
          /\ tab.news # None /\ new.summary = tab.news[1]
      BY <1>2, <1>5, SummaryEffect
    <2>2. /\ new.page = tab.page /\ new.position = tab.position /\ new.shown = tab.shown
          /\ new.watched = tab.watched /\ new.confirm = tab.confirm /\ new.moves = tab.moves
          /\ new.checked = tab.checked /\ new.saves = tab.saves
      BY <2>1 DEF Keeps, TabFields
    <2>3. new.summary \in Excerpts /\ new.summary.questions = tab.summary.questions
      BY <1>3, <2>1 DEF Looks
    <2>4. Looks(new)
      BY <1>3, <2>1, <2>2, <2>3 DEF Looks
    <2>5. MovesFit(new) /\ SavesFit(new)
      BY <1>3, <2>2, <2>3 DEF MovesFit, SavesFit
    <2> QED BY <1>1, <1>2, <2>2, <2>3, <2>4, <2>5, StaysCounted DEF Shaped
  <1> QED BY <1>4, <1>5

LEMMA WindowShapes ==
    ASSUME TypeOK, TypeOK', CInv, ShapesInv, PapersStay, NEW t \in Tabs,
           Open(t) \/ PressEnd(t) \/ CancelEnd(t)
    PROVE  ShapedAt(t)'
  <1>1. PICK tab, new : tab = tabs[t] /\ new = tabs'[t]
    OBVIOUS
  <1>2. Shaped(tab) /\ Counted(tab, sessionsStore) /\ Turns(t, tab, new)
    BY <1>1, ShapeOpen
  <1>3. Looks(tab) /\ MovesFit(tab) /\ SavesFit(tab)
    BY <1>2 DEF Shaped
  <1>4. /\ Keeps(tab, new, {"shown", "confirm"})
        /\ new.shown \in {tab.shown, TRUE} /\ new.confirm \in BOOLEAN
    <2>1. CASE Open(t)
      <3>1. Keeps(tab, new, {"shown"}) /\ new.shown = TRUE
        BY <1>2, <2>1, OpenEffect
      <3>2. new.confirm = tab.confirm
        BY <3>1 DEF Keeps, TabFields
      <3> QED BY <1>3, <3>1, <3>2, KeepsMore DEF Looks
    <2>2. CASE PressEnd(t) \/ CancelEnd(t)
      <3>1. Keeps(tab, new, {"confirm"}) /\ new.confirm \in BOOLEAN
        BY <1>2, <2>2, ConfirmEffect
      <3>2. new.shown = tab.shown
        BY <3>1 DEF Keeps, TabFields
      <3> QED BY <3>1, <3>2, KeepsMore
    <2> QED BY <2>1, <2>2
  <1>5. /\ new.page = tab.page /\ new.summary = tab.summary /\ new.position = tab.position
        /\ new.news = tab.news /\ new.watched = tab.watched /\ new.checked = tab.checked
    BY <1>4 DEF Keeps, TabFields
  <1>6. Looks(new)
    BY <1>3, <1>4, <1>5 DEF Looks
  <1>7. MovesFit(new) /\ SavesFit(new)
    BY <1>3, <1>4, ShapeKept
  <1> QED BY <1>1, <1>2, <1>5, <1>6, <1>7, StaysCounted DEF Shaped

LEMMA SessionShapes ==
    ASSUME TypeOK, TypeOK', SInv, CInv, ShapesInv, PapersStay, NEW t \in Tabs, SessionSteps(t)
    PROVE  ShapedAt(t)'
  <1>1. ASSUME NEW id, Load(t, id) PROVE ShapedAt(t)'
    BY <1>1, LoadShapes
  <1>2. CASE Leave(t) \/ \E id : EndAnswered(t, id)
    BY <1>2, LeftShapes DEF Leave, EndAnswered
  <1>3. CASE tabs' = tabs
    BY <1>3, StaysShaped
  <1>4. \/ (\E id : Load(t, id)) \/ Leave(t) \/ (\E id : EndAnswered(t, id)) \/ tabs' = tabs
        \/ SummaryAnswered(t) \/ SummaryArrives(t) \/ Open(t) \/ PressEnd(t) \/ CancelEnd(t)
    BY DEF SessionSteps, Create, EndLost
  <1> QED BY <1>1, <1>2, <1>3, <1>4, NewsShapes, WindowShapes

LEMMA ShapesStep ==
    ASSUME TypeOK, TypeOK', SInv, CInv, ShapesInv, [Next]_vars, ClientNext
    PROVE  ShapesInv'
  <1>1. PapersFill' /\ PapersStay
    BY NextPapers DEF ShapesInv
  <1>2. budget.tabs \subseteq Tabs
    BY DEF CInv, BudgetKept, Budget
  <1>3. ASSUME NEW t \in budget.tabs, NavigationSteps(t) \/ AnswerSteps(t) \/ SessionSteps(t)
        PROVE  \A x \in Tabs : ShapedAt(x)'
    <2>1. t \in Tabs
      BY <1>2
    <2>2. ShapedAt(t)'
      BY <1>1, <1>3, <2>1, NavigationShapes, AnswerShapes, SessionShapes
    <2>3. \A x \in Tabs \ {t} : tabs'[x] = tabs[x]
      BY <1>3, <2>1, OthersStay
    <2> QED BY <1>1, <2>2, <2>3, StaysShaped
  <1>4. ASSUME tabs' = tabs PROVE \A x \in Tabs : ShapedAt(x)'
    BY <1>1, <1>4, StaysShaped
  <1>5. \/ \E t \in budget.tabs : NavigationSteps(t) \/ AnswerSteps(t) \/ SessionSteps(t)
        \/ tabs' = tabs
    BY DEF ClientNext, DeleteTracking, RawPost
  <1>6. \A x \in Tabs : ShapedAt(x)'
    BY <1>3, <1>4, <1>5
  <1> QED BY <1>1, <1>6 DEF ShapesInv

LEMMA ShapesStutter == ASSUME ShapesInv, UNCHANGED allVars PROVE ShapesInv'
  <1>1. UNCHANGED <<sessionsStore, tabs>>
    BY DEF allVars, apiVars, vars, serverVars, clientVars
  <1> QED BY <1>1 DEF ShapesInv, PapersFill, ShapedAt

LEMMA ShapesInit == ClientInit => ShapesInv
  <1>1. SUFFICES ASSUME ClientInit PROVE ShapesInv
    OBVIOUS
  <1>2. sessionsStore = <<>>
    BY <1>1 DEF ClientInit, ApiInit, Init
  <1>3. ASSUME NEW t \in Tabs, NEW tab, NEW store, tab = tabs[t], store = sessionsStore
        PROVE  Shaped(tab) /\ Counted(tab, store)
    <2>1. tab = ListPage
      BY <1>1, <1>3 DEF ClientInit
    <2>2. Shaped(tab)
      BY <2>1, ListShape
    <2>3. DOMAIN store = {}
      BY <1>2, <1>3
    <2> QED BY <2>2, <2>3 DEF Counted
  <1>4. PapersFill
    BY <1>2 DEF PapersFill
  <1> QED BY <1>3, <1>4 DEF ShapesInv, ShapedAt
-------------------------------------------------------------------------------
(***************************************************************************)
(* What the pages post, as long as nothing else is posted: no submission   *)
(* answers a question twice, because each was merged into one that was     *)
(* fetched from the server, which had it from a page.                      *)
(***************************************************************************)
Written(s) == s = NoAnswer \/ PageSubmission(s)

AllWritten == \A id \in DOMAIN sessionsStore : Written(sessionsStore[id].answer)

WritesIn(save) == save.merged = None \/ PageSubmission(save.merged)

Writes(tab) ==
    /\ tab.answers = Cold \/ Written(tab.answers)
    /\ tab.refetch = None \/ Written(tab.refetch[1])
    /\ \A s \in Slots : tab.saves[s] # None => WritesIn(tab.saves[s])

WritesAt(t) == \A tab \in {tabs[t]} : Writes(tab)

WritesInv == budget.raw = {} => AllWritten /\ \A t \in Tabs : WritesAt(t)

LEMMA MergesWell ==
    ASSUME NEW s, Written(s), NEW a \in AnswerOfUser PROVE PageSubmission(Merged(s, a))
  <1>1. Entries(s) \in Seq(AnswerOfUser) /\ AnswersOnce(Entries(s))
    <2>1. CASE s = NoAnswer
      <3>1. Entries(s) = <<>>
        BY <2>1 DEF Entries
      <3> QED BY <3>1 DEF AnswersOnce
    <2>2. CASE s # NoAnswer
      BY <2>2 DEF Entries, Written, PageSubmission
    <2> QED BY <2>1, <2>2
  <1>2. Merged(s, a) \in Seq(AnswerOfUser) /\ AnswersOnce(Merged(s, a))
    BY <1>1, MergedFacts
  <1> QED BY <1>2 DEF PageSubmission

\* A step that saves nothing: answers stay, and those of new sessions are empty.
QuietAnswers ==
    \A id \in DOMAIN sessionsStore' :
      \/ sessionsStore'[id].answer = NoAnswer
      \/ id \in DOMAIN sessionsStore /\ sessionsStore'[id].answer = sessionsStore[id].answer

LEMMA QuietWritten == ASSUME AllWritten, QuietAnswers PROVE AllWritten'
  BY DEF AllWritten, QuietAnswers, Written

LEMMA WorkIsQuiet ==
    ASSUME NEW id, WorksOn(id), sessionsStore'[id].answer = sessionsStore[id].answer
    PROVE  QuietAnswers
  BY DEF QuietAnswers, WorksOn

LEMMA SilenceIsQuiet == ASSUME UNCHANGED vars PROVE QuietAnswers
  BY DEF vars, serverVars, QuietAnswers

LEMMA NavigationIsQuiet ==
    ASSUME TypeOK, CInv, NEW t \in Tabs, NavigationSteps(t) PROVE QuietAnswers
  <1>1. CASE \E index : PressMove(t, index)
    BY <1>1, SilenceIsQuiet DEF PressMove, StartMove, apiVars
  <1>2. CASE \E i : MoveFails(t, i)
    BY <1>2, SilenceIsQuiet DEF MoveFails, apiVars
  <1>3. ASSUME NEW u, NEW id, NEW cursor, GetNextQuestion(u, id, cursor) PROVE QuietAnswers
    <2>1. WorksOn(id) /\ sessionsStore'[id].answer = sessionsStore[id].answer
      BY <1>3, GetNextSummary
    <2> QED BY <2>1, WorkIsQuiet
  <1>4. ASSUME NEW u, NEW id, NEW cursor, NEW i, SeekCursorTo(u, id, cursor, i)
        PROVE  QuietAnswers
    <2>1. WorksOn(id) /\ sessionsStore'[id].answer = sessionsStore[id].answer
      BY <1>4, SeekSummary
    <2> QED BY <2>1, WorkIsQuiet
  <1>5. CASE \E i : ReadAnswered(t, i) \/ ReadLost(t, i)
    BY <1>3, <1>5 DEF ReadAnswered, ReadLost, HandleGetNextQuestion
  <1>6. CASE \E i : SeekAnswered(t, i) \/ SeekLost(t, i)
    BY <1>4, <1>6 DEF SeekAnswered, SeekLost, HandleSeekCursor
  <1> QED BY <1>1, <1>2, <1>5, <1>6 DEF NavigationSteps

LEMMA SessionIsQuiet ==
    ASSUME TypeOK, CInv, NEW t \in Tabs, SessionSteps(t) PROVE QuietAnswers
  <1>1. ASSUME NEW e \in budget.exams, NEW options \in budget.options, NEW accept,
               Create(t, e, options, accept)
        PROVE  QuietAnswers
    <2>1. PICK u : u = UserOf[t]
      OBVIOUS
    <2>2. e \in Exams /\ options \in OptionChoices /\ u \in Users
      BY <2>1, TabsAssumption DEF CInv, BudgetKept, Budget
    <2>3. StartNewExamSession(u, e, options, accept)
      BY <1>1, <2>1 DEF Create, HandleCreate
    <2>4. PICK id : id = sessionCount + 1
      OBVIOUS
    <2>5. /\ DOMAIN sessionsStore' = DOMAIN sessionsStore \cup {id}
          /\ \A i \in DOMAIN sessionsStore : sessionsStore'[i] = sessionsStore[i]
          /\ sessionsStore'[id].answer = NoAnswer
      BY <2>2, <2>3, <2>4, StartSummary
    <2> QED BY <2>5 DEF QuietAnswers
  <1>2. ASSUME NEW id, Ends(t, id) PROVE QuietAnswers
    <2>1. PICK u : u = UserOf[t]
      OBVIOUS
    <2>2. EndExamSession(u, id)
      BY <1>2, <2>1 DEF Ends, HandleDelete
    <2>3. /\ DOMAIN sessionsStore' = DOMAIN sessionsStore \ {id}
          /\ \A i \in DOMAIN sessionsStore' : sessionsStore'[i] = sessionsStore[i]
      BY <2>2, EndSummary
    <2> QED BY <2>3 DEF QuietAnswers
  <1>3. CASE \/ \E id : Load(t, id)
             \/ Leave(t) \/ Open(t) \/ SummaryAnswered(t) \/ SummaryArrives(t)
             \/ PressEnd(t) \/ CancelEnd(t)
    BY <1>3, SilenceIsQuiet DEF Load, Leave, Open, SummaryAnswered, SummaryArrives, PressEnd,
         CancelEnd, apiVars
  <1> QED BY <1>1, <1>2, <1>3 DEF SessionSteps, EndAnswered, EndLost

LEMMA PostWritten ==
    ASSUME TypeOK, CInv, AllWritten, NEW t \in Tabs, WritesAt(t), NEW s \in Slots, Posts(t, s)
    PROVE  AllWritten'
  <1>1. PICK tab, save : tab = tabs[t] /\ save = tab.saves[s]
    OBVIOUS
  <1>2. PICK u, id, a, checkOnly :
          /\ u = UserOf[t] /\ id = tab.page /\ a = save.merged
          /\ checkOnly = save.checkOnly
    OBVIOUS
  <1>3. SubmitAnswer(u, id, a, checkOnly) /\ save # None /\ a # None
    BY <1>1, <1>2 DEF Posts, HandleSubmitAnswer
  <1>4. checkOnly \in BOOLEAN
    BY <1>1, <1>2, <1>3, TabFacts DEF IsSave
  <1>5. PageSubmission(a)
    BY <1>1, <1>2, <1>3 DEF WritesAt, Writes, WritesIn
  <1>6. /\ WorksOn(id)
        /\ sessionsStore'[id].answer =
             IF checkOnly THEN sessionsStore[id].answer ELSE a
    BY <1>3, <1>4, SubmitSummary
  <1>7. \A i \in DOMAIN sessionsStore' :
          \/ i \in DOMAIN sessionsStore /\ sessionsStore'[i].answer = sessionsStore[i].answer
          \/ sessionsStore'[i].answer = a
    BY <1>6 DEF WorksOn
  <1> QED BY <1>5, <1>7 DEF AllWritten, Written

LEMMA KeepsWriting ==
    ASSUME NEW tab, NEW new, NEW F, Keeps(tab, new, F),
           F \cap {"answers", "refetch", "saves"} = {}, Writes(tab)
    PROVE  Writes(new)
  <1>1. new.answers = tab.answers /\ new.refetch = tab.refetch /\ new.saves = tab.saves
    BY DEF Keeps, TabFields
  <1> QED BY <1>1 DEF Writes

\* Submissions that go on take their copies with them.
LEMMA GoesOnWriting ==
    ASSUME NEW tab, NEW new, SavesGoOn(tab, new), Writes(tab),
           new.answers = Cold \/ Written(new.answers), new.refetch \in {tab.refetch, None}
    PROVE  Writes(new)
  <1>1. ASSUME NEW save, NEW on, SameSave(save, on), WritesIn(save) PROVE WritesIn(on)
    <2>1. on.merged = save.merged
      BY <1>1 DEF SameSave, SavingFields
    <2> QED BY <1>1, <2>1 DEF WritesIn
  <1>2. ASSUME NEW s \in Slots, new.saves[s] # None PROVE WritesIn(new.saves[s])
    <2>1. PICK save, on : save = tab.saves[s] /\ on = new.saves[s]
      OBVIOUS
    <2>2. SameSave(save, on) /\ save # None
      BY <1>2, <2>1 DEF SavesGoOn, SameSave
    <2>3. WritesIn(on)
      BY <1>1, <2>1, <2>2 DEF Writes
    <2> QED BY <2>1, <2>3
  <1> QED BY <1>2 DEF Writes

LEMMA NavigationWrites ==
    ASSUME CInv, NEW t \in Tabs, WritesAt(t), NavigationSteps(t) PROVE WritesAt(t)'
  <1>1. PICK tab, new : tab = tabs[t] /\ new = tabs'[t]
    OBVIOUS
  <1>2. Turns(t, tab, new) /\ tab.moves \in Seq(Navigations)
    BY <1>1, TabFacts
  <1>3. Keeps(tab, new, MoveParts) /\ Writes(tab)
    BY <1>1, <1>2, NavigationEffect DEF WritesAt
  <1>4. Writes(new)
    BY <1>3, KeepsWriting DEF MoveParts
  <1> QED BY <1>1, <1>4 DEF WritesAt

LEMMA SessionWrites ==
    ASSUME CInv, NEW t \in Tabs, WritesAt(t), SessionSteps(t) PROVE WritesAt(t)'
  <1>1. PICK tab, new : tab = tabs[t] /\ new = tabs'[t]
    OBVIOUS
  <1>2. Turns(t, tab, new) /\ IsTab(tab) /\ Writes(tab)
    BY <1>1, TabFacts DEF WritesAt
  <1> SUFFICES Writes(new)
    BY <1>1 DEF WritesAt
  <1>3. ASSUME NEW id, Load(t, id) PROVE Writes(new)
    <2>1. PICK excerpt : excerpt = Excerpt(id)
      OBVIOUS
    <2>2. Fresh(new, id, excerpt) /\ SavesGoOn(tab, new)
      BY <1>2, <1>3, <2>1, LoadEffect
    <2>3. new.answers = Cold /\ new.refetch = None
      BY <2>2 DEF Fresh
    <2> QED BY <1>2, <2>2, <2>3, GoesOnWriting
  <1>4. CASE new = LeftPage(tab)
    <2>1. Keeps(tab, new, LeftParts) /\ SavesGoOn(tab, new)
      BY <1>2, <1>4, LeftEffect
    <2>2. new.answers = tab.answers /\ new.refetch = tab.refetch
      BY <2>1 DEF Keeps, TabFields, LeftParts
    <2> QED BY <1>2, <2>1, <2>2, GoesOnWriting DEF Writes
  <1>5. CASE tabs' = tabs
    BY <1>1, <1>2, <1>5
  <1>6. CASE Open(t)
    <2>1. Keeps(tab, new, {"shown"})
      BY <1>2, <1>6, OpenEffect
    <2> QED BY <1>2, <2>1, KeepsWriting
  <1>7. CASE SummaryAnswered(t)
    <2>1. Keeps(tab, new, {"news"})
      BY <1>2, <1>7, NewsEffect
    <2> QED BY <1>2, <2>1, KeepsWriting
  <1>8. CASE SummaryArrives(t)
    <2>1. Keeps(tab, new, {"news", "summary"})
      BY <1>2, <1>8, SummaryEffect
    <2> QED BY <1>2, <2>1, KeepsWriting
  <1>9. CASE PressEnd(t) \/ CancelEnd(t)
    <2>1. Keeps(tab, new, {"confirm"})
      BY <1>2, <1>9, ConfirmEffect
    <2> QED BY <1>2, <2>1, KeepsWriting
  <1>10. \/ (\E id : Load(t, id)) \/ new = LeftPage(tab) \/ tabs' = tabs \/ Open(t)
         \/ SummaryAnswered(t) \/ SummaryArrives(t) \/ PressEnd(t) \/ CancelEnd(t)
    BY <1>1, <1>2 DEF SessionSteps, Create, Leave, EndAnswered, EndLost, Turns
  <1> QED BY <1>3, <1>4, <1>5, <1>6, <1>7, <1>8, <1>9, <1>10

LEMMA SubmitWrites ==
    ASSUME CInv, NEW t \in Tabs, WritesAt(t), NEW s \in Slots, NEW answer \in AnswerOfUser,
           NEW checkOnly, PressSubmit(t, s, answer, checkOnly)
    PROVE  WritesAt(t)'
  <1>1. PICK tab, new, save, heard : /\ tab = tabs[t] /\ new = tabs'[t]
                                     /\ save = new.saves[s] /\ heard = told[t].answers
    OBVIOUS
  <1>2. Turns(t, tab, new) /\ Writes(tab)
    BY <1>1, TabFacts DEF WritesAt
  <1>3. /\ Keeps(tab, new, {"saves"}) /\ OtherSaves(tab, new, s)
        /\ Submitted(save, tab, heard, answer, checkOnly)
    BY <1>1, <1>2, SubmitEffect
  <1>4. new.answers = tab.answers /\ new.refetch = tab.refetch
    BY <1>3 DEF Keeps, TabFields
  <1>5. WritesIn(save)
    <2>1. CASE tab.answers = Cold
      BY <1>3, <2>1 DEF Submitted, WritesIn
    <2>2. CASE tab.answers # Cold
      <3>1. PICK all : all = tab.answers
        OBVIOUS
      <3>2. PageSubmission(Merged(all, answer))
        BY <1>2, <2>2, <3>1, MergesWell DEF Writes
      <3> QED BY <1>3, <2>2, <3>1, <3>2 DEF Submitted, WritesIn
    <2> QED BY <2>1, <2>2
  <1>6. Writes(new)
    BY <1>1, <1>2, <1>3, <1>4, <1>5 DEF Writes, OtherSaves
  <1> QED BY <1>1, <1>6 DEF WritesAt

LEMMA FetchWrites ==
    ASSUME CInv, AllWritten, NEW t \in Tabs, WritesAt(t), FetchAnswered(t) PROVE WritesAt(t)'
  <1>1. PICK tab, new, old : tab = tabs[t] /\ new = tabs'[t] /\ old = MyAnswer(tab.page)
    OBVIOUS
  <1>2. Turns(t, tab, new) /\ Writes(tab)
    BY <1>1, TabFacts DEF WritesAt
  <1>3. Keeps(tab, new, {"refetch"}) /\ new.refetch = <<old>>
    BY <1>1, <1>2, FetchEffect
  <1>4. Written(old)
    BY <1>1 DEF FetchAnswered, Owns, AllWritten, MyAnswer
  <1>5. new.answers = tab.answers /\ new.saves = tab.saves /\ new.refetch[1] = old
    BY <1>3 DEF Keeps, TabFields
  <1>6. Writes(new)
    BY <1>2, <1>4, <1>5 DEF Writes
  <1> QED BY <1>1, <1>6 DEF WritesAt

LEMMA ArrivesWrites ==
    ASSUME CInv, NEW t \in Tabs, WritesAt(t), FetchArrives(t) PROVE WritesAt(t)'
  <1>1. PICK tab, new, saved, known :
          /\ tab = tabs[t] /\ new = tabs'[t] /\ saved = tab.refetch[1]
          /\ known = told[t].answers \cap Range(Entries(saved))
    OBVIOUS
  <1>2. Turns(t, tab, new) /\ Writes(tab) /\ tab.refetch # None
    BY <1>1, TabFacts DEF WritesAt, FetchArrives
  <1>3. /\ new.answers = saved /\ new.refetch = None
        /\ \A s \in Slots : \/ new.saves[s] = tab.saves[s]
                            \/ Filled(tab.saves[s], new.saves[s], saved, known)
    BY <1>1, <1>2, ArrivesEffect
  <1>4. Written(saved)
    BY <1>1, <1>2 DEF Writes
  <1>5. ASSUME NEW s \in Slots, new.saves[s] # None PROVE WritesIn(new.saves[s])
    <2>1. PICK save, full : save = tab.saves[s] /\ full = new.saves[s]
      OBVIOUS
    <2>2. CASE full = save
      BY <1>2, <1>5, <2>1, <2>2 DEF Writes
    <2>3. CASE Filled(save, full, saved, known)
      <3>1. save # None
        BY <2>3 DEF Filled
      <3>2. PICK answer : answer = save.answer
        OBVIOUS
      <3>3. answer \in AnswerOfUser
        BY <1>1, <2>1, <3>1, <3>2, TabFacts DEF IsSave
      <3>4. PageSubmission(Merged(saved, answer))
        BY <1>4, <3>3, MergesWell
      <3>5. full.merged = Merged(saved, answer)
        BY <2>3, <3>2 DEF Filled
      <3> QED BY <2>1, <3>4, <3>5 DEF WritesIn
    <2> QED BY <1>3, <2>1, <2>2, <2>3
  <1>6. Writes(new)
    BY <1>3, <1>4, <1>5 DEF Writes
  <1> QED BY <1>1, <1>6 DEF WritesAt

LEMMA DropWrites ==
    ASSUME CInv, NEW t \in Tabs, WritesAt(t), NEW s \in Slots, Posts(t, s) \/ SaveFails(t, s)
    PROVE  WritesAt(t)'
  <1>1. PICK tab, new : tab = tabs[t] /\ new = tabs'[t]
    OBVIOUS
  <1>2. Turns(t, tab, new) /\ Writes(tab)
    BY <1>1, TabFacts DEF WritesAt
  <1>3. Keeps(tab, new, {"saves"}) /\ SavesGoOn(tab, new)
    BY <1>2, SendEffect, DropEffect
  <1>4. new.answers = tab.answers /\ new.refetch = tab.refetch
    BY <1>3 DEF Keeps, TabFields
  <1>5. Writes(new)
    BY <1>2, <1>3, <1>4, GoesOnWriting DEF Writes
  <1> QED BY <1>1, <1>5 DEF WritesAt

LEMMA SavedWrites ==
    ASSUME CInv, NEW t \in Tabs, WritesAt(t), NEW s \in Slots, PostAnswered(t, s)
    PROVE  WritesAt(t)'
  <1>1. PICK tab, new, save : tab = tabs[t] /\ new = tabs'[t] /\ save = tab.saves[s]
    OBVIOUS
  <1>2. Turns(t, tab, new) /\ Writes(tab)
    BY <1>1, TabFacts DEF WritesAt
  <1>3. /\ Keeps(tab, new, PostParts) /\ SavesGoOn(tab, new)
        /\ new.answers = IF save.checkOnly THEN tab.answers ELSE save.merged
    BY <1>1, <1>2, PostEffect
  <1>4. new.refetch = tab.refetch
    BY <1>3 DEF Keeps, TabFields, PostParts
  <1>5. save # None /\ save.done
    BY <1>1 DEF PostAnswered
  <1>6. IsSave(save)
    BY <1>1, <1>5, TabFacts
  <1>7. PageSubmission(save.merged)
    BY <1>1, <1>2, <1>5, <1>6 DEF IsSave, Writes, WritesIn
  <1>8. new.answers = Cold \/ Written(new.answers)
    BY <1>2, <1>3, <1>7 DEF Writes, Written
  <1>9. Writes(new)
    BY <1>2, <1>3, <1>4, <1>8, GoesOnWriting
  <1> QED BY <1>1, <1>9 DEF WritesAt

LEMMA AnswersWrite ==
    ASSUME TypeOK, CInv, AllWritten, NEW t \in Tabs, WritesAt(t), AnswerSteps(t)
    PROVE  AllWritten' /\ WritesAt(t)'
  <1>1. WritesAt(t)'
    BY SubmitWrites, FetchWrites, ArrivesWrites, DropWrites, SavedWrites DEF AnswerSteps
  <1>2. UNCHANGED vars \/ \E s \in Slots : Posts(t, s)
    BY DEF AnswerSteps, PressSubmit, FetchAnswered, FetchArrives, PostAnswered, SaveFails, apiVars
  <1>3. AllWritten'
    BY <1>2, SilenceIsQuiet, QuietWritten, PostWritten
  <1> QED BY <1>1, <1>3

LEMMA WritesStep ==
    ASSUME TypeOK, CInv, WritesInv, ClientNext PROVE WritesInv'
  <1>1. SUFFICES ASSUME budget'.raw = {} PROVE AllWritten' /\ \A x \in Tabs : WritesAt(x)'
    BY DEF WritesInv
  <1>2. budget.raw = {} /\ AllWritten /\ \A x \in Tabs : WritesAt(x)
    BY <1>1, ConfigStays DEF WritesInv, SameChoices, CInv
  <1>3. budget.tabs \subseteq Tabs
    BY DEF CInv, BudgetKept, Budget
  <1>4. ASSUME NEW t \in Tabs, NavigationSteps(t) \/ AnswerSteps(t) \/ SessionSteps(t)
        PROVE  AllWritten' /\ WritesAt(t)' /\ \A x \in Tabs \ {t} : tabs'[x] = tabs[x]
    <2>1. CASE NavigationSteps(t)
      BY <1>2, <2>1, NavigationIsQuiet, QuietWritten, NavigationWrites, OthersStay
    <2>2. CASE SessionSteps(t)
      BY <1>2, <2>2, SessionIsQuiet, QuietWritten, SessionWrites, OthersStay
    <2>3. CASE AnswerSteps(t)
      BY <1>2, <2>3, AnswersWrite, OthersStay
    <2> QED BY <1>4, <2>1, <2>2, <2>3
  <1>5. ASSUME NEW u, NEW i, DeleteTracking(u, i)
        PROVE  AllWritten' /\ tabs' = tabs
    BY <1>2, <1>5, SilenceIsQuiet, QuietWritten DEF DeleteTracking, HandleDeleteTracking
  <1>6. \/ \E t \in Tabs : NavigationSteps(t) \/ AnswerSteps(t) \/ SessionSteps(t)
        \/ \E u, i : DeleteTracking(u, i)
    BY <1>2, <1>3 DEF ClientNext
  <1> QED BY <1>2, <1>4, <1>5, <1>6 DEF WritesAt

LEMMA WritesStutter == ASSUME WritesInv, UNCHANGED allVars PROVE WritesInv'
  <1>1. UNCHANGED <<sessionsStore, tabs, budget>>
    BY DEF allVars, apiVars, vars, serverVars, clientVars
  <1> QED BY <1>1 DEF WritesInv, AllWritten, WritesAt

LEMMA WritesInit == ClientInit => WritesInv
  <1>1. SUFFICES ASSUME ClientInit PROVE WritesInv
    OBVIOUS
  <1>2. sessionsStore = <<>>
    BY <1>1 DEF ClientInit, ApiInit, Init
  <1>3. ASSUME NEW t \in Tabs, NEW tab, tab = tabs[t] PROVE Writes(tab)
    <2>1. tab = ListPage
      BY <1>1, <1>3 DEF ClientInit
    <2>2. /\ tab.answers = Cold /\ tab.refetch = None
          /\ tab.saves = [s \in Slots |-> None]
      BY <2>1, ListEffect DEF Fresh
    <2> QED BY <2>2 DEF Writes
  <1> QED BY <1>2, <1>3 DEF WritesInv, AllWritten, WritesAt
-------------------------------------------------------------------------------
(***************************************************************************)
(* What a tab is told, and what its submissions had heard, are answers of  *)
(* its user.                                                               *)
(***************************************************************************)
All(mem) == mem.answers \cup mem.saved

Hears(tab) == \A s \in Slots : tab.saves[s] # None => tab.saves[s].heard \subseteq AnswerOfUser

HeardAt(t) ==
    \A tab \in {tabs[t]}, mem \in {told[t]} : Hears(tab) /\ All(mem) \subseteq AnswerOfUser

HeardInv == \A t \in Tabs : HeardAt(t)

\* Nothing is told but what was told before, and answers of users.
Tells(x) ==
    \A mem \in {told[x]}, new \in {told'[x]} : All(new) \subseteq All(mem) \cup AnswerOfUser

LEMMA SilentTells == ASSUME told' = told, NEW x PROVE Tells(x)
  BY DEF Tells

LEMMA ForgetsTells == ASSUME NEW x, NEW id, Forgets(x, id) PROVE Tells(x)
  <1>1. PICK mem, new : mem = told[x] /\ new = told'[x]
    OBVIOUS
  <1>2. CASE tabs[x].page = id
    <2>1. new = [answers |-> {}, saved |-> {}]
      BY <1>1, <1>2 DEF Forgets
    <2>2. All(new) = {}
      BY <2>1 DEF All
    <2> QED BY <1>1, <2>2 DEF Tells
  <1>3. CASE tabs[x].page # id
    <2>1. new = mem
      BY <1>1, <1>3 DEF Forgets
    <2> QED BY <1>1, <2>1 DEF Tells
  <1> QED BY <1>2, <1>3

LEMMA ArrivesTells ==
    ASSUME SavedInv, NEW t \in Tabs, FetchArrives(t), NEW x \in Tabs PROVE Tells(x)
  <1>1. PICK mem, new : mem = told[x] /\ new = told'[x]
    OBVIOUS
  <1>2. DOMAIN told = Tabs /\ DOMAIN mem = MemFields
    BY <1>1 DEF SavedInv, SavedAt, MemTrue
  <1>3. CASE x # t
    <2>1. new = mem
      BY <1>1, <1>2, <1>3 DEF FetchArrives
    <2> QED BY <1>1, <2>1 DEF Tells
  <1>4. CASE x = t
    <2>1. PICK known : known = told[t].answers \cap Range(Entries(tabs[t].refetch[1]))
      OBVIOUS
    <2>2. new = [mem EXCEPT !.answers = known] /\ known \subseteq mem.answers
      BY <1>1, <1>2, <1>4, <2>1 DEF FetchArrives
    <2>3. new.answers = known /\ new.saved = mem.saved
      BY <1>2, <2>2 DEF MemFields
    <2>4. All(new) \subseteq All(mem)
      BY <2>2, <2>3 DEF All
    <2> QED BY <1>1, <2>4 DEF Tells
  <1> QED BY <1>3, <1>4

LEMMA PostTells ==
    ASSUME CInv, SavedInv, NEW t \in Tabs, NEW s \in Slots, Posts(t, s), NEW x \in Tabs
    PROVE  Tells(x)
  <1>1. PICK tab, save, mem, new : /\ tab = tabs[t] /\ save = tab.saves[s]
                                   /\ mem = told[x] /\ new = told'[x]
    OBVIOUS
  <1>2. save # None /\ told' = IF save.checkOnly THEN told ELSE ToldAt(tab.page, t, save)
    BY <1>1 DEF Posts
  <1>3. save.answer \in AnswerOfUser
    BY <1>1, <1>2, TabFacts DEF IsSave
  <1>4. CASE save.checkOnly
    BY <1>2, <1>4, SilentTells
  <1>5. CASE ~save.checkOnly /\ x # t
    <2>1. Forgets(x, tab.page)
      BY <1>2, <1>5 DEF ToldAt, Forgets
    <2> QED BY <2>1, ForgetsTells
  <1>6. CASE ~save.checkOnly /\ x = t
    <2>1. PICK known : known = Carried(t, save)
      OBVIOUS
    <2>2. new = [answers |-> known, saved |-> {save.answer}]
      BY <1>1, <1>2, <1>6, <2>1 DEF ToldAt
    <2>3. new.answers = known /\ new.saved = {save.answer}
      BY <2>2
    <2>4. known \subseteq mem.answers
      BY <1>1, <1>6, <2>1 DEF Carried
    <2>5. All(new) \subseteq All(mem) \cup AnswerOfUser
      BY <1>3, <2>3, <2>4 DEF All
    <2> QED BY <1>1, <2>5 DEF Tells
  <1> QED BY <1>4, <1>5, <1>6

LEMMA AnsweredTells ==
    ASSUME SavedInv, NEW t \in Tabs, NEW s \in Slots, PostAnswered(t, s), NEW x \in Tabs
    PROVE  Tells(x)
  <1>1. PICK save, mem, new, known :
          /\ save = tabs[t].saves[s] /\ mem = told[x] /\ new = told'[x]
          /\ known = Carried(t, save) \cup ({save.answer} \cap told[t].saved)
    OBVIOUS
  <1>2. DOMAIN told = Tabs /\ DOMAIN mem = MemFields
    BY <1>1 DEF SavedInv, SavedAt, MemTrue
  <1>3. told' = IF save.checkOnly THEN told ELSE [told EXCEPT ![t].answers = known]
    BY <1>1 DEF PostAnswered
  <1>4. CASE new = mem
    BY <1>1, <1>4 DEF Tells
  <1>5. CASE x = t /\ told' = [told EXCEPT ![t].answers = known]
    <2>1. new = [mem EXCEPT !.answers = known]
      BY <1>1, <1>2, <1>5
    <2>2. new.answers = known /\ new.saved = mem.saved
      BY <1>2, <2>1 DEF MemFields
    <2>3. known \subseteq mem.answers \cup mem.saved
      BY <1>1, <1>5 DEF Carried
    <2>4. All(new) \subseteq All(mem)
      BY <2>2, <2>3 DEF All
    <2> QED BY <1>1, <2>4 DEF Tells
  <1> QED BY <1>1, <1>2, <1>3, <1>4, <1>5

LEMMA RawTells ==
    ASSUME NEW u, NEW id, NEW a, NEW checkOnly, RawPost(u, id, a, checkOnly), NEW x \in Tabs
    PROVE  Tells(x)
  <1>1. CASE checkOnly
    BY <1>1, SilentTells DEF RawPost
  <1>2. CASE ~checkOnly
    <2>1. Forgets(x, id)
      BY <1>2 DEF RawPost, Forgets
    <2> QED BY <2>1, ForgetsTells
  <1> QED BY <1>1, <1>2

LEMMA StepTells ==
    ASSUME CInv, SavedInv, ClientNext, NEW x \in Tabs PROVE Tells(x)
  <1>1. budget.tabs \subseteq Tabs
    BY DEF CInv, BudgetKept, Budget
  <1>2. ASSUME NEW t \in Tabs, NavigationSteps(t) \/ SessionSteps(t) PROVE Tells(x)
    BY <1>2, SilentTells DEF NavigationSteps, PressMove, StartMove, ReadAnswered, ReadLost,
       SeekAnswered, SeekLost, MoveFails, SessionSteps, Create, Load, Leave, Open,
       SummaryAnswered, SummaryArrives, PressEnd, CancelEnd, EndAnswered, EndLost, Ends
  <1>3. ASSUME NEW t \in Tabs, AnswerSteps(t) PROVE Tells(x)
    <2>1. CASE told' = told
      BY <2>1, SilentTells
    <2>2. \/ told' = told \/ FetchArrives(t)
          \/ \E s \in Slots : Posts(t, s) \/ PostAnswered(t, s)
      BY <1>3 DEF AnswerSteps, PressSubmit, FetchAnswered, SaveFails
    <2> QED BY <2>1, <2>2, ArrivesTells, PostTells, AnsweredTells
  <1>4. ASSUME NEW u, NEW i, DeleteTracking(u, i) PROVE Tells(x)
    BY <1>4, SilentTells DEF DeleteTracking
  <1>5. ASSUME NEW u, NEW id, NEW a, NEW checkOnly, RawPost(u, id, a, checkOnly) PROVE Tells(x)
    BY <1>5, RawTells
  <1> QED BY <1>1, <1>2, <1>3, <1>4, <1>5 DEF ClientNext

LEMMA HearsOn ==
    ASSUME NEW tab, NEW new, Hears(tab), SavesGoOn(tab, new) PROVE Hears(new)
  <1>1. ASSUME NEW s \in Slots, new.saves[s] # None
        PROVE  new.saves[s].heard \subseteq AnswerOfUser
    <2>1. PICK save, on : save = tab.saves[s] /\ on = new.saves[s]
      OBVIOUS
    <2>2. SameSave(save, on) /\ save # None
      BY <1>1, <2>1 DEF SavesGoOn, SameSave
    <2>3. on.heard = save.heard
      BY <2>2 DEF SameSave, SavingFields
    <2>4. save.heard \subseteq AnswerOfUser
      BY <2>1, <2>2 DEF Hears
    <2> QED BY <2>1, <2>3, <2>4
  <1> QED BY <1>1 DEF Hears

LEMMA HearsKept ==
    ASSUME NEW tab, NEW new, NEW F, Keeps(tab, new, F), "saves" \notin F, Hears(tab)
    PROVE  Hears(new)
  <1>1. new.saves = tab.saves
    BY DEF Keeps, TabFields
  <1> QED BY <1>1 DEF Hears

LEMMA SubmitHears ==
    ASSUME NEW t, NEW tab, NEW new, Turns(t, tab, new), HeardAt(t), NEW s \in Slots,
           NEW answer, NEW checkOnly, PressSubmit(t, s, answer, checkOnly)
    PROVE  Hears(new)
  <1>1. PICK save, heard : save = new.saves[s] /\ heard = told[t].answers
    OBVIOUS
  <1>2. Hears(tab) /\ heard \subseteq AnswerOfUser
    BY <1>1 DEF Turns, HeardAt, All
  <1>3. OtherSaves(tab, new, s) /\ Submitted(save, tab, heard, answer, checkOnly)
    BY <1>1, SubmitEffect
  <1>4. save.heard \subseteq AnswerOfUser
    BY <1>2, <1>3 DEF Submitted
  <1> QED BY <1>1, <1>2, <1>3, <1>4 DEF Hears, OtherSaves

LEMMA ArrivesHears ==
    ASSUME NEW t, NEW tab, NEW new, Turns(t, tab, new), HeardAt(t), FetchArrives(t)
    PROVE  Hears(new)
  <1>1. PICK saved, known :
          saved = tab.refetch[1] /\ known = told[t].answers \cap Range(Entries(saved))
    OBVIOUS
  <1>2. Hears(tab) /\ known \subseteq AnswerOfUser
    BY <1>1 DEF Turns, HeardAt, All
  <1>3. \A s \in Slots : \/ new.saves[s] = tab.saves[s]
                         \/ Filled(tab.saves[s], new.saves[s], saved, known)
    BY <1>1, ArrivesEffect
  <1>4. ASSUME NEW save, NEW full, Filled(save, full, saved, known)
        PROVE  full.heard \subseteq AnswerOfUser
    BY <1>2, <1>4 DEF Filled
  <1>5. ASSUME NEW s \in Slots, new.saves[s] # None
        PROVE  new.saves[s].heard \subseteq AnswerOfUser
    <2>1. PICK save, full : save = tab.saves[s] /\ full = new.saves[s]
      OBVIOUS
    <2>2. CASE full = save
      BY <1>2, <1>5, <2>1, <2>2 DEF Hears
    <2>3. CASE Filled(save, full, saved, known)
      BY <1>4, <2>1, <2>3
    <2> QED BY <1>3, <2>1, <2>2, <2>3
  <1> QED BY <1>5 DEF Hears

LEMMA NavigationHears ==
    ASSUME CInv, NEW t \in Tabs, NEW tab, NEW new, tab = tabs[t], new = tabs'[t], Hears(tab),
           NavigationSteps(t)
    PROVE  Hears(new)
  <1>1. Turns(t, tab, new) /\ tab.moves \in Seq(Navigations)
    BY TabFacts
  <1>2. Keeps(tab, new, MoveParts)
    BY <1>1, NavigationEffect
  <1> QED BY <1>2, HearsKept DEF MoveParts

LEMMA AnswerHears ==
    ASSUME CInv, NEW t \in Tabs, NEW tab, NEW new, tab = tabs[t], new = tabs'[t], HeardAt(t),
           AnswerSteps(t)
    PROVE  Hears(new)
  <1>1. Turns(t, tab, new) /\ Hears(tab)
    BY TabFacts DEF HeardAt
  <1>2. CASE FetchAnswered(t)
    <2>1. Keeps(tab, new, {"refetch"})
      BY <1>1, <1>2, FetchEffect
    <2> QED BY <1>1, <2>1, HearsKept
  <1>3. CASE FetchArrives(t)
    BY <1>1, <1>3, ArrivesHears
  <1>4. ASSUME NEW s \in Slots, NEW answer, NEW checkOnly, PressSubmit(t, s, answer, checkOnly)
        PROVE  Hears(new)
    BY <1>1, <1>4, SubmitHears
  <1>5. ASSUME NEW s \in Slots, Posts(t, s) PROVE Hears(new)
    <2>1. SavesGoOn(tab, new)
      BY <1>1, <1>5, SendEffect
    <2> QED BY <1>1, <2>1, HearsOn
  <1>6. ASSUME NEW s \in Slots, PostAnswered(t, s) PROVE Hears(new)
    <2>1. PICK save : save = tab.saves[s]
      OBVIOUS
    <2>2. SavesGoOn(tab, new)
      BY <1>1, <1>6, <2>1, PostEffect
    <2> QED BY <1>1, <2>2, HearsOn
  <1>7. ASSUME NEW s \in Slots, SaveFails(t, s) PROVE Hears(new)
    <2>1. SavesGoOn(tab, new)
      BY <1>1, <1>7, DropEffect
    <2> QED BY <1>1, <2>1, HearsOn
  <1> QED BY <1>2, <1>3, <1>4, <1>5, <1>6, <1>7 DEF AnswerSteps

LEMMA SessionHears ==
    ASSUME CInv, NEW t \in Tabs, NEW tab, NEW new, tab = tabs[t], new = tabs'[t], Hears(tab),
           SessionSteps(t)
    PROVE  Hears(new)
  <1>1. Turns(t, tab, new) /\ IsTab(tab)
    BY TabFacts
  <1>2. ASSUME NEW id, Load(t, id) PROVE Hears(new)
    <2>1. PICK excerpt : excerpt = Excerpt(id)
      OBVIOUS
    <2>2. SavesGoOn(tab, new)
      BY <1>1, <1>2, <2>1, LoadEffect
    <2> QED BY <2>2, HearsOn
  <1>3. CASE new = LeftPage(tab)
    <2>1. SavesGoOn(tab, new)
      BY <1>1, <1>3, LeftEffect
    <2> QED BY <2>1, HearsOn
  <1>4. CASE tabs' = tabs
    BY <1>4
  <1>5. CASE Open(t)
    <2>1. Keeps(tab, new, {"shown"})
      BY <1>1, <1>5, OpenEffect
    <2> QED BY <2>1, HearsKept
  <1>6. CASE SummaryAnswered(t)
    <2>1. Keeps(tab, new, {"news"})
      BY <1>1, <1>6, NewsEffect
    <2> QED BY <2>1, HearsKept
  <1>7. CASE SummaryArrives(t)
    <2>1. Keeps(tab, new, {"news", "summary"})
      BY <1>1, <1>7, SummaryEffect
    <2> QED BY <2>1, HearsKept
  <1>8. CASE PressEnd(t) \/ CancelEnd(t)
    <2>1. Keeps(tab, new, {"confirm"})
      BY <1>1, <1>8, ConfirmEffect
    <2> QED BY <2>1, HearsKept
  <1>9. \/ (\E id : Load(t, id)) \/ new = LeftPage(tab) \/ tabs' = tabs \/ Open(t)
        \/ SummaryAnswered(t) \/ SummaryArrives(t) \/ PressEnd(t) \/ CancelEnd(t)
    BY <1>1 DEF SessionSteps, Create, Leave, EndAnswered, EndLost, Turns
  <1> QED BY <1>2, <1>3, <1>4, <1>5, <1>6, <1>7, <1>8, <1>9

LEMMA HeardStep ==
    ASSUME CInv, SavedInv, HeardInv, ClientNext PROVE HeardInv'
  <1>1. budget.tabs \subseteq Tabs
    BY DEF CInv, BudgetKept, Budget
  <1>2. ASSUME NEW x \in Tabs, NEW new, new = tabs'[x] PROVE Hears(new)
    <2>1. PICK tab : tab = tabs[x]
      OBVIOUS
    <2>2. Hears(tab) /\ HeardAt(x)
      BY <2>1 DEF HeardInv, HeardAt
    <2>3. CASE tabs'[x] = tabs[x]
      BY <1>2, <2>1, <2>2, <2>3
    <2>4. CASE NavigationSteps(x) \/ AnswerSteps(x) \/ SessionSteps(x)
      BY <1>2, <2>1, <2>2, <2>4, NavigationHears, AnswerHears, SessionHears
    <2>5. CASE \E t \in Tabs : NavigationSteps(t) \/ AnswerSteps(t) \/ SessionSteps(t)
      <3>1. PICK t \in Tabs : NavigationSteps(t) \/ AnswerSteps(t) \/ SessionSteps(t)
        BY <2>5
      <3>2. t # x => tabs'[x] = tabs[x]
        BY <3>1, OthersStay
      <3> QED BY <2>3, <2>4, <3>1, <3>2
    <2>6. tabs' = tabs \/ \E t \in Tabs : NavigationSteps(t) \/ AnswerSteps(t) \/ SessionSteps(t)
      BY <1>1 DEF ClientNext, DeleteTracking, RawPost
    <2> QED BY <2>3, <2>5, <2>6
  <1>3. ASSUME NEW x \in Tabs, NEW less, less = told'[x] PROVE All(less) \subseteq AnswerOfUser
    <2>1. PICK mem : mem = told[x]
      OBVIOUS
    <2>2. All(mem) \subseteq AnswerOfUser
      BY <2>1 DEF HeardInv, HeardAt
    <2>3. All(less) \subseteq All(mem) \cup AnswerOfUser
      BY <1>3, <2>1, StepTells DEF Tells
    <2> QED BY <2>2, <2>3
  <1> QED BY <1>2, <1>3 DEF HeardInv, HeardAt

LEMMA HeardStutter == ASSUME HeardInv, UNCHANGED allVars PROVE HeardInv'
  BY DEF HeardInv, HeardAt, allVars, clientVars

LEMMA HeardInit == ClientInit => HeardInv
  <1>1. SUFFICES ASSUME ClientInit PROVE HeardInv
    OBVIOUS
  <1>2. ASSUME NEW t \in Tabs, NEW tab, NEW mem, tab = tabs[t], mem = told[t]
        PROVE  Hears(tab) /\ All(mem) \subseteq AnswerOfUser
    <2>1. tab = ListPage /\ mem = [answers |-> {}, saved |-> {}]
      BY <1>1, <1>2 DEF ClientInit
    <2>2. tab.saves = [s \in Slots |-> None]
      BY <2>1, ListEffect
    <2>3. All(mem) = {}
      BY <2>1 DEF All
    <2> QED BY <2>2, <2>3 DEF Hears
  <1> QED BY <1>2 DEF HeardInv, HeardAt
-------------------------------------------------------------------------------
(***************************************************************************)
(* What the server has put out: every delivery through one of the two      *)
(* sinks, and only reports that exist are discarded, since a report is     *)
(* never removed.                                                          *)
(***************************************************************************)
PutOut ==
    /\ \A i \in DOMAIN outbox : outbox[i].sink \in {"console", "email"}
    /\ discarded \subseteq DOMAIN reports

LEMMA QuietPutOut ==
    ASSUME PutOut, outbox' = outbox, discarded' = discarded,
           \A i \in DOMAIN reports : i \in DOMAIN reports'
    PROVE  PutOut'
  BY DEF PutOut

LEMMA DeletePutOut ==
    ASSUME TypeOK, PutOut, outbox \in Seq(Range(outbox)), NEW config \in Configurations,
           NEW u, NEW id, HandleDelete(config, u, id)
    PROVE  PutOut'
  <1> DEFINE sess == sessionsStore[id]
             consent == "sendReportEmail" \in sess.options
  <1>1. /\ EndExamSession(u, id) /\ discarded' = discarded
        /\ IF sess.answer = NoAnswer THEN UNCHANGED outbox
           ELSE Logged(Notify(config, u, EmailOf[u], id, consent, "exam_completed"))
    BY DEF HandleDelete
  <1>2. \A i \in DOMAIN reports : i \in DOMAIN reports'
    <2>1. PICK rep : rep = ReportOf(id)
      OBVIOUS
    <2>2. reports' = IF sess.answer = NoAnswer THEN reports ELSE Append(reports, rep)
      BY <1>1, <2>1, EndSummary
    <2>3. PICK S : S = Report \cup {rep}
      OBVIOUS
    <2>4. reports \in Seq(S) /\ rep \in S
      BY <2>3, TypeFacts
    <2> HIDE DEF sess
    <2> QED BY <2>2, <2>4
  <1>3. CASE outbox' = outbox
    BY <1>1, <1>2, <1>3, QuietPutOut
  <1>4. CASE outbox' # outbox
    <2>1. PICK r \in Notify(config, u, EmailOf[u], id, consent, "exam_completed") :
            outbox' = outbox \o r.log
      BY <1>1, <1>4 DEF Logged
    <2>2. consent \in BOOLEAN
      OBVIOUS
    <2> HIDE DEF consent
    <2>3. \/ r.log = <<>>
          \/ \E d : r.log = <<d>> /\ d.sink \in {"console", "email"}
      BY <2>1, <2>2, NotifyFacts
    <2>4. r.log # <<>>
      BY <1>4, <2>1, ConcatEmptySeq
    <2>5. PICK d : r.log = <<d>> /\ d.sink \in {"console", "email"}
      BY <2>3, <2>4
    <2>6. outbox' = outbox \o <<d>>
      BY <2>1, <2>5
    <2>7. /\ DOMAIN outbox' = 1..(Len(outbox) + 1) /\ Len(outbox) \in Nat
          /\ DOMAIN outbox = 1..Len(outbox)
          /\ \A i \in DOMAIN outbox : outbox'[i] = outbox[i]
          /\ outbox'[Len(outbox) + 1] = d
      BY <2>6, EntryFacts
    <2>8. \A i \in DOMAIN outbox' : outbox'[i].sink \in {"console", "email"}
      <3>1. \A i \in DOMAIN outbox' : i \in DOMAIN outbox \/ i = Len(outbox) + 1
        BY <2>7
      <3> QED BY <2>5, <2>7, <3>1 DEF PutOut
    <2> QED BY <1>1, <1>2, <2>8 DEF PutOut
  <1> QED BY <1>3, <1>4

LEMMA ApiPutOut ==
    ASSUME TypeOK, PutOut, outbox \in Seq(Range(outbox)), NEW config \in Configurations,
           ApiNext(config)
    PROVE  PutOut'
  <1>1. ASSUME NEW u \in Users, NEW e \in Exams, NEW options \in OptionChoices,
               NEW accept \in AcceptChoices, HandleCreate(config, u, e, options, accept)
        PROVE  PutOut'
    <2>1. PICK id : id = sessionCount + 1
      OBVIOUS
    <2>2. PICK r \in SessionStarted(config, u, id) : outbox' = outbox \o r.log
      BY <1>1, <2>1 DEF HandleCreate, Logged
    <2>3. r.log = <<>>
      BY <2>2, StartedFacts
    <2>4. outbox' = outbox /\ discarded' = discarded
      BY <1>1, <2>2, <2>3, ConcatEmptySeq DEF HandleCreate
    <2>5. reports' = reports
      BY <1>1, StartSummary DEF HandleCreate
    <2> QED BY <2>4, <2>5, QuietPutOut
  <1>2. ASSUME NEW id, WorksOn(id), UNCHANGED <<wishes, discarded, outbox>>
        PROVE  PutOut'
    BY <1>2, QuietPutOut DEF WorksOn
  <1>3. ASSUME NEW u, NEW id, NEW c, HandleGetNextQuestion(u, id, c) PROVE PutOut'
    <2>1. WorksOn(id)
      BY <1>3, GetNextSummary DEF HandleGetNextQuestion
    <2> QED BY <1>2, <1>3, <2>1 DEF HandleGetNextQuestion
  <1>4. ASSUME NEW u, NEW id, NEW c, NEW i, HandleSeekCursor(u, id, c, i) PROVE PutOut'
    <2>1. WorksOn(id)
      BY <1>4, SeekSummary DEF HandleSeekCursor
    <2> QED BY <1>2, <1>4, <2>1 DEF HandleSeekCursor
  <1>5. ASSUME NEW u, NEW id, NEW a, NEW checkOnly \in BOOLEAN,
               HandleSubmitAnswer(u, id, a, checkOnly)
        PROVE  PutOut'
    <2>1. WorksOn(id)
      BY <1>5, SubmitSummary DEF HandleSubmitAnswer
    <2> QED BY <1>2, <1>5, <2>1 DEF HandleSubmitAnswer
  <1>6. ASSUME NEW u, NEW id, HandleDelete(config, u, id) PROVE PutOut'
    BY <1>6, DeletePutOut
  <1>7. ASSUME NEW u, NEW i, HandleDeleteTracking(config, u, i) PROVE PutOut'
    <2> DEFINE sent(consent) == Notify(config, u, EmailOf[u], reports[i].session, consent,
                                       "exam_report_deleted")
    <2>1. PICK consent \in BOOLEAN : Logged(sent(consent))
      BY <1>7 DEF HandleDeleteTracking
    <2>2. PICK r \in sent(consent) : outbox' = outbox \o r.log
      BY <2>1 DEF Logged
    <2>3. r.log = <<>>
      BY <2>2, NotifyFacts
    <2>4. outbox' = outbox
      BY <2>2, <2>3, ConcatEmptySeq
    <2>5. reports' = reports /\ discarded' = discarded \cup {i} /\ i \in DOMAIN reports
      BY <1>7 DEF HandleDeleteTracking, vars, serverVars
    <2> QED BY <2>4, <2>5 DEF PutOut
  <1> QED BY <1>1, <1>3, <1>4, <1>5, <1>6, <1>7 DEF ApiNext

LEMMA PutOutStep ==
    TypeOK /\ CInv /\ MailInv /\ PutOut /\ [ClientNext]_allVars => PutOut'
  <1>1. SUFFICES ASSUME TypeOK, CInv, MailInv, PutOut, [ClientNext]_allVars PROVE PutOut'
    OBVIOUS
  <1>2. PICK config \in Configurations : config = budget.config /\ MailKept(config)
    BY <1>1 DEF MailInv
  <1>3. CASE ApiNext(config)
    BY <1>1, <1>2, <1>3, ApiPutOut DEF MailKept
  <1>4. CASE UNCHANGED apiVars
    BY <1>1, <1>4, QuietPutOut DEF apiVars, vars, serverVars
  <1>5. ApiNext(config) \/ UNCHANGED apiVars
    BY <1>1, <1>2, ClientSteps DEF allVars
  <1> QED BY <1>3, <1>4, <1>5

LEMMA PutOutInit == ClientInit => PutOut
  BY DEF ClientInit, ApiInit, PutOut
-------------------------------------------------------------------------------
LEMMA TypedFollows ==
    ASSUME TypeOK, CInv, MailInv, ShapesInv, WritesInv, HeardInv, PutOut PROVE ClientTypeOK
  <1>1. ASSUME budget.raw = {}, NEW t \in Tabs PROVE \A tab \in {tabs[t]} : TabTyped(tab)
    <2>1. PICK tab, new : tab = tabs[t] /\ new = tabs'[t]
      OBVIOUS
    <2>2. Looks(tab) /\ MovesFit(tab) /\ SavesFit(tab)
      BY <2>1, ShapeOpen DEF Shaped
    <2>3. Writes(tab)
      BY <1>1, <2>1 DEF WritesInv, WritesAt
    <2>4. Hears(tab)
      BY <2>1 DEF HeardInv, HeardAt
    <2>5. /\ tab.page \in 0..sessionCount /\ tab.cursor \in Cursor
          /\ tab.moves \in Seq(Navigations)
      BY <2>1, TabFacts, CursorAssumption DEF Presentable, Cursor
    <2>6. ASSUME NEW s \in Slots, tab.saves[s] # None PROVE SaveTyped(tab.saves[s])
      <3>1. IsSave(tab.saves[s])
        BY <2>1, <2>6, TabFacts
      <3> QED BY <2>2, <2>3, <2>4, <2>6, <3>1
              DEF SaveTyped, IsSave, SavesFit, Writes, WritesIn, Hears
    <2>7. TabTyped(tab)
      BY <2>2, <2>3, <2>5, <2>6 DEF TabTyped, Looks, MovesFit, Writes, Written
    <2> QED BY <2>1, <2>7
  <1>2. Len(wishes) = sessionCount
    BY DEF MailInv, WishesKept
  <1>3. \A t \in Tabs : told[t].answers \cup told[t].saved \subseteq AnswerOfUser
    BY DEF HeardInv, HeardAt, All
  <1> QED BY <1>1, <1>2, <1>3 DEF ClientTypeOK, PutOut

\* A page asks only for indexes of its session and posts no question twice, whatever is
\* lost, left, reopened, reloaded or posted by other tabs; what the server puts out, it
\* puts out through a sink it has; and every session was asked for.
THEOREM ClientTyped == ClientSpec => []ClientTypeOK
  <1>1. TypeOK /\ TypeOK' /\ SInv /\ CInv /\ [Next]_vars /\ ShapesInv /\ [ClientNext]_allVars
          => ShapesInv'
    BY ShapesStep, ShapesStutter
  <1>2. TypeOK /\ CInv /\ WritesInv /\ [ClientNext]_allVars => WritesInv'
    BY WritesStep, WritesStutter
  <1>3. TypeOK /\ TypeOK' /\ SInv /\ CInv /\ SavedInv /\ [ClientNext]_allVars => SavedInv'
    BY SavedStep, SavedStutter
  <1>4. CInv /\ SavedInv /\ HeardInv /\ [ClientNext]_allVars => HeardInv'
    BY HeardStep, HeardStutter
  <1>5. TypeOK /\ CInv /\ [ClientNext]_allVars => [Next]_vars
    BY ClientSteps, ApiSteps DEF allVars, apiVars
  <1>6. TypeOK /\ CInv /\ MailInv /\ ShapesInv /\ WritesInv /\ HeardInv /\ PutOut
          => ClientTypeOK
    BY TypedFollows
  <1> QED BY <1>1, <1>2, <1>3, <1>4, <1>5, <1>6, ShapesInit, WritesInit, SavedInit, HeardInit,
             PutOutInit, InitMail, StepMail, PutOutStep, ClientInvariant, PTL DEF ClientSpec
===============================================================================
