----------------------------- MODULE MCExamClient -----------------------------
(***************************************************************************)
(* ExamClient for TLC: a practice and a certification exam of two or three *)
(* questions, one exam with a question of every type for clients that post *)
(* what they like, and one budget for each kind of trouble.                *)
(***************************************************************************)
EXTENDS ExamClient, TLC

CONSTANTS left, right, guest, alice, visitor, practice, certification, every, admin, mailA

MCUserOf == left :> alice @@ right :> alice @@ guest :> visitor
TabSymmetry == Permutations({left, right})
MCEmailOf == alice :> mailA @@ visitor :> NoEmail

Q(id, type, options) == [id |-> id, type |-> type, options |-> options]
Singles == <<Q("q1", "single", 2), Q("q2", "single", 2), Q("q3", "single", 2)>>
Types == <<Q("q1", "single", 2), Q("q4", "multiple", 2), Q("q5", "draganddrop", 0)>>

Exam(category, questions) ==
    [category |-> category, sample |-> 0, from |-> {}, collections |-> <<questions>>]

MCCatalogue == practice :> Exam("practice", Singles)
            @@ certification :> Exam("certification", SubSeq(Singles, 1, 2))
            @@ every :> Exam("practice", Types)

Graded(q) ==
    [id |-> q.id, type |-> q.type, score |-> 2,
     correct   |-> CASE q.type = "single" -> <<"a">>
                     [] q.type = "multiple" -> <<"a", "b">>
                     [] OTHER -> <<>>,
     solutions |-> IF q.type = "draganddrop"
                   THEN {[connects |-> {<<"s", "d">>}, required |-> 2,
                          combinations |-> {[sources |-> {"s", "r"},
                                             destinations |-> {"d"}]}]}
                   ELSE {}]
MCBank == [e \in Exams |-> [p \in AllPositions(e) |-> Graded(QuestionAt(e, p))]]
MCPassingScore == [e \in Exams |-> IF e = practice THEN NoPassingScore ELSE 4]

Ans(q, options, connections) ==
    [question |-> q, options |-> options, connections |-> connections]
MCUserAnswers == "q1" :> {Ans("q1", <<"a">>, <<>>)}
              @@ "q2" :> {Ans("q2", <<"a">>, <<>>), Ans("q2", <<"b">>, <<>>)}
              @@ "q3" :> {Ans("q3", <<"a">>, <<>>)}
              @@ "q4" :> {} @@ "q5" :> {}

Raw == {Ans("q1", <<>>, <<>>), Ans("q1", <<"a">>, <<>>), Ans("q1", <<"a", "b">>, <<>>),
        Ans("q4", <<"a">>, <<>>), Ans("q4", <<"b", "a">>, <<>>), Ans("q4", <<"a", "a">>, <<>>),
        Ans("q4", <<"a", "b", "b">>, <<>>), Ans("q4", <<"a", "c">>, <<>>),
        Ans("q5", <<>>, <<<<"s", "d">>>>), Ans("q5", <<>>, <<<<"s", "d">>, <<"s", "d">>>>),
        Ans("q5", <<>>, <<<<"r", "d">>, <<"s", "d">>>>),
        Ans("q5", <<>>, <<<<"d", "s">>, <<"s", "d">>>>), Ans("q9", <<"a">>, <<>>)}
Again == {Ans("q1", <<"a">>, <<>>), Ans("q4", <<"b", "a">>, <<>>)}
MCRawSubmissions == {<<>>} \cup {<<a>> : a \in Raw} \cup (Raw \X Again)

\* What merging the answers of pages into raw submissions can lead to.
MCAnswers == {raw \o own : raw \in MCRawSubmissions,
                own \in {s \in UNION {[1..n -> AnswerOfUser] : n \in 0..3} : AnswersOnce(s)}}

Plain == [smtp |-> FALSE, sysadmin |-> FALSE, signer |-> FALSE]
Nothing == [tabs |-> {left}, exams |-> {practice}, options |-> {{"seekable"}},
            config |-> Plain, starts |-> 1, loads |-> 1, moves |-> 0, saves |-> 0,
            refetches |-> 0, losses |-> 0, ends |-> 0, raw |-> {}]

Certified == [Nothing EXCEPT !.exams = {certification}, !.options = {{}}]

\* Navigation with lost requests and a page that is left, and with late summaries; two
\* tabs of a session that can seek; answers of a page that is left while they are on their
\* way; one tab, then two that answer in a session that cannot seek; endings and mail under
\* every configuration; raw submissions, alone and between those of a page.
MCBudgets ==
    {[Nothing EXCEPT !.moves = 3, !.losses = 2, !.loads = 2],
     [Nothing EXCEPT !.moves = 2, !.losses = 1, !.loads = 2, !.refetches = 1],
     [Nothing EXCEPT !.moves = 3, !.saves = 1, !.losses = 1, !.refetches = 1],
     [Nothing EXCEPT !.tabs = {left, right}, !.moves = 3, !.losses = 1, !.loads = 2],
     [Nothing EXCEPT !.moves = 2, !.saves = 4, !.loads = 2],
     [Certified EXCEPT !.moves = 1, !.saves = 3, !.refetches = 1, !.losses = 1, !.ends = 1],
     [Certified EXCEPT !.loads = 2, !.moves = 1, !.saves = 3, !.losses = 1, !.ends = 1],
     [Certified EXCEPT !.loads = 2, !.moves = 1, !.saves = 2, !.refetches = 1, !.losses = 1],
     [Certified EXCEPT !.tabs = {left, right}, !.loads = 3, !.moves = 1, !.saves = 2,
                       !.ends = 1],
     [Certified EXCEPT !.tabs = {left, right}, !.loads = 2, !.moves = 2, !.saves = 2,
                       !.losses = 1, !.ends = 1],
     [Nothing EXCEPT !.exams = {every}, !.loads = 0, !.raw = MCRawSubmissions],
     [Nothing EXCEPT !.moves = 1, !.saves = 1, !.losses = 1, !.refetches = 1,
                     !.raw = {<<>>, <<Ans("q1", <<>>, <<>>), Ans("q1", <<"a">>, <<>>)>>}]}
    \cup
    {[Certified EXCEPT !.tabs = {left, guest}, !.options = {{"sendReportEmail"}, {}},
                       !.config = config, !.starts = 1, !.moves = 1, !.saves = 2,
                       !.losses = 1, !.ends = 2] :
       config \in Configurations}
MCOptionChoices == {{}, {"seekable"}, {"sendReportEmail"}}
MCAcceptChoices == {{}, {"single", "multiple"}}
===============================================================================
