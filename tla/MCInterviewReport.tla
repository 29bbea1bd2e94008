-------------------------- MODULE MCInterviewReport --------------------------
(***************************************************************************)
(* Three job descriptions over a knowledge base of three occupations:      *)
(*   - more technologies than the cap, a required one last, one listed     *)
(*     again as preferred in another spelling;                             *)
(*   - a name that is both a competency and a technology;                  *)
(*   - responsibilities that normalise alike, one of them an O*NET task.   *)
(* Matches: a clear one, a near tie, one on the title alone and none.      *)
(* The last description, one answer and the questions come from the        *)
(* offline model; what else a model might say is written out.              *)
(***************************************************************************)
EXTENDS OfflineModel

MCNames == {"sql", "git", "aws", "excel", "lead", "deploy", "nurse", "report"}

MCBudget == [competency |-> 1, technology |-> 2, task |-> 1]

MCEntry(name, spelling) == [name |-> name, spelling |-> spelling]
MCSkill(name, spelling, required) == [name |-> name, spelling |-> spelling, required |-> required]

Title(body, standalone, intro, clause) ==
    [labelled |-> FALSE, standalone |-> standalone, body |-> body, intro |-> intro, clause |-> clause]
Line(kind, mentions, text) ==
    [kind |-> kind, mentions |-> mentions, levels |-> {}, text |-> text,
     title |-> Title(text, FALSE, "", text)]

MCDescription ==
    <<Line("blank", {}, ""),
      [Line("plain", {}, "engineer") EXCEPT !.title = Title("engineer", TRUE, "", "engineer"),
                                            !.levels = {"senior", "lead"}],
      Line("preferred", {}, ""),
      Line("plain", {"git"}, ""),
      Line("duties", {}, ""),
      Line("bullet", {}, "deploy"),
      Line("indented", {}, ""),
      Line("blank", {}, ""),
      Line("bullet", {}, "deploy"),
      Line("bullet", {"git"}, "report"),
      Line("heading", {}, ""),
      Line("bullet", {"lead"}, "aws")>>

\* Every description of a few lines that sets sections, bullets and mentions against each other.
MCLines == {Line(kind, mentions, "deploy") :
              kind \in {"plain", "preferred_prose", "duties", "bullet", "indented", "heading"},
              mentions \in {{}, {"git"}}}
MCDescriptions == {MCDescription} \cup UNION {[1..n -> MCLines] : n \in 0..3}

MCSpecs ==
    {[competencies |-> <<MCEntry("lead", 1), MCEntry("lead", 2)>>,
      skills |-> <<MCSkill("aws", 1, FALSE), MCSkill("git", 1, TRUE), MCSkill("aws", 2, FALSE),
                   MCSkill("git", 2, FALSE), MCSkill("sql", 1, TRUE)>>,
      responsibilities |-> <<>>],
     [competencies |-> <<MCEntry("sql", 1), MCEntry("lead", 1)>>,
      skills |-> <<MCSkill("sql", 2, TRUE), MCSkill("git", 1, TRUE), MCSkill("aws", 1, FALSE)>>,
      responsibilities |-> <<>>],
     AnalyzeJob(MCDescription)}

MCKnowledgeBase ==
    <<[competencies |-> <<"lead">>, technologies |-> <<"excel", "sql", "docker", "linux">>,
       tasks |-> <<"deploy", "operate">>],
      [competencies |-> <<>>, technologies |-> <<"excel">>, tasks |-> <<"nurse">>],
      [competencies |-> <<"listen">>, technologies |-> <<"ehr">>, tasks |-> <<>>]>>

Relevance(deploy, operate, nurse) == [deploy |-> deploy, operate |-> operate, nurse |-> nurse]

MCMatches ==
    {[scores |-> <<2000, 1400, 300>>, relevance |-> Relevance(3000, 600, 400)],
     [scores |-> <<1500, 1400, 300>>, relevance |-> Relevance(3000, 400, 400)],
     [scores |-> <<900, 1400, 300>>, relevance |-> Relevance(3000, 600, 600)],
     [scores |-> <<700, 100, 100>>, relevance |-> Relevance(3000, 600, 400)]}

MCReplies ==
    LET worded(category, name) == GenerateQuestions(<<[category |-> category, name |-> name]>>)
        named(name) == {worded(category, name) : category \in Categories}
    IN  {<<other, right>> : other \in named("sql") \cup {<<>>},
                            right \in UNION {named(name) : name \in MCNames}}

Item(name, type) == [target |-> name, evidence_type |-> type, mentioned |-> TRUE]

Said(score, type, evidence, strengths, weaknesses, question, items) ==
    [score |-> score, type |-> type, evidence |-> evidence, strengths |-> strengths,
     weaknesses |-> weaknesses, question |-> question, cross_target_evidence |-> items]

Sentence(words, verbs, cues, names) ==
    [words |-> words, verbs |-> verbs, cues |-> cues, names |-> names]

MCSentences ==
    {Sentence(w, v, cues, names) :
        w \in {4, 8, 12}, v \in {0, 2}, names \in {{}, {"git"}},
        cues \in SUBSET {"lack", "confusion", "claims", "but_denies"}}
      \cup {Sentence(12, 2, {cue}, {"sql"}) : cue \in {"unverified", "performance", "build"}}
MCAnswers == {<<>>} \cup {<<s>> : s \in MCSentences} \cup (MCSentences \X MCSentences)

MCWordLengths == UNION {[1..n -> {1, 3, 7}] : n \in 1..4}

MCDenial == <<Sentence(9, 1, {"lack"}, {"sql"}), Sentence(12, 3, {}, {"git"})>>

MCPieces == [name \in MCNames |-> IF name = "report" THEN <<"report", "files">> ELSE <<name>>]
MCSkills == <<"sql", "git", "aws", "excel">>
MCCompetencies == <<"lead">>

MCEvaluations ==
    {EvaluateAnswer(MCDenial, {"sql", "git"})} \cup
    {Said(90, "demonstrated", <<"metrics">>, <<"thorough">>, <<>>, TRUE, {}),
     Said(61, "partial", <<"metrics", "scale">>, <<>>, <<"depth">>, TRUE, {Item("git", "demonstrated")}),
     Said(30, "claimed_unverified", <<>>, <<>>, <<>>, FALSE, {Item("sql", "explicit_lack")})}
=============================================================================
