------------------------------ MODULE FakeClient ------------------------------
(***************************************************************************)
(* The offline language model (llm/fake_client.py): what it makes of a job *)
(* description, of a request for questions, of an answer and of a report's *)
(* figures, deterministically and from the text alone.                     *)
(*                                                                         *)
(* Text is kept as what the client's patterns see in it.                   *)
(*   A description is a sequence of lines, each of one kind, naming skills *)
(*   and competencies and words of seniority.                              *)
(*   An answer is a sequence of sentences, each with its number of words   *)
(*   and of action verbs, the cues found in it and the targets it names.   *)
(***************************************************************************)
EXTENDS ReportScoring

CONSTANTS SkillVocabulary, CompetencyVocabulary,    \* _SKILL_VOCAB, _COMPETENCY_VOCAB: sequences
          Pieces            \* a target name, cut at its commas

ASSUME FakeClientAssumption ==
    /\ {SkillVocabulary, CompetencyVocabulary} \subseteq Seq(Names)
    /\ Pieces \in [Names -> Seq(STRING) \ {<<>>}]

FirstGiven(texts, otherwise) ==
    LET given == SelectSeq(texts, LAMBDA text : text # "")
    IN  IF given = <<>> THEN otherwise ELSE given[1]

-----------------------------------------------------------------------------
(***************************************************************************)
(* Job descriptions, line by line.                                         *)
(***************************************************************************)
LineTitle == [labelled : BOOLEAN, standalone : BOOLEAN, body : STRING, intro : STRING,
              clause : STRING]

JobLine == [kind : STRING, mentions : SUBSET Names, levels : SUBSET STRING, text : STRING,
            title : LineTitle]

PreferredLines == {"preferred", "preferred_prose"}
NextSections == {"preferred", "heading"}

Seniorities == <<"principal", "lead", "senior", "junior", "intern", "mid">>

DetectSeniority(lines) ==
    LET seen == UNION {lines[k].levels : k \in DOMAIN lines}
        levels == SelectSeq(Seniorities, LAMBDA level : level \in seen)
    IN  IF levels = <<>> THEN "unknown" ELSE levels[1]

LinesWith(lines, test(_)) == {k \in DOMAIN lines : test(lines[k])}

FirstLine(lines, test(_)) == Min(LinesWith(lines, test) \cup {Len(lines) + 1})

Found(lines, vocabulary) ==
    Sublist(vocabulary, {v \in DOMAIN vocabulary :
                           \E k \in DOMAIN lines : vocabulary[v] \in lines[k].mentions})

(***************************************************************************)
(* A skill is required when it is first named ahead of a line that opens   *)
(* with "Preferred".                                                       *)
(***************************************************************************)
Required(lines, name) ==
    FirstLine(lines, LAMBDA l : name \in l.mentions)
      < FirstLine(lines, LAMBDA l : l.kind \in PreferredLines)

ExtractSkills(lines) ==
    LET found == Found(lines, SkillVocabulary)
    IN  [k \in DOMAIN found |->
           [name |-> found[k], spelling |-> 1, required |-> Required(lines, found[k])]]

ExtractCompetencies(lines) ==
    LET found == Found(lines, CompetencyVocabulary)
    IN  [k \in DOMAIN found |-> [name |-> found[k], spelling |-> 1]]

(***************************************************************************)
(* The first line with anything on it: what follows a label, the line if   *)
(* it reads like a title, what follows a hiring phrase, its first clause.  *)
(***************************************************************************)
ExtractRoleTitle(lines) ==
    LET first == FirstLine(lines, LAMBDA l : l.kind # "blank")
        title == lines[first].title
    IN  IF first > Len(lines) THEN "Unknown Role"
        ELSE IF title.labelled \/ title.standalone THEN FirstGiven(<<title.body>>, "Unknown Role")
        ELSE FirstGiven(<<title.intro, title.clause>>, "Unknown Role")

(***************************************************************************)
(* The list under the duties heading ends at the next heading and at the   *)
(* first line that is neither a bullet nor, below one, indented.           *)
(***************************************************************************)
ExtractResponsibilities(lines) ==
    LET heading == FirstLine(lines, LAMBDA l : l.kind = "duties")
        below == Sublist(lines, {k \in heading + 1..Len(lines) : lines[k].kind # "blank"})
        bullets(k) == {j \in 1..k : below[j].kind = "bullet"}
        continues(k) == \/ below[k].kind = "bullet"
                        \/ below[k].kind = "indented" /\ bullets(k) # {}
        listed == {k \in DOMAIN below : \A j \in 1..k : continues(j)}
        items == InOrder({k \in listed : below[k].kind = "bullet"})
        wrapped(i) == {k \in listed : below[k].kind = "indented" /\ Max(bullets(k)) = items[i]}
    IN  [i \in DOMAIN items |->
           [name |-> below[items[i]].text, spelling |-> 1 + Cardinality(wrapped(i))]]

AnalyzeJob(lines) ==
    [role_title |-> ExtractRoleTitle(lines),
     seniority |-> DetectSeniority(lines),
     skills |-> ExtractSkills(lines),
     competencies |-> ExtractCompetencies(lines),
     responsibilities |-> ExtractResponsibilities(lines)]

(***************************************************************************)
(* One question per line that names a category and a target.               *)
(***************************************************************************)
GenerateQuestions(requested) ==
    SelectSeq(requested, LAMBDA r : r.category \in Categories /\ r.name # "")

-----------------------------------------------------------------------------
(***************************************************************************)
(* Answers, sentence by sentence.                                          *)
(***************************************************************************)
AnswerSentence == [words : Nat, verbs : Nat, cues : SUBSET STRING, names : SUBSET Names]

Words(answer) == Total([k \in DOMAIN answer |-> answer[k].words])
Verbs(answer) == Total([k \in DOMAIN answer |-> answer[k].verbs])

Has(answer, cue) == \E k \in DOMAIN answer : cue \in answer[k].cues

(***************************************************************************)
(* A claim, then a "but" and a denial close behind it.                     *)
(***************************************************************************)
Contradicts(answer) ==
    \E i, j \in DOMAIN answer :
        /\ j \in i..i + 1
        /\ "claims" \in answer[i].cues
        /\ "but_denies" \in answer[j].cues

\* Variant: confusion is looked for first.
ClassifyConfusionFirst(answer) ==
    CASE Has(answer, "confusion") -> "insufficient"
      [] ~Has(answer, "confusion") /\ Contradicts(answer) -> "contradictory"
      [] ~Has(answer, "confusion") /\ ~Contradicts(answer) /\ Has(answer, "lack") -> "explicit_lack"
      [] OTHER -> IF Has(answer, "unverified") THEN "claimed_unverified" ELSE "none"

(***************************************************************************)
(* _classify_evidence, in its order of priority.                           *)
(***************************************************************************)
ClassifyEvidence(answer) ==
    IF Contradicts(answer) THEN "contradictory"
    ELSE IF Has(answer, "lack") THEN "explicit_lack"
    ELSE IF Has(answer, "confusion") THEN "insufficient"
    ELSE IF Has(answer, "unverified") THEN "claimed_unverified"
    ELSE "none"

ContentAwareFollowUp(answer) ==
    IF Has(answer, "performance") THEN "how_verified"
    ELSE IF Has(answer, "leadership") THEN "disagreement"
    ELSE IF Has(answer, "build") THEN "tradeoffs"
    ELSE "hardest_part"

(***************************************************************************)
(* _evidence_excerpt, told by how many of the answer's words it keeps:     *)
(* those whose following blank lies within the limit, and at least one.    *)
(***************************************************************************)
EndOf(lengths, k) == k - 1 + Total(SubSeq(lengths, 1, k))

Excerpt(lengths, limit) ==
    IF EndOf(lengths, Len(lengths)) <= limit THEN Len(lengths)
    ELSE Max({1} \cup {k \in DOMAIN lengths : EndOf(lengths, k) < limit})

-----------------------------------------------------------------------------
(***************************************************************************)
(* What an answer says of a target it was not asked about: the sentence    *)
(* that first names it, and no other.                                      *)
(***************************************************************************)
MentionWindow(answer, name) ==
    LET naming == {k \in DOMAIN answer : name \in answer[k].names}
    IN  IF naming = {} THEN <<>> ELSE <<answer[Min(naming)]>>

ClassifyMention(window) ==
    IF Has(window, "lack") THEN "explicit_lack"
    ELSE IF Verbs(window) > 0 /\ Words(window) >= 8 THEN "demonstrated"
    ELSE "claimed_unverified"

FindCrossTargetEvidence(answer, others) ==
    {[target |-> name, mentioned |-> TRUE,
      evidence_type |-> ClassifyMention(MentionWindow(answer, name))] :
        name \in {other \in others : MentionWindow(answer, other) # <<>>}}

(***************************************************************************)
(* The evaluation itself: the substance of each outcome, in hundredths.    *)
(* question: there is a follow-up question to ask.                         *)
(***************************************************************************)
MinSubstantiveWords == 12
MinThoroughWords == 20
MinThoroughVerbs == 3

Quoted == <<"excerpt">>
NoQuestion == "none"

Outcome(score, type, evidence, strengths, weaknesses, follow_up_question) ==
    [score |-> score, type |-> type, evidence |-> evidence, strengths |-> strengths,
     weaknesses |-> weaknesses, follow_up_question |-> follow_up_question,
     question |-> follow_up_question # NoQuestion,
     decision |-> IF follow_up_question # NoQuestion THEN "follow_up" ELSE "advance",
     cross_target_evidence |-> {}]

EvaluatePrimary(answer) ==
    LET type == ClassifyEvidence(answer)
    IN  CASE Words(answer) = 0 ->
               Outcome(0, "insufficient", <<>>, <<>>, <<"no_answer">>, "share_an_answer")
          [] Words(answer) > 0 /\ type = "explicit_lack" ->
               Outcome(5, type, <<>>, <<>>, <<"no_experience">>, NoQuestion)
          [] Words(answer) > 0 /\ type = "insufficient" ->
               Outcome(5, type, <<>>, <<>>, <<"not_addressed">>, NoQuestion)
          [] Words(answer) > 0 /\ type = "contradictory" ->
               Outcome(20, type, Quoted, <<>>, <<"inconsistent">>, "clarify")
          [] Words(answer) > 0 /\ type = "claimed_unverified" ->
               Outcome(15, type, Quoted, <<>>, <<"unverified">>, "a_specific_detail")
          [] type = "none" /\ Words(answer) \in 1..MinSubstantiveWords - 1 ->
               Outcome(30, "insufficient", Quoted, <<>>, <<"too_brief">>, "a_specific_example")
          [] type = "none" /\ Words(answer) >= MinThoroughWords
               /\ Verbs(answer) >= MinThoroughVerbs ->
               Outcome(80, "demonstrated", Quoted, <<"concrete">>, <<>>, NoQuestion)
          [] OTHER ->
               Outcome(60, "partial", Quoted, <<"described">>, <<>>, ContentAwareFollowUp(answer))

EvaluateAnswer(answer, others) ==
    [EvaluatePrimary(answer) EXCEPT !.cross_target_evidence =
        IF Words(answer) = 0 THEN {} ELSE FindCrossTargetEvidence(answer, others)]

-----------------------------------------------------------------------------
(***************************************************************************)
(* The report narrative, from the figures as text: the score to two        *)
(* decimals, the targets never reached joined by commas and cut at them.   *)
(***************************************************************************)
ReportNarrative(targets, score, summaries, unassessed) ==
    LET named(t) == targets[t].name
        gaps == Sublist(summaries, {k \in DOMAIN summaries :
                                      Strength(summaries[k].score) \in {"insufficient", "not_assessed"}})
    IN  [band |-> Strength((score + 50) \div 100),
         recommendation |-> DeriveRecommendation(score),
         insufficient |-> Upto([k \in DOMAIN gaps |-> gaps[k].target], MaxNamed),
         unassessed |-> Upto(FlattenSeq([k \in DOMAIN unassessed |-> Pieces[named(unassessed[k])]]),
                             MaxNamed),
         strengths |-> FlattenUnique([k \in DOMAIN summaries |-> summaries[k].strengths]),
         weaknesses |-> FlattenUnique([k \in DOMAIN summaries |-> summaries[k].weaknesses])]

-----------------------------------------------------------------------------
(***************************************************************************)
(* What is promised of the analysis: it states what the description        *)
(* states; a skill asked for outside the preferred part is required.       *)
(***************************************************************************)
AnalysisIsTheText(lines) ==
    LET spec == AnalyzeJob(lines)
        heading == FirstLine(lines, LAMBDA l : l.kind = "duties")
    IN  /\ \A k \in DOMAIN spec.skills :
              LET mentions == LinesWith(lines, LAMBDA l : spec.skills[k].name \in l.mentions)
              IN  /\ mentions # {}
                  /\ spec.skills[k].required <=>
                       \E m \in mentions : \A p \in 1..m : lines[p].kind \notin PreferredLines
        /\ \A k \in DOMAIN spec.responsibilities :
              \E j \in heading + 1..Len(lines) :
                  /\ lines[j].text = spec.responsibilities[k].name
                  /\ \A m \in heading + 1..j : lines[m].kind \notin NextSections \cup {"plain"}

(***************************************************************************)
(* Of an excerpt: whole words only, as many as fit, and more than fit only *)
(* when the first word alone does not.                                     *)
(***************************************************************************)
ExcerptIsWhole(lengths, limit) ==
    LET kept == Excerpt(lengths, limit)
    IN  /\ kept \in DOMAIN lengths
        /\ EndOf(lengths, kept) <= limit \/ kept = 1
        /\ kept = Len(lengths) \/ EndOf(lengths, kept + 1) >= limit

(***************************************************************************)
(* And of an evaluation: it asks again exactly where the interview's own   *)
(* policy would; its score and its type of evidence never say different    *)
(* things; who denies having done something is never credited with it nor  *)
(* asked for an example of it; and what it reports of other targets is in  *)
(* the answer's own words, once each.                                      *)
(***************************************************************************)
EvaluationFitsPolicy(answer, others) ==
    LET e == EvaluateAnswer(answer, others)
        strength == Strength(e.score)
        denies(name) == \E k \in DOMAIN answer : name \in answer[k].names /\ "lack" \in answer[k].cues
    IN  /\ (e.decision = "follow_up") <=> (e.question /\ (strength = "strong" => e.weaknesses # <<>>))
        /\ strength = "strong" <=> e.type = "demonstrated"
        /\ strength = "moderate" <=> e.type = "partial"
        /\ Has(answer, "lack") /\ Words(answer) > 0 =>
              /\ e.type \in {"explicit_lack", "contradictory"}
              /\ e.type = "explicit_lack" => e.decision = "advance"
        /\ \A item \in e.cross_target_evidence :
              /\ \E k \in DOMAIN answer : item.target \in answer[k].names
              /\ item.evidence_type = "explicit_lack" => denies(item.target)
              /\ \A other \in e.cross_target_evidence : other.target = item.target => other = item
=============================================================================
