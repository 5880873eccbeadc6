---------------------------- MODULE MCPlanEngine ----------------------------
(* Three slices of the published ruleset, with its own rule ids, fields and   *)
(* scoping, and lead times shrunk to a runway of a week.                      *)
EXTENDS PlanEngine

Always == {}
Question(type, values, askedWhen) ==
    [type |-> type, values |-> values, askedWhen |-> askedWhen, nullable |-> FALSE]
Optional(type, askedWhen) == [Question(type, Null, askedWhen) EXCEPT !.nullable = TRUE]
Date == Question("date", Null, Always)
YesNo == {"yes", "no", Unknown}

AtIn(field, values) == [kind |-> "in", field |-> field, values |-> values]
Is(field, value) == [kind |-> "compare", field |-> field, op |-> "=", value |-> value]
IsNot(field, value) == [kind |-> "compare", field |-> field, op |-> "!=", value |-> value]
Flag(field) == [kind |-> "truthy", field |-> field]
Member(field, value) == [kind |-> "member", field |-> field, member |-> value]

If(field, op, value) == [field |-> field, op |-> op, value |-> value, boundary |-> Null]
AllOf(nodes) == [all |-> nodes]
AnyOf(nodes) == [any |-> nodes]

Rule(id, kind, agency, published, trigger, deadline) ==
    [id |-> id, kind |-> kind, agency |-> agency, published |-> published,
     trigger |-> trigger, deadline |-> deadline, binding |-> Null, dedupeKey |-> Null,
     verification |-> "SOURCE_CONFIRMED"]
Minimum(days) ==
    [type |-> "published_minimum", calendarDays |-> days, boundary |-> "inclusive"]
BusinessDays(days) ==
    [type |-> "business_days_minimum", businessDays |-> days, boundary |-> "inclusive"]

Ruleset(version, calendarId, order, def, ruleList) ==
    [version |-> version, slackWarningDays |-> 2, calendarId |-> calendarId, order |-> order,
     def |-> def, rules |-> ruleList,
     idOrder |-> [id \in {ruleList[i].id : i \in DOMAIN ruleList} |->
                     CHOOSE i \in DOMAIN ruleList : ruleList[i].id = id]]

-----------------------------------------------------------------------------
Sapo(class) == If("sapo_event_type", "eq", class)
StreetRule(id, size, days) ==
    Rule(id, "permit", "SAPO", Null,
         AllOf(<<Sapo("street_event"), If("street_event_size", "eq", size)>>), Minimum(days))
Plaza ==
    [Rule("SAPO-PLAZA-001", "permit", "SAPO", Null, AllOf(<<Sapo("plaza_event")>>),
          [type |-> "published_minimum_by_level", boundary |-> "inclusive",
           levels |-> [a |-> [calendarDays |-> 5, multiBlockDays |-> 7],
                       c |-> [calendarDays |-> 4, multiBlockDays |-> Null]]])
        EXCEPT !.binding = [levelField |-> "plaza_level",
                            multiBlockField |-> "plaza_multiple_blocks"]]

StreetDef(blocksAsked) ==
    [location_type |-> Question("enum", {"street", "private_venue"}, Always),
     obstructs_public_way |-> Question("enum", YesNo, {AtIn("location_type", {"street"})}),
     sapo_event_type |-> Question("enum", {"street_event", "plaza_event", "other_sapo_class", Unknown},
                                  {IsNot("obstructs_public_way", "no")}),
     street_event_size |-> Question("enum", {"small", "large", Unknown},
                                    {Is("sapo_event_type", "street_event")}),
     plaza_level |-> Question("enum", {"a", "c", Unknown}, {Is("sapo_event_type", "plaza_event")}),
     plaza_multiple_blocks |-> Question("boolean", Null, blocksAsked),
     event_date |-> Date]

Street(version, blocksAsked) ==
    Ruleset(version, "no_holidays",
        <<"location_type", "obstructs_public_way", "sapo_event_type", "street_event_size",
          "plaza_level", "plaza_multiple_blocks", "event_date">>,
        StreetDef(blocksAsked),
        <<Rule("SAPO-SCOPE-001", "classification", Null, "no_new_requirement",
               AllOf(<<If("location_type", "in", {"street"}),
                     If("obstructs_public_way", "eq", "no")>>), Null),
          StreetRule("SAPO-STREET-LARGE-001", "large", 6),
          StreetRule("SAPO-STREET-SMALL-001", "small", 4),
          Plaza,
          Rule("SAPO-INSURANCE-001", "insurance", "SAPO", Null,
               AllOf(<<If("sapo_event_type", "in", {"street_event", "plaza_event", "other_sapo_class"})>>),
               [type |-> "before_issuance"]),
          [Rule("ADV-SAPO-OTHER-CLASS-001", "advisory", Null, Null,
                AllOf(<<Sapo("other_sapo_class")>>), Null) EXCEPT !.verification = "COVERAGE_GAP"]>>)

(* The reader rejects these two: the block question is asked only of the level *)
(* that needs no block, and a question gates itself.                          *)
StreetUnasked == Street("blocks", {Is("plaza_level", "c")})
StreetCyclic == Street("cyclic", {Is("plaza_multiple_blocks", TRUE)})

StreetForms ==
    [location_type : {"street", "private_venue"}, obstructs_public_way : YesNo \cup {Null},
     sapo_event_type : {"street_event", "plaza_event", "other_sapo_class", Unknown, Null},
     street_event_size : {"small", "large", Unknown, Null},
     plaza_level : {"a", "c", Unknown, Null}, plaza_multiple_blocks : BOOLEAN \cup {Null},
     event_date : {20}, name : {"named"}]

-----------------------------------------------------------------------------
Tent == If("structure_types", "contains", "tent_canopy")
Private == If("location_type", "eq", "private_venue")
Alcohol == If("alcohol", "bool", TRUE)
LicenseIn(op, v) == AllOf(<<Alcohol, Private, If("venue_license_covers_event_area", op, v)>>)

Venue ==
    Ruleset("venue", "nyc",
        <<"location_type", "event_date", "structure_types", "tent_area_sqft",
          "structure_over_10ft_tall", "alcohol", "venue_license_covers_event_area">>,
        [location_type |-> Question("enum", {"park", "private_venue"}, Always),
         event_date |-> Date,
         structure_types |-> Question("multi_enum", {"tent_canopy", "prop_truss", "none"}, Always),
         tent_area_sqft |-> Optional("integer", {Member("structure_types", "tent_canopy")}),
         structure_over_10ft_tall |-> Question("enum", YesNo, {IsNot("structure_types", "none")}),
         alcohol |-> Question("boolean", Null, Always),
         venue_license_covers_event_area |->
             Question("enum", YesNo, {Flag("alcohol"), Is("location_type", "private_venue")})],
        <<[Rule("DOB-TALL-STRUCTURE-001", "permit", "DOB", "may_be_required",
                AllOf(<<If("structure_types", "in", {"tent_canopy"}),
                      If("structure_over_10ft_tall", "eq", "yes")>>), Null)
              EXCEPT !.dedupeKey = "dob-structure"],
          [Rule("DOB-TENT-001", "permit", "DOB", Null,
                AllOf(<<Tent, [If("tent_area_sqft", "gt", 400) EXCEPT !.boundary = "conditional"]>>),
                BusinessDays(3))
              EXCEPT !.dedupeKey = "dob-structure"],
          Rule("SLA-VENUE-LICENSE-001", "advisory", "SLA", "no_new_requirement",
               LicenseIn("eq", "yes"), Null),
          Rule("SLA-ONEDAY-001", "permit", "SLA", Null, LicenseIn("eq", "no"), BusinessDays(3)),
          Rule("SLA-CATERING-001", "permit", "SLA", "may_be_required",
               LicenseIn("in", {"no", Unknown}), BusinessDays(3)),
          [Rule("ADV-ALCOHOL-PUBLIC-001", "advisory", Null, Null,
                AllOf(<<Alcohol, If("location_type", "in", {"park"})>>), Null)
              EXCEPT !.verification = "COVERAGE_GAP"]>>)

VenueForms ==
    [location_type : {"private_venue"}, event_date : {20}, name : {"named"},
     structure_types : {{"tent_canopy"}, {"none"}},
     tent_area_sqft : {400, 401, Null},
     structure_over_10ft_tall : YesNo \cup {Null}, alcohol : BOOLEAN,
     venue_license_covers_event_area : YesNo \cup {Null}]

-----------------------------------------------------------------------------
Sound == If("amplified_sound", "bool", TRUE)
InPark == If("location_type", "eq", "park")

Park ==
    Ruleset("park", "no_holidays",
        <<"location_type", "headcount", "event_date", "selling_anything", "amplified_sound",
          "sound_audible_from_public_way", "open_flame_or_cooking">>,
        [location_type |-> Question("enum", {"park", "private_venue"}, Always),
         headcount |-> Question("integer", Null, Always),
         event_date |-> Date,
         selling_anything |-> Question("boolean", Null, Always),
         amplified_sound |-> Question("boolean", Null, Always),
         sound_audible_from_public_way |->
             Question("enum", YesNo, {Flag("amplified_sound"), Is("location_type", "private_venue")}),
         open_flame_or_cooking |-> Question("multi_enum", {"propane_lpg", "none"}, Always)],
        <<Rule("ADV-NOISE-CODE-001", "advisory", Null, Null,
               AllOf(<<Sound, Private, If("sound_audible_from_public_way", "in", {"no", Unknown})>>), Null),
          Rule("NYPD-SOUND-001", "permit", "NYPD", Null,
               AnyOf(<<AllOf(<<Sound, If("location_type", "in", {"park"})>>),
                     AllOf(<<Sound, Private, If("sound_audible_from_public_way", "eq", "yes")>>)>>),
               Minimum(3)),
          Rule("NYPD-SOUND-PARKS-DEP-001", "dependency", "NYPD", "may_be_required",
               AllOf(<<Sound, InPark>>), Null),
          Rule("PARKS-EVENT-001", "permit", "Parks", Null,
               AllOf(<<InPark, If("headcount", "gt", 20)>>),
               [type |-> "composite", hardFloorDays |-> 5, processingRangeDays |-> <<2, 8>>,
                boundary |-> "inclusive"]),
          [Rule("PARKS-EVENT-EXACTLY-20-001", "permit", "Parks", "may_be_required",
                AllOf(<<InPark, If("headcount", "eq", 20)>>), Null)
              EXCEPT !.verification = "OFFICIAL_CONFLICT"],
          Rule("PARKS-PROPANE-001", "prohibition", "Parks", "prohibited_or_ineligible",
               AllOf(<<InPark, If("open_flame_or_cooking", "contains_any", {"propane_lpg"})>>), Null),
          [Rule("PARKS-TUA-001", "permit", "Parks", "may_be_required",
                AllOf(<<InPark, If("selling_anything", "bool", TRUE)>>), Minimum(4))
              EXCEPT !.verification = "OFFICIAL_CONFLICT"]>>)

ParkForms ==
    [location_type : {"park", "private_venue"}, headcount : {20, 21}, event_date : {20},
     name : {"named"}, selling_anything : BOOLEAN, amplified_sound : BOOLEAN,
     sound_audible_from_public_way : YesNo \cup {Null},
     open_flame_or_cooking : {{"propane_lpg"}, {"none"}}]

-----------------------------------------------------------------------------
MCArtifacts ==
    {Venue, Park, Street("street", {Is("sapo_event_type", "plaza_event")}),
     StreetUnasked, StreetCyclic}

(* Only the venue's deadlines count business days: its calendar publishes no  *)
(* holidays, or one in the week before the event. A ruleset under a calendar  *)
(* that is not its own plans nothing.                                         *)
MCCalendars == {[id |-> "nyc", holidays |-> Null], [id |-> "nyc", holidays |-> {18}],
                [id |-> "no_holidays", holidays |-> Null]}

RawForms(rs) ==
    CASE rs.version = "venue" -> VenueForms
      [] rs.version = "park"  -> ParkForms
      [] OTHER                -> StreetForms

Provided(form) == [f \in {g \in DOMAIN form : form[g] # Null} |-> form[f]]

MCForms ==
    [v \in {rs.version : rs \in MCArtifacts} |->
        LET rs == CHOOSE r \in MCArtifacts : r.version = v
        IN  {f \in {Provided(form) : form \in RawForms(rs)} :
                ValidateIntake(rs, f, FirstDay).values # Null}]

MCRawAnswers ==
    [v \in DOMAIN MCForms |->
        LET rs == CHOOSE r \in MCArtifacts : r.version = v
        IN  [f \in {"location_type", "name"} |->
                {Garbage} \cup (IF f = "name" THEN {""} ELSE rs.def[f].values)]]
=============================================================================
