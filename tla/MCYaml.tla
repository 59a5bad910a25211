------------------------------- MODULE MCYaml -------------------------------
(* The instance TLC checks of YamlToJson: what a file is made of. *)
EXTENDS YamlToJson

MCFiles ==
    {{"version", "tagDirective", "docStart", "docEnd", "customTag", "dash", "colon", "plain",
      "plainLine", "bad", "end"},
     {"dash", "question", "colon", "quoted", "plainLine", "longPlain", "blockScalar",
      "anchor", "end"},
     {"seqStart", "seqEnd", "comma", "question", "colon", "quoted", "end"},
     {"mapStart", "mapEnd", "comma", "colon", "longQuoted", "tag", "alias", "end"},
     {"dash", "colon", "mapStart", "mapEnd", "comma", "plain", "plainLine", "end"},
     {"seqStart", "seqEnd", "mapStart", "mapEnd", "plain", "colon", "end"}}
=============================================================================
