CONSTANTS
  AttributeNames = {href, location}
  MaxAttributes = 2
SPECIFICATION AttributesSpec
INVARIANTS FunctionsResolve SettersAsDeclared AuthorCodeUsedIfWritable
CHECK_DEADLOCK FALSE
